---------------------------- MODULE ContainerProofs ----------------------------
(***************************************************************************)
(* What a write promises of the objects it finds, proved for every number  *)
(* of names, documents, stocks, slots, writes and changes by hand.         *)
(*                                                                         *)
(* First what objects and tags are, then that labels survive; what the     *)
(* session lists and what its backs follow; that an edit leaves a second   *)
(* write nothing to do.  Then the row a scan reads, the types, the stock   *)
(* of new boards, and last that the session holds what a read would give.  *)
(***************************************************************************)
EXTENDS Container, FiniteSetTheorems, TLAPS

------------------------------------------------------------------------------
(* Objects and names.                                                      *)

IsObject(o) == DOMAIN o = {"reads", "low", "high", "tags", "label", "stock"}

\* Every object is a record, and its name is taken.
ObjectsInv ==
  /\ \A n \in DOMAIN objs : IsObject(objs[n])
  /\ DOMAIN objs \subseteq given

\* What the workbench made in this document carries its own tags.
MadeInv == \A n \in made : n \in DOMAIN objs /\ objs[n].tags = Tags(n, doc)

TagsInv == ObjectsInv /\ MadeInv

\* An object's own tags are not the absence of tags.
LEMMA TagsAreNone ==
  ASSUME NEW n \in Names, NEW d
  PROVE  Tags(n, d) # Untagged
BY IdAssumption DEF Tags, Untagged

\* A new name is no object's.
LEMMA NamesAreNew ==
  ASSUME ObjectsInv, NEW u, NEW names \in NewNames(objs, u)
  PROVE  /\ names \in [Missing(objs, u) -> FreeNames]
         /\ Range(names) \cap DOMAIN objs = {}
         /\ Range(names) \subseteq Names
<1>1. names \in [Missing(objs, u) -> FreeNames]
  BY DEF NewNames, Injection
<1>2. Range(names) \subseteq FreeNames
  BY <1>1 DEF Range
<1>3. QED
  BY <1>1, <1>2 DEF FreeNames, ObjectsInv

\* What is at each name once u is written.
LEMMA WrittenAt ==
  ASSUME ObjectsInv, NEW u, NEW names \in NewNames(objs, u), NEW d,
         NEW n \in DOMAIN Written(objs, u, names, d)
  PROVE  LET w == Written(objs, u, names, d)[n]
         IN  \/ n \in Matched(objs, u) /\ w = UpdatedBoard(objs, u, n, d)
             \/ n \in PlacedBacks(objs, u) /\ w = PlacedBack(objs, u, n)
             \/ n \in LeftAlone(objs, u) /\ w = objs[n]
             \/ \E i \in Missing(objs, u) :
                  n = names[i] /\ n \in Range(names) /\ w = CreatedBoard(objs, u, i, n, d)
<1>1. n \in Kept(objs, u) \/ n \in Range(names)
  BY DEF Written
<1>2. Kept(objs, u) \subseteq DOMAIN objs
  BY DEF Kept, Matched, PlacedBacks, LeftAlone
<1>3. Range(names) \cap DOMAIN objs = {} /\ names \in [Missing(objs, u) -> FreeNames]
  BY NamesAreNew
<1>4. CASE n \in Matched(objs, u)
  <2>1. n \notin PlacedBacks(objs, u) /\ n \notin LeftAlone(objs, u) /\ n \notin Range(names)
    BY <1>4, <1>3 DEF Matched, PlacedBacks, LeftAlone
  <2>2. Written(objs, u, names, d)[n] = UpdatedBoard(objs, u, n, d)
    BY <1>1, <1>4, <2>1 DEF Written
  <2>3. QED
    BY <1>4, <2>2
<1>5. CASE n \in PlacedBacks(objs, u)
  <2>1. n \notin Matched(objs, u) /\ n \notin LeftAlone(objs, u) /\ n \notin Range(names)
    BY <1>5, <1>3 DEF Matched, PlacedBacks, LeftAlone
  <2>2. Written(objs, u, names, d)[n] = PlacedBack(objs, u, n)
    BY <1>1, <1>5, <2>1 DEF Written
  <2>3. QED
    BY <1>5, <2>2
<1>6. CASE n \in LeftAlone(objs, u)
  <2>1. n \notin Matched(objs, u) /\ n \notin PlacedBacks(objs, u) /\ n \notin Range(names)
    BY <1>6, <1>3 DEF Matched, PlacedBacks, LeftAlone
  <2>2. Written(objs, u, names, d)[n] = objs[n]
    BY <1>1, <1>6, <2>1 DEF Written
  <2>3. QED
    BY <1>6, <2>2
<1>7. CASE n \in Range(names)
  <2>1. n \notin Matched(objs, u) /\ n \notin PlacedBacks(objs, u) /\ n \notin LeftAlone(objs, u)
    BY <1>7, <1>2, <1>3 DEF Kept
  <2>2. Written(objs, u, names, d)[n]
          = CreatedBoard(objs, u, CHOOSE i \in DOMAIN names : names[i] = n, n, d)
    BY <1>1, <1>7, <2>1 DEF Written
  <2>3. \E i \in DOMAIN names : names[i] = n
    BY <1>7 DEF Range
  <2>4. PICK i \in DOMAIN names : names[i] = n /\ i = (CHOOSE j \in DOMAIN names : names[j] = n)
    BY <2>3
  <2>5. i \in Missing(objs, u)
    BY <1>3
  <2>6. QED
    BY <1>7, <2>2, <2>4, <2>5
<1>8. QED
  BY <1>1, <1>4, <1>5, <1>6, <1>7 DEF Kept

\* A write leaves every object a record under a name that is taken, and tags
\* what it makes and adopts as this document's.
LEMMA WriteTags ==
  ASSUME TagsInv, NEW u, NEW names \in NewNames(objs, u), WriteContainer(u, names)
  PROVE  TagsInv'
<1> DEFINE w == Written(objs, u, names, doc)
<1>1. objs' = w /\ given' = Given(objs') /\ doc' = doc
      /\ made' = (made \cap DOMAIN objs') \cup Range(names)
                    \cup {n \in Matched(objs, u) : Adopts(objs, n, doc)}
  BY DEF WriteContainer
<1>2. DOMAIN w = Kept(objs, u) \cup Range(names)
  BY DEF Written
<1>3. ASSUME NEW n \in DOMAIN w PROVE IsObject(w[n])
  <2>1. ASSUME n \in DOMAIN objs PROVE IsObject(objs[n])
    BY <2>1 DEF TagsInv, ObjectsInv
  <2>2. CASE n \in Matched(objs, u) /\ w[n] = UpdatedBoard(objs, u, n, doc)
    BY <2>1, <2>2 DEF Matched, UpdatedBoard, IsObject
  <2>3. CASE n \in PlacedBacks(objs, u) /\ w[n] = PlacedBack(objs, u, n)
    BY <2>1, <2>3 DEF PlacedBacks, PlacedBack, IsObject
  <2>4. CASE n \in LeftAlone(objs, u) /\ w[n] = objs[n]
    BY <2>1, <2>4 DEF LeftAlone
  <2>5. ASSUME NEW i \in Missing(objs, u), w[n] = CreatedBoard(objs, u, i, n, doc)
        PROVE  IsObject(w[n])
    BY <2>5 DEF CreatedBoard, IsObject
  <2>6. QED
    BY <2>2, <2>3, <2>4, <2>5, WrittenAt DEF TagsInv
<1>4. DOMAIN w \subseteq given'
  BY <1>1 DEF Given
<1>5. ASSUME NEW n \in made' PROVE n \in DOMAIN w /\ w[n].tags = Tags(n, doc)
  <2>1. n \in DOMAIN w
    BY <1>1, <1>2, <1>5 DEF Kept
  <2>2. n \in made \/ n \in Range(names) \/ (n \in Matched(objs, u) /\ Adopts(objs, n, doc))
    BY <1>1, <1>5
  <2>3. n \in made => n \in DOMAIN objs /\ objs[n].tags = Tags(n, doc)
    BY DEF TagsInv, MadeInv
  <2>4. Range(names) \cap DOMAIN objs = {}
    BY NamesAreNew DEF TagsInv
  <2>5. n \in DOMAIN objs => IsObject(objs[n])
    BY DEF TagsInv, ObjectsInv
  <2>6. CASE n \in Matched(objs, u) /\ w[n] = UpdatedBoard(objs, u, n, doc)
    <3>1. n \in DOMAIN objs /\ n \notin Range(names)
      BY <2>4, <2>6 DEF Matched
    <3>2. w[n].tags = IF Adopts(objs, n, doc) THEN Tags(n, doc) ELSE objs[n].tags
      BY <2>5, <2>6, <3>1 DEF UpdatedBoard, IsObject
    <3>3. QED
      BY <2>1, <2>2, <2>3, <3>1, <3>2
  <2>7. CASE n \in PlacedBacks(objs, u) /\ w[n] = PlacedBack(objs, u, n)
    <3>1. n \in DOMAIN objs /\ n \notin Range(names) /\ n \notin Matched(objs, u)
      BY <2>4, <2>7 DEF PlacedBacks, Matched
    <3>2. w[n].tags = objs[n].tags
      BY <2>5, <2>7, <3>1 DEF PlacedBack, IsObject
    <3>3. QED
      BY <2>1, <2>2, <2>3, <3>1, <3>2
  <2>8. CASE n \in LeftAlone(objs, u) /\ w[n] = objs[n]
    <3>1. n \in DOMAIN objs /\ n \notin Range(names) /\ n \notin Matched(objs, u)
      BY <2>4, <2>8 DEF LeftAlone
    <3>2. QED
      BY <2>1, <2>2, <2>3, <2>8, <3>1
  <2>9. ASSUME NEW i \in Missing(objs, u), w[n] = CreatedBoard(objs, u, i, n, doc)
        PROVE  w[n].tags = Tags(n, doc)
    BY <2>9 DEF CreatedBoard
  <2>10. QED
    BY <2>1, <2>6, <2>7, <2>8, <2>9, WrittenAt DEF TagsInv
<1>6. QED
  BY <1>1, <1>2, <1>3, <1>4, <1>5 DEF TagsInv, ObjectsInv, MadeInv

\* Changes by hand tag nothing, and what is named is one object.
LEMMA HandTags ==
  ASSUME TagsInv, NEW os, Hand(os),
         \A n \in DOMAIN os : IsObject(os[n]),
         \A n \in DOMAIN os \cap DOMAIN objs : os[n].tags = objs[n].tags
  PROVE  TagsInv'
<1>1. objs' = os /\ given' = Given(os) /\ made' = made \cap DOMAIN os /\ doc' = doc
  BY DEF Hand
<1>2. DOMAIN os \subseteq Given(os)
  BY DEF Given, ObjectsInv, TagsInv
<1>3. QED
  BY <1>1, <1>2 DEF TagsInv, ObjectsInv, MadeInv

\* A hand that moves a part leaves its tags and its label.
LEMMA AtObject ==
  ASSUME NEW o, IsObject(o), NEW spot
  PROVE  /\ IsObject(At(o, spot))
         /\ At(o, spot).tags = o.tags
         /\ At(o, spot).label = o.label
BY SMTT(40) DEF At, IsObject

\* No action breaks TagsInv.
LEMMA TagsStep ==
  ASSUME TagsInv, [Next]_vars
  PROVE  TagsInv'
<1>1. CASE Create
  <2>1. PICK u : \E names \in NewNames(objs, u) : WriteContainer(u, names)
    BY <1>1 DEF Create
  <2>2. QED
    BY <2>1, WriteTags
<1>2. CASE Rescan
  <2>1. PICK u : \E names \in NewNames(objs, u) : WriteContainer(u, names)
    BY <1>2 DEF Rescan
  <2>2. QED
    BY <2>1, WriteTags
<1>3. ASSUME NEW name, NEW u, Apply(name, u) PROVE TagsInv'
  BY <1>3, WriteTags DEF Apply
<1>4. CASE Read \/ Close
  BY <1>4 DEF Read, Close, Closed, document, TagsInv, ObjectsInv, MadeInv
<1>5. ASSUME NEW ns, DeleteUntagged(ns) PROVE TagsInv'
  <2>1. objs' = [n \in DOMAIN objs \ ns |-> objs[n]] /\ made' = made \ ns /\ doc' = doc
        /\ given' = Given(objs')
    BY <1>5 DEF DeleteUntagged, Restrict
  <2>2. DOMAIN objs' \subseteq Given(objs')
    BY <2>1 DEF Given, TagsInv, ObjectsInv
  <2>3. QED
    BY <2>1, <2>2 DEF TagsInv, ObjectsInv, MadeInv
<1>6. ASSUME NEW n \in Names, NEW spot \in Spots, NEW stock \in HandStocks,
             HandAdd(n, spot, stock)
      PROVE  TagsInv'
  <2>1. n \notin DOMAIN objs
    BY <1>6 DEF HandAdd, FreeNames, TagsInv, ObjectsInv
  <2> DEFINE new == Object(spot.reads, spot.low, spot.high, stock)
             os == Over(objs, [x \in {n} |-> new])
  <2>2. IsObject(new)
    BY DEF Object, IsObject
  <2>3. /\ DOMAIN os = DOMAIN objs \cup {n} /\ os[n] = new
        /\ \A m \in DOMAIN objs : os[m] = objs[m]
    BY <2>1 DEF Over
  <2>4. Hand(os)
    BY <1>6 DEF HandAdd
  <2> HIDE DEF os, new
  <2>5. QED
    BY <2>1, <2>2, <2>3, <2>4, HandTags DEF TagsInv, ObjectsInv
<1>7. ASSUME NEW o \in DOMAIN objs, NEW n \in Names, NEW spot \in Spots, HandCopy(o, n, spot)
      PROVE  TagsInv'
  <2>1. n \notin DOMAIN objs
    BY <1>7 DEF HandCopy, FreeNames, TagsInv, ObjectsInv
  <2> DEFINE new == [At(objs[o], spot) EXCEPT !.label = "own"]
             os == Over(objs, [x \in {n} |-> new])
  <2>2. IsObject(new)
    <3>1. IsObject(objs[o])
      BY DEF TagsInv, ObjectsInv
    <3>2. IsObject(At(objs[o], spot))
      BY <3>1, AtObject
    <3>3. QED
      BY <3>2 DEF IsObject
  <2>3. /\ DOMAIN os = DOMAIN objs \cup {n} /\ os[n] = new
        /\ \A m \in DOMAIN objs : os[m] = objs[m]
    BY <2>1 DEF Over
  <2>4. Hand(os)
    BY <1>7 DEF HandCopy
  <2> HIDE DEF os, new
  <2>5. QED
    BY <2>1, <2>2, <2>3, <2>4, HandTags DEF TagsInv, ObjectsInv
<1>8. ASSUME NEW n \in DOMAIN objs, HandDelete(n) PROVE TagsInv'
  BY <1>8, HandTags DEF HandDelete, Restrict, TagsInv, ObjectsInv
<1>9. ASSUME NEW n \in DOMAIN objs, NEW o, IsObject(o), o.tags = objs[n].tags,
             Hand([objs EXCEPT ![n] = o])
      PROVE  TagsInv'
  BY <1>9, HandTags DEF TagsInv, ObjectsInv
<1>10. ASSUME NEW n \in DOMAIN objs, HandLabel(n) PROVE TagsInv'
  <2>1. Hand([objs EXCEPT ![n] = [objs[n] EXCEPT !.label = "own"]])
    BY <1>10 DEF HandLabel
  <2>2. IsObject([objs[n] EXCEPT !.label = "own"])
        /\ [objs[n] EXCEPT !.label = "own"].tags = objs[n].tags
    BY DEF IsObject, TagsInv, ObjectsInv
  <2>3. QED
    BY <2>1, <2>2, <1>9
<1>11. ASSUME NEW n \in DOMAIN objs, NEW spot \in Spots, HandMove(n, spot) PROVE TagsInv'
  <2>1. Hand([objs EXCEPT ![n] = At(objs[n], spot)])
    BY <1>11 DEF HandMove
  <2>2. IsObject(At(objs[n], spot)) /\ At(objs[n], spot).tags = objs[n].tags
    BY AtObject DEF TagsInv, ObjectsInv
  <2>3. QED
    BY <2>1, <2>2, <1>9
<1>12. ASSUME NEW d \in Docs, NEW f \in CopyNames(d), CopyUnit(d, f) PROVE TagsInv'
  <2>1. f \in [DOMAIN objs -> Range(f)]
    BY DEF CopyNames, Injection, Range
  <2>2. /\ DOMAIN objs' = Range(f) /\ made' = {} /\ given' = Given(objs')
        /\ \A n \in Range(f) : objs'[n] = objs[CHOOSE m \in DOMAIN f : f[m] = n]
    BY <1>12 DEF CopyUnit
  <2>3. \A n \in Range(f) : (CHOOSE m \in DOMAIN f : f[m] = n) \in DOMAIN objs
    BY <2>1 DEF Range
  <2>4. DOMAIN objs' \subseteq Given(objs')
    BY DEF Given
  <2>5. QED
    BY <2>2, <2>3, <2>4 DEF TagsInv, ObjectsInv, MadeInv
<1>13. CASE UNCHANGED vars
  BY <1>13 DEF vars, document, TagsInv, ObjectsInv, MadeInv
<1>14. QED
  BY <1>1, <1>2, <1>3, <1>4, <1>5, <1>6, <1>7, <1>8, <1>10, <1>11, <1>12, <1>13
     DEF Next, Split, DeleteBoard, SetRule

\* Nor does the document a session starts from.
LEMMA TagsInit ==
  ASSUME Init
  PROVE  TagsInv
<1>1. CASE objs = << >>
  BY <1>1 DEF Init, TagsInv, ObjectsInv, MadeInv
<1>2. CASE objs # << >>
  <2>1. PICK m \in Names, n \in Names, s \in HandStocks :
          objs = [x \in {m, n} |-> LET slot == IF x = m THEN 2 ELSE 4
                                  IN  Object("board", slot, slot, s)]
    BY <1>2, Zenon DEF Init
  <2>2. \A x \in DOMAIN objs : IsObject(objs[x])
    BY <2>1 DEF Object, IsObject
  <2>3. given = DOMAIN objs /\ made = {}
    BY DEF Init
  <2>4. QED
    BY <2>2, <2>3 DEF TagsInv, ObjectsInv, MadeInv
<1>3. QED
  BY <1>1, <1>2

\* TagsInv holds always: what the workbench made keeps its own tags until it is
\* deleted or copied with its container (container.py write_container).
THEOREM TagsKept == Spec => []TagsInv
BY TagsInit, TagsStep, PTL DEF Spec

\* A write leaves a board that carries its own tags with its label.
LEMMA WriteLabels ==
  ASSUME TagsInv, NEW u, NEW names \in NewNames(objs, u), WriteContainer(u, names),
         NEW n \in made \cap DOMAIN objs'
  PROVE  objs'[n].label = objs[n].label
<1> DEFINE w == Written(objs, u, names, doc)
<1>1. objs' = w
  BY DEF WriteContainer
<1>2. n \in DOMAIN objs /\ ~IsCopy(objs, n, doc) /\ IsObject(objs[n])
  BY DEF TagsInv, MadeInv, ObjectsInv, IsCopy
<1>3. Range(names) \cap DOMAIN objs = {}
  BY NamesAreNew DEF TagsInv
<1>4. CASE w[n] = UpdatedBoard(objs, u, n, doc)
  BY <1>1, <1>2, <1>4 DEF UpdatedBoard, IsObject
<1>5. CASE w[n] = PlacedBack(objs, u, n)
  BY <1>1, <1>2, <1>5 DEF PlacedBack, IsObject
<1>6. CASE w[n] = objs[n]
  BY <1>1, <1>6
<1>7. QED
  BY <1>1, <1>2, <1>3, <1>4, <1>5, <1>6, WrittenAt DEF TagsInv

\* Nothing but a write is recorded as one.
LEMMA OnlyWritesWrite ==
  ASSUME Next, step' \in Writes
  PROVE  \/ Create \/ Rescan
         \/ \E k \in Regions(unit.row), s \in Range(unit.row) : Split(k, s)
         \/ \E k \in 2 .. Len(unit.row) - 1 : DeleteBoard(k)
         \/ \E k \in Regions(unit.row), rule \in Rules : SetRule(k, rule)
<1>1. step' # "None"
  BY DEF Writes, Edits
<1>2. ~Read /\ ~Close
  BY <1>1 DEF Read, Close
<1>3. \A ns : ~DeleteUntagged(ns)
  BY <1>1 DEF DeleteUntagged
<1>4. \A os : ~Hand(os)
  BY <1>1 DEF Hand
<1>5. \A n, spot, stock : ~HandAdd(n, spot, stock)
  BY <1>4 DEF HandAdd
<1>6. \A o, n, spot : ~HandCopy(o, n, spot)
  BY <1>4 DEF HandCopy
<1>7. \A n : ~HandDelete(n) /\ ~HandLabel(n)
  BY <1>4 DEF HandDelete, HandLabel
<1>8. \A n, spot : ~HandMove(n, spot)
  BY <1>4 DEF HandMove
<1>9. \A d, f : ~CopyUnit(d, f)
  BY <1>1 DEF CopyUnit
<1>10. QED
  BY <1>2, <1>3, <1>5, <1>6, <1>7, <1>8, <1>9, Zenon DEF Next

\* What is recorded as a write is write_container.
LEMMA WritesWrite ==
  ASSUME Next, step' \in Writes
  PROVE  \E u : \E names \in NewNames(objs, u) : WriteContainer(u, names)
<1>1. Create => \E u : \E names \in NewNames(objs, u) : WriteContainer(u, names)
  BY DEF Create
<1>2. Rescan => \E u : \E names \in NewNames(objs, u) : WriteContainer(u, names)
  BY DEF Rescan
<1>3. \A name, u : Apply(name, u) => \E names \in NewNames(objs, u) : WriteContainer(u, names)
  BY DEF Apply
<1>4. QED
  BY <1>1, <1>2, <1>3, OnlyWritesWrite DEF Split, DeleteBoard, SetRule

\* LabelsSurvive, whatever is done by hand between two writes.
THEOREM LabelsKept == Spec => LabelsSurvive
<1>1. ASSUME TagsInv, [Next]_vars
      PROVE  [step' \in Writes =>
                \A n \in made \cap DOMAIN objs' : objs'[n].label = objs[n].label]_vars
  <2> USE <1>1
  <2>1. ASSUME NEW u, NEW names \in NewNames(objs, u), WriteContainer(u, names)
        PROVE  \A n \in made \cap DOMAIN objs' : objs'[n].label = objs[n].label
    BY <2>1, WriteLabels
  <2>2. ASSUME step' \in Writes, ~UNCHANGED vars
        PROVE  \E u : \E names \in NewNames(objs, u) : WriteContainer(u, names)
    BY <2>2, WritesWrite
  <2>3. QED
    BY <2>1, <2>2
<1>2. QED
  BY <1>1, TagsKept, PTL DEF Spec, LabelsSurvive

------------------------------------------------------------------------------
(* The session's unit and its list.                                        *)

IsUnit(u) ==
  /\ DOMAIN u = {"row", "rules", "backs", "from"}
  /\ u.row \in Seq(Range(u.row))
  /\ \A n \in DOMAIN u.backs : \A side \in {"low", "high"} :
        side \in DOMAIN u.backs[n] /\ DOMAIN u.backs[n][side] = {"follows", "offset"}

NamesInv == DOMAIN objs \subseteq Names /\ IsFiniteSet(DOMAIN objs)

\* What the panel lists is what the next write keeps though it is no board.
ListInv == open /\ ~stale => untagged = Unplaced(objs, unit)

IInv == TagsInv /\ NamesInv /\ IsUnit(unit) /\ ListInv

\* A document has finitely many objects, and a row finitely many boards.
LEMMA RangeIsFinite ==
  ASSUME NEW f, IsFiniteSet(DOMAIN f)
  PROVE  IsFiniteSet(Range(f))
<1>1. [x \in DOMAIN f |-> f[x]] \in Surjection(DOMAIN f, Range(f))
  BY DEF Surjection, Range
<1>2. QED
  BY <1>1, FS_Surjection

LEMMA RowIsFinite ==
  ASSUME NEW row, row \in Seq(Range(row))
  PROVE  IsFiniteSet(Range(row))
<1>1. DOMAIN row = 1 .. Len(row) /\ Len(row) \in Nat
  OBVIOUS
<1>2. IsFiniteSet(DOMAIN row)
  BY <1>1, FS_Interval
<1>3. QED
  BY <1>2, RangeIsFinite

\* The row a scan reads is a sequence.
LEMMA RowIsSeq ==
  ASSUME NEW os, IsFiniteSet(DOMAIN os)
  PROVE  Row(os) \in Seq(Range(Row(os)))
<1>1. IsFiniteSet(BoardsOf(os))
  BY FS_Subset DEF BoardsOf
<1>2. Cardinality(BoardsOf(os)) \in Nat
  BY <1>1, FS_CardinalityType
<1> DEFINE at(k) == CHOOSE b \in BoardsOf(os) : Cardinality(Below(os, b)) = k - 1
<1>3. Row(os) = [k \in 1 .. Cardinality(BoardsOf(os)) |-> at(k)]
  BY DEF Row
<1> HIDE DEF at
<1>4. QED
  BY <1>2, <1>3 DEF Range

\* A row is a sequence of its own elements, and joining two loses none.
LEMMA OwnElements ==
  ASSUME NEW T, NEW s \in Seq(T)
  PROVE  s \in Seq(Range(s))
<1>1. s = [j \in 1 .. Len(s) |-> s[j]] /\ DOMAIN s = 1 .. Len(s) /\ Len(s) \in Nat
  OBVIOUS
<1>2. \A j \in 1 .. Len(s) : s[j] \in Range(s)
  BY <1>1 DEF Range
<1>3. QED
  BY <1>1, <1>2

LEMMA JoinedRows ==
  ASSUME NEW T, NEW s \in Seq(T), NEW t \in Seq(T)
  PROVE  s \o t \in Seq(T) /\ Range(s \o t) = Range(s) \cup Range(t)
<1> DEFINE j == s \o t
<1>1. /\ j \in Seq(T) /\ Len(j) = Len(s) + Len(t)
      /\ \A k \in 1 .. Len(j) : j[k] = IF k <= Len(s) THEN s[k] ELSE t[k - Len(s)]
  OBVIOUS
<1> HIDE DEF j
<1>2. /\ DOMAIN s = 1 .. Len(s) /\ DOMAIN t = 1 .. Len(t) /\ DOMAIN j = 1 .. Len(j)
      /\ Len(s) \in Nat /\ Len(t) \in Nat
  BY <1>1
<1>3. ASSUME NEW k \in 1 .. Len(s) PROVE s[k] \in Range(j)
  <2>1. k \in DOMAIN j /\ j[k] = s[k]
    BY <1>1, <1>2
  <2>2. QED
    BY <2>1 DEF Range
<1>4. ASSUME NEW k \in 1 .. Len(t) PROVE t[k] \in Range(j)
  <2>1. Len(s) + k \in DOMAIN j /\ j[Len(s) + k] = t[k]
    BY <1>1, <1>2
  <2>2. QED
    BY <2>1 DEF Range
<1>5. ASSUME NEW k \in 1 .. Len(j) PROVE j[k] \in Range(s) \cup Range(t)
  <2>1. CASE k <= Len(s)
    BY <1>1, <1>2, <2>1 DEF Range
  <2>2. CASE k > Len(s)
    <3>1. k - Len(s) \in DOMAIN t /\ j[k] = t[k - Len(s)]
      BY <1>1, <1>2, <2>2
    <3>2. QED
      BY <3>1 DEF Range
  <2>3. QED
    BY <1>2, <2>1, <2>2
<1>6. Range(j) = Range(s) \cup Range(t)
  <2>1. Range(j) \subseteq Range(s) \cup Range(t)
    BY <1>2, <1>5 DEF Range
  <2>2. Range(s) \subseteq Range(j)
    BY <1>2, <1>3 DEF Range
  <2>3. Range(t) \subseteq Range(j)
    BY <1>2, <1>4 DEF Range
  <2>4. QED
    BY <2>1, <2>2, <2>3
<1>7. QED
  BY <1>1, <1>6 DEF j

\* A part of a row has the boards between its ends.
LEMMA PartsOfRow ==
  ASSUME NEW T, NEW s \in Seq(T), NEW m \in 1 .. Len(s) + 1, NEW n \in 0 .. Len(s)
  PROVE  SubSeq(s, m, n) \in Seq(T) /\ Range(SubSeq(s, m, n)) = {s[j] : j \in m .. n}
<1> DEFINE part == SubSeq(s, m, n)
<1>1. part \in Seq(T) /\ Len(part) = IF m <= n THEN n - m + 1 ELSE 0
  OBVIOUS
<1>2. \A k \in 1 .. Len(part) : part[k] = s[m + k - 1]
  OBVIOUS
<1> HIDE DEF part
<1>3. DOMAIN part = 1 .. Len(part)
  BY <1>1
<1>4. ASSUME NEW j \in m .. n PROVE s[j] \in Range(part)
  <2>1. j - m + 1 \in DOMAIN part /\ part[j - m + 1] = s[j]
    BY <1>1, <1>2, <1>3
  <2>2. QED
    BY <2>1 DEF Range
<1>5. ASSUME NEW k \in DOMAIN part PROVE part[k] \in {s[j] : j \in m .. n}
  <2>1. m + k - 1 \in m .. n /\ part[k] = s[m + k - 1]
    BY <1>1, <1>2, <1>3
  <2>2. QED
    BY <2>1
<1>6. Range(part) = {s[j] : j \in m .. n}
  BY <1>4, <1>5 DEF Range
<1>7. QED
  BY <1>1, <1>6 DEF part

\* A split puts one board into a row.
LEMMA InsertedRow ==
  ASSUME NEW row, row \in Seq(Range(row)), NEW k \in 1 .. Len(row) - 1, NEW id
  PROVE  LET in == InsertAt(row, k + 1, id)
         IN  in \in Seq(Range(in)) /\ Range(in) = Range(row) \cup {id}
<1> DEFINE in == InsertAt(row, k + 1, id)
           before == SubSeq(row, 1, k)
           after == SubSeq(row, k + 1, Len(row))
           new == <<id>>
           T == Range(row) \cup {id}
<1>1. row \in Seq(T) /\ Len(row) \in Nat /\ DOMAIN row = 1 .. Len(row)
  OBVIOUS
<1>2. in = (before \o new) \o after
  BY <1>1 DEF InsertAt
<1>3. new \in Seq(T) /\ Range(new) = {id}
  BY DEF Range
<1>4. before \in Seq(T) /\ Range(before) = {row[j] : j \in 1 .. k}
  BY <1>1, PartsOfRow
<1>5. after \in Seq(T) /\ Range(after) = {row[j] : j \in k + 1 .. Len(row)}
  BY <1>1, PartsOfRow
<1> HIDE DEF in, before, after, new, T
<1>6. before \o new \in Seq(T) /\ Range(before \o new) = Range(before) \cup Range(new)
  BY <1>3, <1>4, JoinedRows
<1> DEFINE start == before \o new
<1>7. in \in Seq(T) /\ Range(in) = Range(before) \cup Range(new) \cup Range(after)
  <2>1. start \in Seq(T) /\ in = start \o after /\ Range(start) = Range(before) \cup Range(new)
    BY <1>2, <1>6
  <2> HIDE DEF start
  <2>2. start \o after \in Seq(T) /\ Range(start \o after) = Range(start) \cup Range(after)
    BY <1>5, <2>1, JoinedRows
  <2>3. QED
    BY <2>1, <2>2
<1>8. Range(before) \cup Range(after) = Range(row)
  <2>1. 1 .. Len(row) = (1 .. k) \cup (k + 1 .. Len(row))
    BY <1>1
  <2>2. QED
    BY <1>1, <1>4, <1>5, <2>1 DEF Range
<1>9. QED
  BY <1>3, <1>7, <1>8, OwnElements DEF in

\* A deletion puts none into it.
LEMMA RemovedRow ==
  ASSUME NEW row, row \in Seq(Range(row)), NEW k \in 1 .. Len(row)
  PROVE  LET in == RemoveAt(row, k)
         IN  in \in Seq(Range(in)) /\ Range(in) \subseteq Range(row)
<1> DEFINE in == RemoveAt(row, k)
           before == SubSeq(row, 1, k - 1)
           after == SubSeq(row, k + 1, Len(row))
           T == Range(row)
<1>1. in = before \o after
  BY DEF RemoveAt
<1>2. before \in Seq(T)
  BY PartsOfRow
<1>3. after \in Seq(T)
  BY PartsOfRow
<1> HIDE DEF in, before, after
<1>4. in \in Seq(T)
  BY <1>1, <1>2, <1>3, JoinedRows
<1>5. Range(in) \subseteq T
  BY <1>4 DEF Range
<1>6. QED
  BY <1>4, <1>5, OwnElements DEF in

\* The session's unit is a unit, whatever reads or renames it.
LEMMA NoUnitIsUnit == IsUnit(NoUnit)
BY DEF IsUnit, NoUnit, Range

LEMMA ReadIsUnit ==
  ASSUME NEW os, IsFiniteSet(DOMAIN os), NEW rec
  PROVE  IsUnit(ReadUnit(os, rec))
<1>1. ReadUnit(os, rec).row = Row(os) /\ ReadUnit(os, rec).backs = ReadBacks(os, Row(os))
  BY DEF ReadUnit
<1>2. DOMAIN ReadUnit(os, rec) = {"row", "rules", "backs", "from"}
  BY DEF ReadUnit
<1>3. \A n \in DOMAIN ReadBacks(os, Row(os)) : \A side \in {"low", "high"} :
         /\ side \in DOMAIN ReadBacks(os, Row(os))[n]
         /\ DOMAIN ReadBacks(os, Row(os))[n][side] = {"follows", "offset"}
  BY DEF ReadBacks, BackEdge
<1>4. QED
  BY <1>1, <1>2, <1>3, RowIsSeq DEF IsUnit

LEMMA RenamedParts ==
  ASSUME NEW u, IsUnit(u), NEW names
  PROVE  /\ IsUnit(Renamed(u, names))
         /\ Renamed(u, names).row = [k \in DOMAIN u.row |-> Rename(names, u.row[k])]
         /\ DOMAIN Renamed(u, names).backs = DOMAIN u.backs
         /\ \A n \in DOMAIN u.backs : \A side \in {"low", "high"} :
               /\ Renamed(u, names).backs[n][side].follows
                    = Rename(names, u.backs[n][side].follows)
               /\ Renamed(u, names).backs[n][side].offset = u.backs[n][side].offset
<1> DEFINE r == Renamed(u, names)
<1>1. /\ DOMAIN r = {"row", "rules", "backs", "from"}
      /\ r.row = [k \in DOMAIN u.row |-> Rename(names, u.row[k])]
      /\ r.backs = [n \in DOMAIN u.backs |->
                      [low |-> RenamedEdge(u.backs[n].low, names),
                       high |-> RenamedEdge(u.backs[n].high, names)]]
  BY DEF Renamed, IsUnit
<1>2. r.row \in Seq(Range(r.row))
  BY <1>1 DEF IsUnit, Range
<1>3. \A e : DOMAIN e = {"follows", "offset"} =>
         /\ DOMAIN RenamedEdge(e, names) = DOMAIN e
         /\ RenamedEdge(e, names).follows = Rename(names, e.follows)
         /\ RenamedEdge(e, names).offset = e.offset
  BY DEF RenamedEdge
<1>4. \A n \in DOMAIN u.backs : \A side \in {"low", "high"} :
         r.backs[n][side] = RenamedEdge(u.backs[n][side], names)
         /\ side \in DOMAIN r.backs[n]
  BY <1>1
<1> HIDE DEF r
<1>5. ASSUME NEW n \in DOMAIN u.backs, NEW side \in {"low", "high"}
      PROVE  /\ DOMAIN r.backs[n][side] = {"follows", "offset"}
             /\ r.backs[n][side].follows = Rename(names, u.backs[n][side].follows)
             /\ r.backs[n][side].offset = u.backs[n][side].offset
  <2>1. DOMAIN u.backs[n][side] = {"follows", "offset"}
    BY DEF IsUnit
  <2>2. QED
    BY <1>3, <1>4, <2>1
<1>6. DOMAIN r.backs = DOMAIN u.backs
  BY <1>1
<1>7. IsUnit(r)
  BY <1>1, <1>2, <1>4, <1>5, <1>6, ZenonT(40) DEF IsUnit
<1>8. QED
  BY <1>1, <1>5, <1>6, <1>7 DEF r

\* A write renames a unit's new boards, and no other.
LEMMA RenamedRow ==
  ASSUME ObjectsInv, NEW u, IsUnit(u), NEW names \in NewNames(objs, u)
  PROVE  Range(Renamed(u, names).row) = Matched(objs, u) \cup Range(names)
<1> DEFINE row == Renamed(u, names).row
<1>0. row = [k \in DOMAIN u.row |-> Rename(names, u.row[k])]
  BY RenamedParts
<1> HIDE DEF row
<1>1. Range(row) = {Rename(names, i) : i \in Range(u.row)}
  BY <1>0 DEF Range
<1>2. names \in [Missing(objs, u) -> FreeNames]
  BY NamesAreNew
<1>3. \A i \in Matched(objs, u) : Rename(names, i) = i
  BY <1>2 DEF Matched, Missing, Rename
<1>4. \A i \in Missing(objs, u) : Rename(names, i) = names[i]
  BY <1>2 DEF Rename
<1>5. Range(names) = {names[i] : i \in Missing(objs, u)}
  BY <1>2 DEF Range
<1>6. Range(u.row) = Matched(objs, u) \cup Missing(objs, u)
  BY DEF Matched, Missing
<1>7. Range(row) = Matched(objs, u) \cup Range(names)
  BY <1>1, <1>3, <1>4, <1>5, <1>6
<1>8. QED
  BY <1>7 DEF row

\* A write takes its names from the document's.
LEMMA WriteNames ==
  ASSUME ObjectsInv, NamesInv, NEW u, u.row \in Seq(Range(u.row)),
         NEW names \in NewNames(objs, u), WriteContainer(u, names)
  PROVE  NamesInv'
<1>1. DOMAIN objs' = Kept(objs, u) \cup Range(names)
  BY DEF WriteContainer, Written
<1>2. Kept(objs, u) \subseteq DOMAIN objs
  BY DEF Kept, Matched, PlacedBacks, LeftAlone
<1>3. names \in [Missing(objs, u) -> FreeNames] /\ Range(names) \subseteq Names
  BY NamesAreNew
<1>4. IsFiniteSet(Missing(objs, u))
  BY RowIsFinite, FS_Subset DEF Missing
<1>5. IsFiniteSet(Range(names))
  BY <1>3, <1>4, RangeIsFinite
<1>6. IsFiniteSet(DOMAIN objs')
  BY <1>1, <1>2, <1>5, FS_Subset, FS_Union DEF NamesInv
<1>7. QED
  BY <1>1, <1>2, <1>3, <1>6 DEF NamesInv

\* An edit lists anew what its write keeps.
LEMMA ApplyLists ==
  ASSUME IInv, NEW name, NEW u, IsUnit(u), Apply(name, u)
  PROVE  IInv'
<1>1. PICK names \in NewNames(objs, u) : WriteContainer(u, names) /\ unit' = Renamed(u, names)
  BY DEF Apply
<1>2. TagsInv' /\ NamesInv'
  BY <1>1, WriteTags, WriteNames DEF IInv, TagsInv, IsUnit
<1>3. IsUnit(unit') /\ DOMAIN unit'.backs = DOMAIN u.backs
  BY <1>1, RenamedParts
<1>4. Range(unit'.row) = Matched(objs, u) \cup Range(names)
  BY <1>1, RenamedRow DEF IInv, TagsInv
<1>5. Range(names) \cap DOMAIN objs = {}
  BY NamesAreNew DEF IInv, TagsInv
<1>6. DOMAIN objs' = Kept(objs, u) \cup Range(names)
  BY <1>1 DEF WriteContainer, Written
<1>7. DOMAIN objs' \ Range(unit'.row) = LeftAlone(objs, u) \cup PlacedBacks(objs, u)
  BY <1>4, <1>5, <1>6 DEF Kept, Matched, PlacedBacks, LeftAlone
<1>8. \A n \in PlacedBacks(objs, u) : n \in DOMAIN unit'.backs
  BY <1>3 DEF PlacedBacks
<1>9. ASSUME NEW n \in LeftAlone(objs, u) PROVE ~HasTags(objs', n)
  <2>1. objs'[n] = Written(objs, u, names, doc)[n] /\ n \in DOMAIN objs'
    BY <1>1, <1>7 DEF WriteContainer
  <2>2. /\ n \notin Matched(objs, u) /\ n \notin PlacedBacks(objs, u)
        /\ n \notin Range(names) /\ ~HasTags(objs, n)
    BY <1>5, <1>9 DEF LeftAlone
  <2>3. n \in Kept(objs, u) \cup Range(names)
    BY <1>9 DEF Kept
  <2>4. Written(objs, u, names, doc)[n] = objs[n]
    BY <1>9, <2>2, <2>3 DEF Written
  <2>5. QED
    BY <2>1, <2>2, <2>4 DEF HasTags
<1>10. untagged' = LeftAlone(objs, u) \cup PlacedBacks(objs, u)
  BY DEF Apply
<1>11. untagged' = Unplaced(objs', unit')
  BY <1>7, <1>8, <1>9, <1>10 DEF Unplaced
<1>12. QED
  BY <1>2, <1>3, <1>11 DEF IInv, ListInv

\* The units an edit writes: what is new in the row has no object, and no
\* edit but a deletion takes a board out of it.
LEMMA SplitUnit ==
  ASSUME IsUnit(unit), NEW k \in Regions(unit.row), NEW s, Split(k, s)
  PROVE  \E u : /\ IsUnit(u) /\ u.backs = unit.backs /\ Apply("Edit", u)
                /\ Range(unit.row) \subseteq Range(u.row)
                /\ Range(u.row) \subseteq Range(unit.row) \cup NewIds
<1> DEFINE id == CHOOSE i \in NewIds : TRUE
           half == Half(unit.rules[k])
           u == [unit EXCEPT !.row = InsertAt(@, k + 1, id),
                             !.rules = InsertAt([@ EXCEPT ![k] = half], k, half),
                             !.from = Over(@, [i \in {id} |-> s])]
<1>1. Apply("Edit", u)
  BY DEF Split
<1>2. /\ DOMAIN u = {"row", "rules", "backs", "from"} /\ u.backs = unit.backs
      /\ u.row = InsertAt(unit.row, k + 1, id)
  BY DEF IsUnit
<1>3. id \in NewIds
  BY IdAssumption
<1> HIDE DEF id, u
<1>4. k \in 1 .. Len(unit.row) - 1 /\ unit.row \in Seq(Range(unit.row))
  BY DEF Regions, IsUnit
<1>5. /\ u.row \in Seq(Range(u.row)) /\ Range(unit.row) \subseteq Range(u.row)
      /\ Range(u.row) \subseteq Range(unit.row) \cup NewIds
  BY <1>2, <1>3, <1>4, InsertedRow
<1>6. IsUnit(u)
  BY <1>2, <1>5 DEF IsUnit
<1>7. QED
  BY <1>1, <1>2, <1>5, <1>6

\* The unit a deletion writes.
LEMMA DeletionUnit ==
  ASSUME IsUnit(unit), NEW k \in 2 .. Len(unit.row) - 1, DeleteBoard(k)
  PROVE  \E u : /\ IsUnit(u) /\ u.backs = unit.backs /\ Apply("Delete Boards", u)
                /\ Range(u.row) \subseteq Range(unit.row)
<1> DEFINE joined == Joined(unit.rules[k - 1], unit.rules[k])
           u == [unit EXCEPT !.row = RemoveAt(@, k),
                             !.rules = RemoveAt([@ EXCEPT ![k - 1] = joined], k),
                             !.from = Restrict(@, DOMAIN @ \ {unit.row[k]})]
<1>1. Apply("Delete Boards", u)
  BY DEF DeleteBoard
<1>2. /\ DOMAIN u = {"row", "rules", "backs", "from"} /\ u.backs = unit.backs
      /\ u.row = RemoveAt(unit.row, k)
  BY DEF IsUnit
<1> HIDE DEF u
<1>3. k \in 1 .. Len(unit.row) /\ unit.row \in Seq(Range(unit.row))
  BY DEF IsUnit
<1>4. u.row \in Seq(Range(u.row)) /\ Range(u.row) \subseteq Range(unit.row)
  BY <1>2, <1>3, RemovedRow
<1>5. IsUnit(u)
  BY <1>2, <1>4 DEF IsUnit
<1>6. QED
  BY <1>1, <1>2, <1>4, <1>5

\* The unit a change of rule writes.
LEMMA RuleUnit ==
  ASSUME IsUnit(unit), NEW k, NEW rule, SetRule(k, rule)
  PROVE  \E u : /\ IsUnit(u) /\ u.backs = unit.backs /\ Apply("Edit", u) /\ u.row = unit.row
<1> DEFINE u == [unit EXCEPT !.rules[k] = rule]
<1>1. Apply("Edit", u)
  BY DEF SetRule
<1>2. /\ DOMAIN u = {"row", "rules", "backs", "from"} /\ u.backs = unit.backs
      /\ u.row = unit.row
  BY DEF IsUnit
<1> HIDE DEF u
<1>3. IsUnit(u)
  BY <1>2 DEF IsUnit
<1>4. QED
  BY <1>1, <1>2, <1>3

\* An edit is a unit applied, of the session's backs, whose boards are the
\* session's and new ones; only a deletion drops one.
LEMMA EditsApply ==
  ASSUME IsUnit(unit), Next, step' \in Edits
  PROVE  \E name, u :
            /\ Apply(name, u) /\ IsUnit(u) /\ u.backs = unit.backs
            /\ Range(u.row) \subseteq Range(unit.row) \cup NewIds
            /\ step' # "Delete Boards" => Range(unit.row) \subseteq Range(u.row)
<1>1. step' \in Writes /\ step' # "Write"
  BY DEF Edits, Writes
<1>2. ~Create /\ ~Rescan
  BY <1>1 DEF Create, Rescan
<1>3. \A name, u : Apply(name, u) => step' = name
  BY DEF Apply
<1>4. CASE \E k \in Regions(unit.row), s \in Range(unit.row) : Split(k, s)
  BY <1>4, SplitUnit
<1>5. CASE \E k \in 2 .. Len(unit.row) - 1 : DeleteBoard(k)
  BY <1>3, <1>5, DeletionUnit
<1>6. CASE \E k \in Regions(unit.row), rule \in Rules : SetRule(k, rule)
  BY <1>6, RuleUnit
<1>7. QED
  BY <1>1, <1>2, <1>4, <1>5, <1>6, OnlyWritesWrite

\* IInv holds of a session that has not opened.
LEMMA ListInit ==
  ASSUME Init
  PROVE  IInv
<1>1. TagsInv
  BY TagsInit
<1>2. IsUnit(unit) /\ ListInv
  BY NoUnitIsUnit DEF Init, ListInv
<1>3. CASE objs = << >>
  BY <1>1, <1>2, <1>3, FS_EmptySet DEF IInv, NamesInv
<1>4. CASE objs # << >>
  <2>1. PICK m \in Names, n \in Names : DOMAIN objs = {m, n}
    BY <1>4 DEF Init
  <2>2. IsFiniteSet({m, n})
    <3>1. {m, n} = {m} \cup {n} /\ IsFiniteSet({m})
      BY FS_Singleton
    <3>2. QED
      BY <3>1, FS_AddElement
  <2>3. QED
    BY <1>1, <1>2, <2>1, <2>2 DEF IInv, NamesInv
<1>5. QED
  BY <1>3, <1>4

\* No action breaks IInv, one case each.
LEMMA ListStep ==
  ASSUME IInv, [Next]_vars
  PROVE  IInv'
<1> USE DEF IInv
<1>0. TagsInv'
  BY TagsStep
<1>1. CASE Create
  <2>1. PICK row \in [1 .. 2 -> NewIds] :
          LET new == [row |-> row, rules |-> <<Unlocked>>, backs |-> << >>, from |-> << >>]
          IN  \E names \in NewNames(objs, new) : WriteContainer(new, names)
    BY <1>1 DEF Create
  <2>2. row \in Seq(Range(row))
    <3>1. row = [k \in 1 .. 2 |-> row[k]] /\ \A k \in 1 .. 2 : row[k] \in Range(row)
      BY DEF Range
    <3>2. QED
      BY <3>1
  <2>3. NamesInv'
    BY <2>1, <2>2, WriteNames DEF TagsInv
  <2>4. QED
    BY <1>0, <1>1, <2>3 DEF Create, session, ListInv
<1>2. CASE Rescan
  <2>1. ReadUnit(objs, record).row \in Seq(Range(ReadUnit(objs, record).row))
    BY ReadIsUnit DEF NamesInv, IsUnit
  <2>2. NamesInv'
    BY <1>2, <2>1, WriteNames DEF Rescan, TagsInv
  <2>3. QED
    BY <1>0, <1>2, <2>2 DEF Rescan, session, ListInv
<1>3. ASSUME NEW k \in Regions(unit.row), NEW s \in Range(unit.row), Split(k, s) PROVE IInv'
  BY <1>3, SplitUnit, ApplyLists
<1>4. ASSUME NEW k \in 2 .. Len(unit.row) - 1, DeleteBoard(k) PROVE IInv'
  BY <1>4, DeletionUnit, ApplyLists
<1>5. ASSUME NEW k, NEW rule, SetRule(k, rule) PROVE IInv'
  BY <1>5, RuleUnit, ApplyLists
<1>6. CASE Read
  <2>1. NamesInv'
    BY <1>6 DEF Read, document, NamesInv
  <2>2. IsUnit(unit')
    BY <1>6, ReadIsUnit, NoUnitIsUnit DEF Read, NamesInv
  <2>3. ListInv'
    BY <1>6 DEF Read, document, ListInv
  <2>4. QED
    BY <1>0, <2>1, <2>2, <2>3
<1>7. CASE Close
  BY <1>0, <1>7, NoUnitIsUnit DEF Close, Closed, document, NamesInv, ListInv
<1>8. ASSUME NEW ns, DeleteUntagged(ns) PROVE IInv'
  <2>1. /\ objs' = [n \in DOMAIN objs \ ns |-> objs[n]] /\ untagged' = untagged \ ns
        /\ unit' = [unit EXCEPT !.backs = [n \in DOMAIN unit.backs \ ns |-> unit.backs[n]]]
        /\ open' = open /\ stale' = stale
    BY <1>8 DEF DeleteUntagged, Restrict, IsUnit
  <2>2. NamesInv'
    BY <2>1, FS_Subset DEF NamesInv
  <2>3. /\ unit'.row = unit.row /\ DOMAIN unit' = DOMAIN unit
        /\ unit'.backs = [n \in DOMAIN unit.backs \ ns |-> unit.backs[n]]
    BY <2>1 DEF IsUnit
  <2>4. IsUnit(unit')
    BY <2>3 DEF IsUnit
  <2>5. ListInv'
    BY <2>1, <2>3 DEF ListInv, Unplaced, HasTags
  <2>6. QED
    BY <1>0, <2>2, <2>4, <2>5
<1>9. ASSUME NEW os, Hand(os), DOMAIN os \subseteq Names, IsFiniteSet(DOMAIN os) PROVE IInv'
  BY <1>0, <1>9 DEF Hand, session, NamesInv, ListInv
<1>10. ASSUME NEW n \in Names, NEW spot \in Spots, NEW stock \in HandStocks,
              HandAdd(n, spot, stock)
       PROVE  IInv'
  <2> DEFINE new == Object(spot.reads, spot.low, spot.high, stock)
             os == Over(objs, [x \in {n} |-> new])
  <2>1. Hand(os) /\ DOMAIN os = DOMAIN objs \cup {n}
    BY <1>10 DEF HandAdd, Over
  <2> HIDE DEF os
  <2>2. QED
    BY <1>9, <2>1, FS_AddElement DEF NamesInv
<1>11. ASSUME NEW o \in DOMAIN objs, NEW n \in Names, NEW spot \in Spots, HandCopy(o, n, spot)
       PROVE  IInv'
  <2> DEFINE new == [At(objs[o], spot) EXCEPT !.label = "own"]
             os == Over(objs, [x \in {n} |-> new])
  <2>1. Hand(os) /\ DOMAIN os = DOMAIN objs \cup {n}
    BY <1>11 DEF HandCopy, Over
  <2> HIDE DEF os
  <2>2. QED
    BY <1>9, <2>1, FS_AddElement DEF NamesInv
<1>12. ASSUME NEW n \in DOMAIN objs, HandDelete(n) PROVE IInv'
  <2>1. DOMAIN Restrict(objs, DOMAIN objs \ {n}) = DOMAIN objs \ {n}
    BY DEF Restrict
  <2>2. QED
    BY <1>9, <1>12, <2>1, FS_Subset DEF HandDelete, NamesInv
<1>13. ASSUME NEW n \in DOMAIN objs, HandLabel(n) PROVE IInv'
  BY <1>9, <1>13 DEF HandLabel, NamesInv
<1>14. ASSUME NEW n \in DOMAIN objs, NEW spot \in Spots, HandMove(n, spot) PROVE IInv'
  BY <1>9, <1>14 DEF HandMove, NamesInv
<1>15. ASSUME NEW d \in Docs, NEW f \in CopyNames(d), CopyUnit(d, f) PROVE IInv'
  <2>1. DOMAIN f = DOMAIN objs /\ Range(f) \subseteq Names
    BY DEF CopyNames, Injection, Range, FreeNames, NamesInv
  <2>2. IsFiniteSet(Range(f))
    BY <2>1, RangeIsFinite DEF NamesInv
  <2>3. DOMAIN objs' = Range(f)
    BY <1>15 DEF CopyUnit
  <2>4. QED
    BY <1>0, <1>15, <2>1, <2>2, <2>3, NoUnitIsUnit DEF CopyUnit, Closed, NamesInv, ListInv
<1>16. CASE UNCHANGED vars
  BY <1>0, <1>16 DEF vars, document, session, NamesInv, ListInv
<1>17. QED
  BY <1>1, <1>2, <1>3, <1>4, <1>5, <1>6, <1>7, <1>8, <1>10, <1>11, <1>12, <1>13, <1>14,
     <1>15, <1>16 DEF Next

\* IInv holds always: while the session follows the document its list is what a
\* write would keep (session.py _apply, _read_unit).
THEOREM ListHolds == Spec => []IInv
BY ListInit, ListStep, PTL DEF Spec

\* ListIsKept: what the panel lists as not the workbench's is what the next
\* edit keeps, and all it keeps that was no board of the unit.
THEOREM ListKept == Spec => ListIsKept
<1>1. ASSUME IInv, [Next]_vars
      PROVE  [step' \in Edits /\ ~stale =>
                  (DOMAIN objs \ DOMAIN objs') \cap untagged = {}
               /\ (DOMAIN objs \ Range(unit.row)) \cap DOMAIN objs' \subseteq untagged]_vars
  <2> SUFFICES ASSUME Next, step' \in Edits, ~stale
               PROVE  /\ (DOMAIN objs \ DOMAIN objs') \cap untagged = {}
                      /\ (DOMAIN objs \ Range(unit.row)) \cap DOMAIN objs' \subseteq untagged
    BY <1>1
  <2> USE <1>1 DEF IInv
  <2>1. PICK name, u : /\ Apply(name, u) /\ IsUnit(u) /\ u.backs = unit.backs
                       /\ Range(u.row) \subseteq Range(unit.row) \cup NewIds
    BY EditsApply
  <2>2. PICK names \in NewNames(objs, u) : WriteContainer(u, names)
    BY <2>1 DEF Apply
  <2>3. DOMAIN objs' = Kept(objs, u) \cup Range(names) /\ Range(names) \cap DOMAIN objs = {}
    BY <2>2, NamesAreNew DEF WriteContainer, Written, TagsInv
  <2>4. untagged = Unplaced(objs, unit)
    BY <2>1 DEF Apply, ListInv
  <2>5. Matched(objs, u) \subseteq Range(unit.row)
    BY <2>1, IdAssumption DEF Matched, NamesInv
  <2>6. ASSUME NEW n \in untagged \cap DOMAIN objs PROVE n \in Kept(objs, u)
    BY <2>1, <2>4 DEF Unplaced, Kept, Matched, PlacedBacks, LeftAlone
  <2>7. ASSUME NEW n \in Kept(objs, u), n \notin Range(unit.row) PROVE n \in untagged
    BY <2>1, <2>4, <2>5, <2>7 DEF Unplaced, Kept, PlacedBacks, LeftAlone
  <2>8. QED
    BY <2>3, <2>6, <2>7
<1>2. QED
  BY <1>1, ListHolds, PTL DEF Spec, ListIsKept

\* BacksKeepTheirBoards: the write takes the boards a back follows along
\* when it names them.
THEOREM BacksKept == Spec => BacksKeepTheirBoards
<1>1. ASSUME IInv, [Next]_vars
      PROVE  [step' \in Edits \ {"Delete Boards"} =>
                \A n \in DOMAIN unit.backs : \A side \in {"low", "high"} :
                   unit.backs[n][side].follows \in Range(unit.row)
                      => unit'.backs[n][side].follows \in Range(unit'.row)]_vars
  <2> SUFFICES ASSUME Next, step' \in Edits \ {"Delete Boards"},
                      NEW n \in DOMAIN unit.backs, NEW side \in {"low", "high"},
                      unit.backs[n][side].follows \in Range(unit.row)
               PROVE  unit'.backs[n][side].follows \in Range(unit'.row)
    BY <1>1
  <2> USE <1>1 DEF IInv
  <2>1. PICK name, u : /\ Apply(name, u) /\ IsUnit(u) /\ u.backs = unit.backs
                       /\ Range(unit.row) \subseteq Range(u.row)
    BY EditsApply
  <2>2. PICK names \in NewNames(objs, u) : unit' = Renamed(u, names)
    BY <2>1 DEF Apply
  <2> DEFINE b == unit.backs[n][side].follows
             r == Renamed(u, names)
  <2>3. IsUnit(u)
    BY <2>1
  <2>4. /\ r.row = [j \in DOMAIN u.row |-> Rename(names, u.row[j])]
        /\ \A m \in DOMAIN u.backs : \A edge \in {"low", "high"} :
              r.backs[m][edge].follows = Rename(names, u.backs[m][edge].follows)
    BY ONLY <2>3, RenamedParts
  <2> HIDE DEF r
  <2>5. r.backs[n][side].follows = Rename(names, b)
    BY <2>1, <2>4
  <2>6. PICK k \in DOMAIN u.row : u.row[k] = b
    BY <2>1 DEF Range
  <2>7. Rename(names, b) \in Range(r.row)
    BY <2>4, <2>6 DEF Range
  <2>8. QED
    BY <2>2, <2>5, <2>7 DEF r
<1>2. QED
  BY <1>1, ListHolds, PTL DEF Spec, BacksKeepTheirBoards

------------------------------------------------------------------------------
(* An edit leaves a second write nothing to do, where a document never     *)
(* gives a name again.                                                     *)

\* The boards that backs follow were given their names before.
FollowInv ==
  \A n \in DOMAIN unit.backs : \A side \in {"low", "high"} :
     unit.backs[n][side].follows \in given \cup {None}

\* A board keeps its place in the row when it is given its name.
LEMMA RenamedSlots ==
  ASSUME ObjectsInv, NEW u, IsUnit(u), NEW names \in NewNames(objs, u),
         NEW i \in Range(u.row)
  PROVE  SlotOf(Renamed(u, names).row, Rename(names, i)) = SlotOf(u.row, i)
<1> DEFINE row == Renamed(u, names).row
<1>1. row = [k \in DOMAIN u.row |-> Rename(names, u.row[k])]
  BY RenamedParts
<1> HIDE DEF row
<1>2. names \in [Missing(objs, u) -> FreeNames] /\ Range(names) \cap DOMAIN objs = {}
  BY NamesAreNew
<1>3. \A a, b \in Missing(objs, u) : names[a] = names[b] => a = b
  BY <1>2 DEF NewNames, Injection, IsInjective
<1>4. \A a \in Range(u.row) :
         Rename(names, a) = IF a \in Missing(objs, u) THEN names[a] ELSE a
  BY <1>2 DEF Rename
<1>5. \A a \in Range(u.row) : a \in Missing(objs, u) \/ a \in DOMAIN objs
  BY DEF Missing
<1>6. \A a \in Missing(objs, u) : names[a] \notin DOMAIN objs
  BY <1>2 DEF Range
<1>7. \A a \in Range(u.row) : Rename(names, a) = Rename(names, i) <=> a = i
  BY <1>3, <1>4, <1>5, <1>6
<1>8. \A k \in DOMAIN u.row : u.row[k] \in Range(u.row)
  BY DEF Range
<1>9. DOMAIN row = DOMAIN u.row
      /\ \A k : (k \in DOMAIN row /\ row[k] = Rename(names, i)) <=> (k \in DOMAIN u.row /\ u.row[k] = i)
  BY <1>1, <1>7, <1>8
<1>10. (CHOOSE k \in DOMAIN row : row[k] = Rename(names, i)) = (CHOOSE k \in DOMAIN u.row : u.row[k] = i)
  BY <1>9, Zenon
<1>11. QED
  BY <1>10 DEF SlotOf, row

\* And a back the places of its edges.
LEMMA RenamedEdges ==
  ASSUME ObjectsInv, NEW u, IsUnit(u), NEW names \in NewNames(objs, u),
         NEW n \in DOMAIN u.backs, NEW side \in {"low", "high"},
         u.backs[n][side].follows \in given \cup {None}, NEW outer
  PROVE  EdgeAt(Renamed(u, names).backs[n][side], Renamed(u, names).row, outer)
           = EdgeAt(u.backs[n][side], u.row, outer)
<1> DEFINE r == Renamed(u, names)
           b == u.backs[n][side].follows
<1>1. r.backs[n][side].follows = Rename(names, b)
  BY RenamedParts, ZenonT(40)
<1>2. Range(r.row) = Matched(objs, u) \cup Range(names)
  BY RenamedRow
<1>3. r.row = [k \in DOMAIN u.row |-> Rename(names, u.row[k])]
  BY RenamedParts
<1>4. SlotOf(r.row, Rename(names, b)) = SlotOf(u.row, b) \/ b \notin Range(u.row)
  BY RenamedSlots
<1> HIDE DEF r
<1>5. CASE b \in Range(u.row)
  <2>1. Rename(names, b) \in Range(r.row)
    BY <1>3, <1>5 DEF Range
  <2>2. QED
    BY <1>1, <1>4, <1>5, <2>1 DEF EdgeAt, r
<1>6. CASE b \notin Range(u.row)
  <2>1. names \in [Missing(objs, u) -> FreeNames] /\ Range(names) \subseteq FreeNames
    BY NamesAreNew DEF Range
  <2>2. Rename(names, b) = b
    BY <1>6, <2>1 DEF Rename, Missing
  <2>3. b \notin Range(names)
    BY <2>1, IdAssumption DEF FreeNames
  <2>4. b \notin Range(r.row)
    BY <1>2, <1>6, <2>3 DEF Matched
  <2>5. QED
    BY <1>1, <1>6, <2>2, <2>4 DEF EdgeAt, r
<1>7. QED
  BY <1>5, <1>6

\* A board written where it stands, with its own tags, is left as it is.
LEMMA SameBoard ==
  ASSUME NEW os, NEW u, NEW n, NEW d, IsObject(os[n]),
         os[n] = [x \in DOMAIN os[n] |-> os[n][x]],
         os[n].reads = "board", os[n].low = SlotOf(u.row, n), os[n].high = SlotOf(u.row, n),
         os[n].tags = Tags(n, d), n \in Names
  PROVE  UpdatedBoard(os, u, n, d) = os[n]
<1>1. ~Adopts(os, n, d) /\ ~IsCopy(os, n, d)
  BY TagsAreNone DEF Adopts, IsCopy, HasTags
<1> DEFINE w == UpdatedBoard(os, u, n, d)
<1>2. w = [os[n] EXCEPT !.reads = os[n].reads, !.low = os[n].low, !.high = os[n].high,
                        !.tags = os[n].tags, !.label = os[n].label]
  BY <1>1 DEF UpdatedBoard
<1> HIDE DEF w
<1>3. w = [x \in DOMAIN os[n] |-> os[n][x]]
  BY <1>2
<1>4. QED
  BY <1>3 DEF w

\* A back placed where it lies is left as it is.
LEMMA SameBack ==
  ASSUME NEW os, NEW u, NEW n,
         os[n] = [x \in DOMAIN os[n] |-> os[n][x]],
         os[n].reads \in {"stray", "back"},
         os[n].low = BackLow(u, n), os[n].high = BackHigh(u, n)
  PROVE  PlacedBack(os, u, n) = os[n]
<1> DEFINE w == PlacedBack(os, u, n)
<1>1. w = [os[n] EXCEPT !.reads = os[n].reads, !.low = os[n].low, !.high = os[n].high]
  BY DEF PlacedBack
<1> HIDE DEF w
<1>2. w = [x \in DOMAIN os[n] |-> os[n][x]]
  BY <1>1
<1>3. QED
  BY <1>2 DEF w

\* What a write makes of the boards of its unit.
LEMMA WrittenBoards ==
  ASSUME ObjectsInv, NEW u, IsUnit(u), NEW names \in NewNames(objs, u), NEW d,
         NEW n \in Range(Renamed(u, names).row)
  PROVE  LET o == Written(objs, u, names, d)[n]
             slot == SlotOf(Renamed(u, names).row, n)
         IN  /\ IsObject(o) /\ o = [x \in DOMAIN o |-> o[x]]
             /\ o.reads = "board" /\ o.low = slot /\ o.high = slot /\ o.tags = Tags(n, d)
<1> DEFINE o == Written(objs, u, names, d)[n]
           slot == SlotOf(Renamed(u, names).row, n)
<1>1. names \in [Missing(objs, u) -> FreeNames] /\ Range(names) \cap DOMAIN objs = {}
  BY NamesAreNew
<1>2. n \in Matched(objs, u) \/ n \in Range(names)
  BY RenamedRow
<1>3. n \in DOMAIN Written(objs, u, names, d)
  BY <1>2 DEF Written, Kept
<1>4. CASE n \in Matched(objs, u)
  <2>1. n \notin PlacedBacks(objs, u) /\ n \notin LeftAlone(objs, u) /\ n \notin Range(names)
    BY <1>1, <1>4 DEF Matched, PlacedBacks, LeftAlone
  <2>2. o = UpdatedBoard(objs, u, n, d)
    BY <1>3, <1>4, <2>1, WrittenAt DEF Matched
  <2>3. Rename(names, n) = n /\ n \in Range(u.row)
    BY <1>1, <1>4 DEF Rename, Matched, Missing
  <2>4. slot = SlotOf(u.row, n)
    BY <2>3, RenamedSlots
  <2>5. IsObject(objs[n])
    BY <1>4 DEF Matched, ObjectsInv
  <2>6. ~Adopts(objs, n, d) => objs[n].tags = Tags(n, d)
    BY DEF Adopts, IsCopy
  <2> HIDE DEF o, slot
  <2>7. /\ IsObject(o) /\ o = [x \in DOMAIN o |-> o[x]]
        /\ o.reads = "board" /\ o.low = SlotOf(u.row, n) /\ o.high = SlotOf(u.row, n)
        /\ o.tags = IF Adopts(objs, n, d) THEN Tags(n, d) ELSE objs[n].tags
    BY <2>2, <2>5 DEF UpdatedBoard, IsObject
  <2>8. QED
    BY <2>4, <2>6, <2>7 DEF o, slot
<1>5. CASE n \in Range(names)
  <2>1. n \notin Kept(objs, u)
    BY <1>1, <1>5 DEF Kept, Matched, PlacedBacks, LeftAlone
  <2>2. PICK i \in Missing(objs, u) : n = names[i] /\ o = CreatedBoard(objs, u, i, n, d)
    BY <1>3, <2>1, WrittenAt DEF Kept
  <2>3. Rename(names, i) = n /\ i \in Range(u.row)
    BY <1>1, <2>2 DEF Rename, Missing
  <2>4. slot = SlotOf(u.row, i)
    BY <2>3, RenamedSlots
  <2> HIDE DEF o, slot
  <2>5. /\ IsObject(o) /\ o = [x \in DOMAIN o |-> o[x]]
        /\ o.reads = "board" /\ o.low = SlotOf(u.row, i) /\ o.high = SlotOf(u.row, i)
        /\ o.tags = Tags(n, d)
    BY <2>2 DEF CreatedBoard, IsObject
  <2>6. QED
    BY <2>4, <2>5 DEF o, slot
<1>6. QED
  BY <1>2, <1>4, <1>5

\* And of the backs.
LEMMA WrittenBacks ==
  ASSUME ObjectsInv, NEW u, IsUnit(u), NEW names \in NewNames(objs, u), NEW d,
         NEW n \in PlacedBacks(objs, u),
         \A side \in {"low", "high"} : u.backs[n][side].follows \in given \cup {None}
  PROVE  LET o == Written(objs, u, names, d)[n]
         IN  /\ o = [x \in DOMAIN o |-> o[x]] /\ o.reads \in {"stray", "back"}
             /\ o.low = BackLow(Renamed(u, names), n)
             /\ o.high = BackHigh(Renamed(u, names), n)
<1> DEFINE o == Written(objs, u, names, d)[n]
           r == Renamed(u, names)
<1>1. n \notin Matched(objs, u) /\ n \notin LeftAlone(objs, u) /\ n \notin Range(names)
  BY NamesAreNew DEF PlacedBacks, LeftAlone, Matched
<1>2. o = PlacedBack(objs, u, n)
  BY <1>1 DEF Written, Kept
<1>3. n \in DOMAIN u.backs /\ IsObject(objs[n])
  BY DEF PlacedBacks, ObjectsInv
<1>4. /\ r.backs[n].low.offset = u.backs[n].low.offset
      /\ r.backs[n].high.offset = u.backs[n].high.offset
      /\ r.row = [k \in DOMAIN u.row |-> Rename(names, u.row[k])]
  BY <1>3, RenamedParts
<1>5. \A outer : EdgeAt(r.backs[n].low, r.row, outer) = EdgeAt(u.backs[n].low, u.row, outer)
  BY <1>3, RenamedEdges
<1>6. \A outer : EdgeAt(r.backs[n].high, r.row, outer) = EdgeAt(u.backs[n].high, u.row, outer)
  BY <1>3, RenamedEdges
<1> HIDE DEF r, o
<1>7. Len(r.row) = Len(u.row)
  BY <1>4 DEF IsUnit
<1>8. BackLow(r, n) = BackLow(u, n) /\ BackHigh(r, n) = BackHigh(u, n)
  BY <1>4, <1>5, <1>6, <1>7 DEF BackLow, BackHigh
<1>9. /\ o = [x \in DOMAIN o |-> o[x]] /\ o.reads \in {"stray", "back"}
      /\ o.low = BackLow(u, n) /\ o.high = BackHigh(u, n)
  BY <1>2, <1>3 DEF PlacedBack, IsObject
<1>10. QED
  BY <1>8, <1>9 DEF r, o

\* A write gives each object it keeps or makes.
LEMMA WrittenIsFcn ==
  ASSUME NEW os, NEW u, NEW names, NEW d
  PROVE  LET w == Written(os, u, names, d)
         IN  w = [n \in DOMAIN w |-> w[n]] /\ DOMAIN w = Kept(os, u) \cup Range(names)
<1> DEFINE at(n) ==
        CASE n \in Matched(os, u) -> UpdatedBoard(os, u, n, d)
          [] n \in PlacedBacks(os, u) -> PlacedBack(os, u, n)
          [] n \in LeftAlone(os, u) -> os[n]
          [] n \in Range(names) ->
                CreatedBoard(os, u, CHOOSE i \in DOMAIN names : names[i] = n, n, d)
<1>1. Written(os, u, names, d) = [n \in Kept(os, u) \cup Range(names) |-> at(n)]
  BY DEF Written
<1> HIDE DEF at
<1>2. QED
  BY <1>1

Settled(os, v, d) ==
  /\ os = [n \in DOMAIN os |-> os[n]] /\ DOMAIN os \subseteq Names
  /\ Range(v.row) \subseteq DOMAIN os
  /\ \A n \in Range(v.row) :
        /\ IsObject(os[n]) /\ os[n] = [x \in DOMAIN os[n] |-> os[n][x]]
        /\ os[n].reads = "board" /\ os[n].low = SlotOf(v.row, n)
        /\ os[n].high = SlotOf(v.row, n) /\ os[n].tags = Tags(n, d)
  /\ \A n \in PlacedBacks(os, v) :
        /\ os[n] = [x \in DOMAIN os[n] |-> os[n][x]] /\ os[n].reads \in {"stray", "back"}
        /\ os[n].low = BackLow(v, n) /\ os[n].high = BackHigh(v, n)
  /\ \A n \in DOMAIN os \ (Range(v.row) \cup PlacedBacks(os, v)) : ~HasTags(os, n)

\* A unit that has settled is written to no effect.
LEMMA WrittenAgain ==
  ASSUME NEW os, NEW v, NEW d, Settled(os, v, d)
  PROVE  Missing(os, v) = {} /\ Written(os, v, << >>, d) = os
<1> DEFINE none == << >>
           w == Written(os, v, none, d)
<1>1. Missing(os, v) = {} /\ Matched(os, v) = Range(v.row)
  BY DEF Settled, Missing, Matched
<1>2. \A n \in DOMAIN os \ (Range(v.row) \cup PlacedBacks(os, v)) : n \in LeftAlone(os, v)
  BY <1>1 DEF Settled, LeftAlone
<1>3. Kept(os, v) = DOMAIN os
  <2>1. Kept(os, v) \subseteq DOMAIN os
    BY DEF Kept, Matched, PlacedBacks, LeftAlone
  <2>2. DOMAIN os \subseteq Kept(os, v)
    BY <1>1, <1>2 DEF Kept
  <2>3. QED
    BY <2>1, <2>2
<1>4. Range(none) = {}
  BY DEF Range
<1> HIDE DEF none
<1>5. w = [n \in DOMAIN os |-> w[n]]
  <2>0. w = [n \in DOMAIN w |-> w[n]]
    BY WrittenIsFcn
  <2>1. DOMAIN w = Kept(os, v) \cup Range(none)
    BY DEF Written
  <2> HIDE DEF w
  <2>2. DOMAIN w = DOMAIN os
    BY <2>1, <1>3, <1>4
  <2>3. QED
    BY <2>0, <2>2
<1>6. ASSUME NEW n \in DOMAIN os PROVE w[n] = os[n]
  <2>1. n \notin Range(none) /\ n \in Kept(os, v) \cup Range(none)
    BY <1>3, <1>4
  <2>2. CASE n \in Range(v.row)
    <3>0. /\ IsObject(os[n]) /\ os[n] = [x \in DOMAIN os[n] |-> os[n][x]]
          /\ os[n].reads = "board" /\ os[n].low = SlotOf(v.row, n)
          /\ os[n].high = SlotOf(v.row, n) /\ os[n].tags = Tags(n, d) /\ n \in Names
      BY <2>2 DEF Settled
    <3>1. UpdatedBoard(os, v, n, d) = os[n]
      BY ONLY <3>0, SameBoard
    <3>2. n \in Matched(os, v) /\ n \notin PlacedBacks(os, v) /\ n \notin LeftAlone(os, v)
      BY <1>1, <2>2 DEF PlacedBacks, LeftAlone
    <3>3. w[n] = UpdatedBoard(os, v, n, d)
      BY <2>1, <3>2 DEF Written
    <3>4. QED
      BY <3>1, <3>3
  <2>3. CASE n \in PlacedBacks(os, v)
    <3>0. /\ os[n] = [x \in DOMAIN os[n] |-> os[n][x]] /\ os[n].reads \in {"stray", "back"}
          /\ os[n].low = BackLow(v, n) /\ os[n].high = BackHigh(v, n)
      BY <2>3 DEF Settled
    <3>1. PlacedBack(os, v, n) = os[n]
      BY ONLY <3>0, SameBack
    <3>2. n \notin Matched(os, v) /\ n \notin LeftAlone(os, v)
      BY <2>3 DEF Matched, PlacedBacks, LeftAlone
    <3>3. w[n] = PlacedBack(os, v, n)
      BY <2>1, <2>3, <3>2 DEF Written
    <3>4. QED
      BY <3>1, <3>3
  <2>4. CASE n \notin Range(v.row) /\ n \notin PlacedBacks(os, v)
    <3>1. n \in LeftAlone(os, v) /\ n \notin Matched(os, v)
      BY <1>1, <1>2, <2>4
    <3>2. QED
      BY <2>1, <2>4, <3>1 DEF Written
  <2>5. QED
    BY <2>2, <2>3, <2>4
<1> HIDE DEF w
<1>7. w = os
  BY <1>5, <1>6 DEF Settled
<1>8. QED
  BY <1>1, <1>7 DEF w, none

\* After an edit the unit has settled, and the record is its own.
LEMMA EditSettles ==
  ASSUME IInv, FollowInv, NEW name, NEW u, IsUnit(u), u.backs = unit.backs, Apply(name, u)
  PROVE  Settled(objs', unit', doc') /\ record' = RecordOf(unit')
<1> USE DEF IInv, TagsInv
<1>1. PICK names \in NewNames(objs, u) : WriteContainer(u, names) /\ unit' = Renamed(u, names)
  BY DEF Apply
<1> DEFINE os == Written(objs, u, names, doc)
           v == Renamed(u, names)
<1>2. objs' = os /\ unit' = v /\ doc' = doc /\ record' = RecordOf(v)
  BY <1>1 DEF WriteContainer
<1>3. DOMAIN os \subseteq Names
  BY <1>1, <1>2, WriteNames DEF IsUnit, NamesInv
<1>4. Range(v.row) = Matched(objs, u) \cup Range(names)
  BY RenamedRow
<1>5. DOMAIN os = Kept(objs, u) \cup Range(names) /\ Range(names) \cap DOMAIN objs = {}
  BY NamesAreNew DEF Written
<1>6. Range(v.row) \subseteq DOMAIN os
  BY <1>4, <1>5 DEF Kept
<1>7. DOMAIN v.backs = DOMAIN u.backs
  BY RenamedParts
<1>8. PlacedBacks(os, v) = PlacedBacks(objs, u)
  BY <1>4, <1>5, <1>7 DEF PlacedBacks, Kept, Matched, LeftAlone
<1>9. os = [n \in DOMAIN os |-> os[n]]
  BY WrittenIsFcn
<1>10. ASSUME NEW n \in Range(v.row)
       PROVE  /\ IsObject(os[n]) /\ os[n] = [x \in DOMAIN os[n] |-> os[n][x]]
              /\ os[n].reads = "board" /\ os[n].low = SlotOf(v.row, n)
              /\ os[n].high = SlotOf(v.row, n) /\ os[n].tags = Tags(n, doc)
  BY WrittenBoards
<1>11. ASSUME NEW n \in PlacedBacks(os, v)
       PROVE  /\ os[n] = [x \in DOMAIN os[n] |-> os[n][x]] /\ os[n].reads \in {"stray", "back"}
              /\ os[n].low = BackLow(v, n) /\ os[n].high = BackHigh(v, n)
  <2>1. n \in PlacedBacks(objs, u)
    BY <1>8
  <2>2. \A side \in {"low", "high"} : u.backs[n][side].follows \in given \cup {None}
    BY <2>1 DEF FollowInv, PlacedBacks
  <2>3. QED
    BY <2>1, <2>2, WrittenBacks
<1>12. ASSUME NEW n \in DOMAIN os \ (Range(v.row) \cup PlacedBacks(os, v))
       PROVE  ~HasTags(os, n)
  <2>1. /\ n \in LeftAlone(objs, u) /\ n \notin Matched(objs, u) /\ n \notin Range(names)
        /\ n \notin PlacedBacks(objs, u)
    BY <1>4, <1>5, <1>8 DEF Kept
  <2>2. n \in Kept(objs, u) \cup Range(names)
    BY <1>5
  <2>3. os[n] = objs[n]
    BY <2>1, <2>2 DEF Written
  <2>4. QED
    BY <2>1, <2>3 DEF LeftAlone, HasTags
<1> HIDE DEF os, v
<1>13. Settled(os, v, doc)
  BY <1>3, <1>6, <1>9, <1>10, <1>11, <1>12 DEF Settled
<1>14. QED
  BY <1>2, <1>13

\* So a second write has nothing to do.
LEMMA EditIsQuiet ==
  ASSUME IInv, FollowInv, NEW name, NEW u, IsUnit(u), u.backs = unit.backs, Apply(name, u)
  PROVE  /\ Missing(objs', unit') = {}
         /\ Written(objs', unit', << >>, doc') = objs'
         /\ record' = RecordOf(unit')
<1>1. Settled(objs', unit', doc') /\ record' = RecordOf(unit')
  BY EditSettles
<1>2. QED
  BY <1>1, WrittenAgain

\* A name given to an object is not given again.
LEMMA GivenGrows ==
  ASSUME ~NamesReturn, [Next]_vars
  PROVE  given \subseteq given'
<1>1. \A os : given \subseteq Given(os)
  BY DEF Given
<1>2. CASE Create \/ Rescan
  BY <1>1, <1>2 DEF Create, Rescan, WriteContainer
<1>3. \A name, u : Apply(name, u) => given \subseteq given'
  BY <1>1 DEF Apply, WriteContainer
<1>4. \A k, s, rule : Split(k, s) \/ DeleteBoard(k) \/ SetRule(k, rule) => given \subseteq given'
  BY <1>3 DEF Split, DeleteBoard, SetRule
<1>5. CASE Read \/ Close \/ UNCHANGED vars
  BY <1>5 DEF Read, Close, document, vars
<1>6. \A ns : DeleteUntagged(ns) => given \subseteq given'
  BY <1>1 DEF DeleteUntagged
<1>7. \A os : Hand(os) => given \subseteq given'
  BY <1>1 DEF Hand
<1>8. \A n, o, spot, stock :
         HandAdd(n, spot, stock) \/ HandCopy(o, n, spot) \/ HandDelete(n) \/ HandLabel(n)
            \/ HandMove(n, spot) => given \subseteq given'
  BY <1>7 DEF HandAdd, HandCopy, HandDelete, HandLabel, HandMove
<1>9. \A d, f : CopyUnit(d, f) => given \subseteq given'
  BY <1>1 DEF CopyUnit
<1>10. QED
  BY <1>2, <1>4, <1>5, <1>6, <1>8, <1>9, Zenon DEF Next

\* An edit names the boards that backs follow.
LEMMA ApplyFollows ==
  ASSUME ~NamesReturn, IInv, FollowInv, NEW name, NEW u, IsUnit(u), u.backs = unit.backs,
         Apply(name, u)
  PROVE  FollowInv'
<1>0. IsUnit(u)
  OBVIOUS
<1>1. PICK names \in NewNames(objs, u) : WriteContainer(u, names) /\ unit' = Renamed(u, names)
  BY DEF Apply
<1>2. given \subseteq given' /\ Range(names) \subseteq given'
  BY <1>1 DEF WriteContainer, Given, Written
<1>3. \A b \in given \cup {None} : Rename(names, b) \in given' \cup {None}
  BY <1>2 DEF Rename, Range
<1> DEFINE v == Renamed(u, names)
<1>4. /\ DOMAIN v.backs = DOMAIN u.backs
      /\ \A n \in DOMAIN u.backs : \A side \in {"low", "high"} :
            v.backs[n][side].follows = Rename(names, u.backs[n][side].follows)
  BY ONLY <1>0, RenamedParts, ZenonT(40)
<1> HIDE DEF v
<1>5. \A n \in DOMAIN v.backs : \A side \in {"low", "high"} :
         v.backs[n][side].follows \in given' \cup {None}
  BY <1>3, <1>4 DEF FollowInv
<1>6. unit' = v
  BY <1>1 DEF v
<1>7. QED
  BY <1>5, <1>6 DEF FollowInv

\* No action breaks FollowInv, one case each.
LEMMA FollowStep ==
  ASSUME ~NamesReturn, IInv, FollowInv, [Next]_vars
  PROVE  FollowInv'
<1>1. given \subseteq given'
  BY GivenGrows
<1>2. CASE unit' = unit
  BY <1>1, <1>2 DEF FollowInv
<1>3. CASE unit' = NoUnit
  BY <1>3 DEF NoUnit, FollowInv
<1>4. CASE Read
  <2>1. CASE unit' = ReadUnit(objs, record)
    <3> DEFINE backs == ReadBacks(objs, Row(objs))
    <3>1. \A n \in DOMAIN backs : \A side \in {"low", "high"} :
             backs[n][side].follows \in {None} \cup BoardsOf(objs)
      BY DEF ReadBacks, BackEdge
    <3>2. BoardsOf(objs) \subseteq given
      BY DEF BoardsOf, IInv, TagsInv, ObjectsInv
    <3>3. unit'.backs = backs
      BY <2>1 DEF ReadUnit
    <3> HIDE DEF backs
    <3>4. QED
      BY <1>1, <3>1, <3>2, <3>3 DEF FollowInv
  <2>2. QED
    BY <1>3, <1>4, <2>1 DEF Read
<1>5. ASSUME NEW k \in Regions(unit.row), NEW s \in Range(unit.row), Split(k, s) PROVE FollowInv'
  BY <1>5, SplitUnit, ApplyFollows DEF IInv
<1>6. ASSUME NEW k \in 2 .. Len(unit.row) - 1, DeleteBoard(k) PROVE FollowInv'
  BY <1>6, DeletionUnit, ApplyFollows DEF IInv
<1>7. ASSUME NEW k, NEW rule, SetRule(k, rule) PROVE FollowInv'
  BY <1>7, RuleUnit, ApplyFollows DEF IInv
<1>8. ASSUME NEW ns, DeleteUntagged(ns) PROVE FollowInv'
  <2>1. unit'.backs = [n \in DOMAIN unit.backs \ ns |-> unit.backs[n]]
    BY <1>8 DEF DeleteUntagged, Restrict, IInv, IsUnit
  <2>2. QED
    BY <1>1, <2>1 DEF FollowInv
<1>9. CASE Create \/ Rescan \/ UNCHANGED vars
  BY <1>2, <1>9 DEF Create, Rescan, session, vars
<1>10. \A os : Hand(os) => unit' = unit
  BY DEF Hand, session
<1>11. \A n, o, spot, stock :
         HandAdd(n, spot, stock) \/ HandCopy(o, n, spot) \/ HandDelete(n) \/ HandLabel(n)
            \/ HandMove(n, spot) => unit' = unit
  BY <1>10 DEF HandAdd, HandCopy, HandDelete, HandLabel, HandMove
<1>12. Close \/ (\E d, f : CopyUnit(d, f)) => unit' = NoUnit
  BY DEF Close, CopyUnit, Closed
<1>13. QED
  BY <1>2, <1>3, <1>4, <1>5, <1>6, <1>7, <1>8, <1>9, <1>11, <1>12, Zenon DEF Next

QuietInv == IInv /\ FollowInv /\ SecondWriteIsQuiet

\* SecondWriteIsQuiet, in a document that gives no name twice.
THEOREM EditsAreQuiet ==
  ASSUME ~NamesReturn
  PROVE  Spec => []SecondWriteIsQuiet
<1>1. ASSUME Init PROVE QuietInv
  <2>1. unit = NoUnit /\ step = "None"
    BY <1>1 DEF Init
  <2>2. QED
    BY <1>1, <2>1, ListInit DEF QuietInv, FollowInv, NoUnit, SecondWriteIsQuiet, Edits
<1>2. ASSUME QuietInv, [Next]_vars PROVE QuietInv'
  <2>1. IInv' /\ FollowInv'
    BY <1>2, ListStep, FollowStep DEF QuietInv
  <2>2. CASE UNCHANGED vars
    <3>1. step' = step /\ objs' = objs /\ unit' = unit /\ doc' = doc /\ record' = record
      BY <2>2 DEF vars, document, session
    <3>2. QED
      BY <1>2, <2>1, <3>1 DEF QuietInv, SecondWriteIsQuiet
  <2>3. CASE Next /\ step' \in Edits
    <3>1. PICK name, u : Apply(name, u) /\ IsUnit(u) /\ u.backs = unit.backs
      BY <1>2, <2>3, EditsApply DEF QuietInv, IInv
    <3>2. QED
      BY <1>2, <2>1, <3>1, EditIsQuiet DEF QuietInv, SecondWriteIsQuiet
  <2>4. CASE step' \notin Edits
    BY <2>1, <2>4 DEF QuietInv, SecondWriteIsQuiet
  <2>5. QED
    BY <1>2, <2>2, <2>3, <2>4
<1>3. QED
  BY <1>1, <1>2, PTL DEF Spec, QuietInv

------------------------------------------------------------------------------
(* The row a scan reads: the boards of a container, each once, from low to *)
(* high.                                                                   *)

LowsAreNumbers(os) == \A n \in BoardsOf(os) : os[n].low \in Int

\* A row that names the boards of os from low to high, each once.
SortedRow(os, row) ==
  /\ row \in Seq(BoardsOf(os)) /\ BoardsOf(os) \subseteq Range(row)
  /\ \A j, k \in DOMAIN row : j < k => os[row[j]].low < os[row[k]].low

\* Such a row names no board twice.
LEMMA SortedIsInjective ==
  ASSUME NEW os, LowsAreNumbers(os), NEW row, SortedRow(os, row)
  PROVE  IsInjective(row) /\ Range(row) = BoardsOf(os) /\ DOMAIN row = 1 .. Len(row)
<1>1. /\ DOMAIN row = 1 .. Len(row) /\ Len(row) \in Nat
      /\ \A k \in DOMAIN row : row[k] \in BoardsOf(os)
  BY DEF SortedRow
<1>2. Range(row) = BoardsOf(os)
  BY <1>1 DEF SortedRow, Range
<1>3. ASSUME NEW j \in DOMAIN row, NEW k \in DOMAIN row, row[j] = row[k] PROVE j = k
  <2>1. os[row[j]].low \in Int /\ os[row[j]].low = os[row[k]].low
    BY <1>1, <1>3 DEF LowsAreNumbers
  <2>2. ~(j < k) /\ ~(k < j)
    BY <2>1 DEF SortedRow
  <2>3. QED
    BY <1>1, <2>2
<1>4. QED
  BY <1>1, <1>2, <1>3 DEF IsInjective

\* The boards below the k'th of a sorted row are the k - 1 before it.
LEMMA BelowInRow ==
  ASSUME NEW os, LowsAreNumbers(os), NEW row, SortedRow(os, row), NEW k \in DOMAIN row
  PROVE  Cardinality(Below(os, row[k])) = k - 1
<1>1. /\ IsInjective(row) /\ Range(row) = BoardsOf(os)
      /\ DOMAIN row = 1 .. Len(row) /\ Len(row) \in Nat
  BY SortedIsInjective DEF SortedRow
<1> DEFINE before == [j \in 1 .. k - 1 |-> row[j]]
<1>2. ASSUME NEW j \in DOMAIN row PROVE os[row[j]].low < os[row[k]].low <=> j < k
  <2>1. os[row[j]].low \in Int /\ os[row[k]].low \in Int
    BY <1>1 DEF LowsAreNumbers, Range
  <2>2. k < j => os[row[k]].low < os[row[j]].low
    BY DEF SortedRow
  <2>3. j < k => os[row[j]].low < os[row[k]].low
    BY DEF SortedRow
  <2>4. j < k \/ j = k \/ k < j
    BY <1>1
  <2>5. QED
    BY <2>1, <2>2, <2>3, <2>4
<1>3. Below(os, row[k]) = {row[j] : j \in 1 .. k - 1}
  <2>1. Below(os, row[k]) = {c \in Range(row) : os[c].low < os[row[k]].low}
    BY <1>1 DEF Below
  <2>2. \A j \in 1 .. k - 1 : j \in DOMAIN row /\ j < k
    BY <1>1
  <2>3. \A j \in DOMAIN row : j < k => j \in 1 .. k - 1
    BY <1>1
  <2>4. QED
    BY <1>2, <2>1, <2>2, <2>3 DEF Range
<1>4. before \in Bijection(1 .. k - 1, Below(os, row[k]))
  <2>1. before \in [1 .. k - 1 -> Below(os, row[k])]
    BY <1>3
  <2>2. IsInjective(before)
    BY <1>1 DEF IsInjective
  <2>3. before \in Surjection(1 .. k - 1, Below(os, row[k]))
    BY <1>3, <2>1 DEF Surjection
  <2>4. QED
    BY <2>1, <2>2, <2>3 DEF Bijection, Injection
<1>5. IsFiniteSet(1 .. k - 1) /\ Cardinality(1 .. k - 1) = k - 1
  <2>1. k \in Nat \ {0} /\ 1 \in Int /\ k - 1 \in Int
    BY <1>1
  <2>2. /\ IsFiniteSet(1 .. k - 1)
        /\ Cardinality(1 .. k - 1) = IF 1 > k - 1 THEN 0 ELSE (k - 1) - 1 + 1
    BY <2>1, FS_Interval
  <2>3. QED
    BY <2>1, <2>2
<1> HIDE DEF before
<1>6. QED
  BY <1>4, <1>5, FS_Bijection DEF ExistsBijection

\* So what a scan reads of boards that stand in a row is that row.
LEMMA RowOfSorted ==
  ASSUME NEW os, LowsAreNumbers(os), NEW row, SortedRow(os, row)
  PROVE  Row(os) = row
<1>1. /\ IsInjective(row) /\ Range(row) = BoardsOf(os)
      /\ DOMAIN row = 1 .. Len(row) /\ Len(row) \in Nat
      /\ row = [k \in DOMAIN row |-> row[k]]
  BY SortedIsInjective DEF SortedRow
<1>2. row \in Bijection(1 .. Len(row), BoardsOf(os))
  <2>1. row \in [1 .. Len(row) -> BoardsOf(os)]
    BY <1>1 DEF SortedRow
  <2>2. row \in Surjection(1 .. Len(row), BoardsOf(os))
    BY <1>1, <2>1 DEF Surjection, Range
  <2>3. QED
    BY <1>1, <2>1, <2>2 DEF Bijection, Injection
<1>3. Cardinality(BoardsOf(os)) = Len(row)
  <2>1. IsFiniteSet(1 .. Len(row)) /\ Cardinality(1 .. Len(row)) = Len(row)
    BY <1>1, FS_Interval
  <2>2. QED
    BY <1>2, <2>1, FS_Bijection DEF ExistsBijection
<1> DEFINE at(k) == CHOOSE b \in BoardsOf(os) : Cardinality(Below(os, b)) = k - 1
<1>4. ASSUME NEW k \in 1 .. Len(row) PROVE at(k) = row[k]
  <2>1. row[k] \in BoardsOf(os) /\ Cardinality(Below(os, row[k])) = k - 1
    BY <1>1, BelowInRow DEF Range
  <2>2. at(k) \in BoardsOf(os) /\ Cardinality(Below(os, at(k))) = k - 1
    BY <2>1
  <2> HIDE DEF at
  <2>3. PICK j \in DOMAIN row : at(k) = row[j]
    BY <1>1, <2>2 DEF Range
  <2>4. Cardinality(Below(os, at(k))) = j - 1
    BY <2>3, BelowInRow
  <2>5. j = k
    BY <1>1, <2>2, <2>4
  <2>6. QED
    BY <2>3, <2>5
<1>5. Row(os) = [k \in 1 .. Len(row) |-> at(k)]
  BY <1>3 DEF Row
<1> HIDE DEF at
<1>6. QED
  BY <1>1, <1>4, <1>5

\* And the boards of a container that overlap nowhere make one.
LEMMA RowIsSorted ==
  ASSUME NEW os, LowsAreNumbers(os), IsFiniteSet(DOMAIN os), ~Overlaps(os)
  PROVE  SortedRow(os, Row(os)) /\ Len(Row(os)) = Cardinality(BoardsOf(os))
<1> DEFINE B == BoardsOf(os)
           n == Cardinality(B)
           rank == [b \in B |-> 1 + Cardinality(Below(os, b))]
<1>1. IsFiniteSet(B) /\ n \in Nat
  <2>1. BoardsOf(os) \in SUBSET DOMAIN os
    BY DEF BoardsOf
  <2>2. QED
    BY <2>1, FS_Subset, FS_CardinalityType
<1>2. ASSUME NEW b \in B
      PROVE  /\ Below(os, b) \in SUBSET B /\ b \notin Below(os, b)
             /\ IsFiniteSet(Below(os, b)) /\ Cardinality(Below(os, b)) \in 0 .. n - 1
  <2>1. Below(os, b) \in SUBSET B /\ b \notin Below(os, b)
    BY DEF Below, LowsAreNumbers
  <2>2. Below(os, b) # B
    BY <2>1
  <2> HIDE DEF B
  <2>3. IsFiniteSet(Below(os, b)) /\ Cardinality(Below(os, b)) <= n /\ Cardinality(Below(os, b)) # n
    BY <1>1, <2>1, <2>2, FS_Subset
  <2>4. Cardinality(Below(os, b)) \in Nat
    BY <2>3, FS_CardinalityType
  <2>5. QED
    BY <1>1, <2>1, <2>3, <2>4
<1>3. ASSUME NEW a \in B, NEW b \in B, os[a].low < os[b].low
      PROVE  Cardinality(Below(os, a)) < Cardinality(Below(os, b))
  <2>1. os[a].low \in Int /\ os[b].low \in Int
    BY DEF LowsAreNumbers
  <2>2. \A c \in Below(os, a) : c \in Below(os, b)
    BY <1>3, <2>1 DEF Below, LowsAreNumbers
  <2>3. a \in Below(os, b) /\ a \notin Below(os, a)
    BY <1>2, <1>3 DEF Below
  <2>4. Below(os, a) \in SUBSET Below(os, b) /\ Below(os, a) # Below(os, b)
    BY <2>2, <2>3
  <2>5. /\ Cardinality(Below(os, a)) <= Cardinality(Below(os, b))
        /\ Cardinality(Below(os, a)) # Cardinality(Below(os, b))
    BY <1>2, <2>4, FS_Subset
  <2>6. Cardinality(Below(os, a)) \in 0 .. n - 1 /\ Cardinality(Below(os, b)) \in 0 .. n - 1
    BY <1>2
  <2> HIDE DEF n
  <2>7. QED
    BY <1>1, <2>5, <2>6
<1>4. ASSUME NEW a \in B, NEW b \in B, a # b
      PROVE  os[a].low < os[b].low \/ os[b].low < os[a].low
  BY <1>4 DEF LowsAreNumbers, Overlaps
<1>5. rank \in [B -> 1 .. n]
  BY <1>1, <1>2
<1>6. IsInjective(rank)
  <2>1. ASSUME NEW a \in B, NEW b \in B, a # b PROVE rank[a] # rank[b]
    <3>1. /\ Cardinality(Below(os, a)) \in Int /\ Cardinality(Below(os, b)) \in Int
          /\ rank[a] = 1 + Cardinality(Below(os, a)) /\ rank[b] = 1 + Cardinality(Below(os, b))
      BY <1>2
    <3>2. \/ Cardinality(Below(os, a)) < Cardinality(Below(os, b))
          \/ Cardinality(Below(os, b)) < Cardinality(Below(os, a))
      BY <1>3, <1>4, <2>1
    <3> HIDE DEF rank
    <3>3. QED
      BY <3>1, <3>2
  <2>2. DOMAIN rank = B
    OBVIOUS
  <2> HIDE DEF rank, B
  <2>3. QED
    BY <2>1, <2>2 DEF IsInjective
<1>7. IsFiniteSet(1 .. n) /\ Cardinality(1 .. n) = n
  BY <1>1, FS_Interval
<1>8. rank \in Surjection(B, 1 .. n)
  <2>1. rank \in Injection(B, 1 .. n)
    BY <1>5, <1>6 DEF Injection
  <2> HIDE DEF rank, B
  <2>2. QED
    BY <1>7, <2>1, FS_Injection
<1> DEFINE at(k) == CHOOSE b \in B : Cardinality(Below(os, b)) = k - 1
<1>9. ASSUME NEW k \in 1 .. n PROVE at(k) \in B /\ Cardinality(Below(os, at(k))) = k - 1
  <2>1. PICK b \in B : rank[b] = k
    BY <1>8 DEF Surjection
  <2>2. rank[b] = 1 + Cardinality(Below(os, b)) /\ Cardinality(Below(os, b)) \in Int
    BY <1>2
  <2>3. Cardinality(Below(os, b)) = k - 1
    <3> HIDE DEF rank
    <3> QED BY <2>1, <2>2
  <2> HIDE DEF B, rank, n
  <2>4. QED
    BY <2>3
<1>10. Row(os) = [k \in 1 .. n |-> at(k)]
  BY DEF Row
<1> DEFINE row == Row(os)
<1>11. row \in Seq(B) /\ Len(row) = n /\ DOMAIN row = 1 .. n
  <2> HIDE DEF at, n, B
  <2>1. row = [k \in 1 .. n |-> at(k)] /\ \A k \in 1 .. n : at(k) \in B
    BY <1>9, <1>10
  <2> HIDE DEF row
  <2>2. QED
    BY <1>1, <2>1
<1>12. \A k \in 1 .. n : row[k] = at(k)
  BY <1>10
<1> HIDE DEF at, row
<1>13. ASSUME NEW b \in B PROVE b \in Range(row)
  <2> DEFINE k == 1 + Cardinality(Below(os, b))
  <2>1. k \in 1 .. n /\ k - 1 = Cardinality(Below(os, b))
    BY <1>1, <1>2
  <2>2. row[k] \in B /\ Cardinality(Below(os, row[k])) = Cardinality(Below(os, b))
    BY <1>9, <1>12, <2>1
  <2>3. row[k] = b
    <3>1. Cardinality(Below(os, b)) \in Int
      BY <1>2
    <3>2. ~(os[b].low < os[row[k]].low) /\ ~(os[row[k]].low < os[b].low)
      BY <1>3, <2>2, <3>1
    <3>3. QED
      BY <1>4, <2>2, <3>2
  <2>4. k \in DOMAIN row
    BY <1>11, <2>1
  <2> HIDE DEF k
  <2>5. QED
    BY <2>3, <2>4 DEF Range
<1>14. ASSUME NEW j \in 1 .. n, NEW k \in 1 .. n, j < k PROVE os[row[j]].low < os[row[k]].low
  <2>1. /\ row[j] \in B /\ Cardinality(Below(os, row[j])) = j - 1
        /\ row[k] \in B /\ Cardinality(Below(os, row[k])) = k - 1
    BY <1>9, <1>12
  <2>2. row[j] # row[k]
    BY <1>1, <1>14, <2>1
  <2>3. ~(os[row[k]].low < os[row[j]].low)
    <3>1. SUFFICES ASSUME os[row[k]].low < os[row[j]].low PROVE FALSE
      OBVIOUS
    <3>2. k - 1 < j - 1
      BY <1>3, <2>1, <3>1
    <3>3. QED
      BY <1>1, <1>14, <3>2
  <2>4. QED
    BY <1>4, <2>1, <2>2, <2>3
<1>15. BoardsOf(os) \subseteq Range(row)
  BY <1>13
<1>16. \A j, k \in DOMAIN row : j < k => os[row[j]].low < os[row[k]].low
  BY <1>11, <1>14
<1>17. QED
  BY <1>11, <1>15, <1>16 DEF SortedRow, row

------------------------------------------------------------------------------
(* Types.                                                                  *)

\* What a typed object and a typed record are.
IsTyped(o) ==
  /\ o.reads \in {"board", "back", "stray"} /\ o.low \in Int /\ o.high \in Int
  /\ o.tags \in [as : Names, in : Docs] \cup {Untagged}
  /\ o.label \in {"own", "made"} /\ o.stock \in Stocks

AreTyped(os) == \A n \in DOMAIN os : IsTyped(os[n])

IsRecord(rec) ==
  /\ DOMAIN rec \subseteq Names \X Names
  /\ \A key \in DOMAIN rec : rec[key] \in Rules

\* A unit names no board twice, has a rule for every region and a distance
\* for every edge of a back.
Whole(u) ==
  /\ IsInjective(u.row)
  /\ u.rules \in Seq(Rules) /\ DOMAIN u.rules = Regions(u.row)
  /\ \A n \in DOMAIN u.backs : \A side \in {"low", "high"} : u.backs[n][side].offset \in Int

\* TypeOK and what keeps it.
TypeInv ==
  /\ IInv
  /\ doc \in Docs /\ given \subseteq Names
  /\ AreTyped(objs) /\ IsRecord(record)
  /\ open \in BOOLEAN /\ stale \in BOOLEAN
  /\ Range(unit.row) \subseteq Names /\ Whole(unit) /\ (open => Len(unit.row) > 1)
  /\ untagged \subseteq Names
  /\ writes \in 0 .. MaxWrites /\ hands \in 0 .. MaxHands

\* One row after another.
LEMMA RowAfterRow ==
  ASSUME NEW T, NEW s \in Seq(T), NEW t \in Seq(T)
  PROVE  /\ s \o t \in Seq(T) /\ Len(s \o t) = Len(s) + Len(t)
         /\ \A k \in 1 .. Len(s \o t) :
               (s \o t)[k] = IF k <= Len(s) THEN s[k] ELSE t[k - Len(s)]
OBVIOUS

\* A row with one board more.
LEMMA InsertedPlaces ==
  ASSUME NEW T, NEW s \in Seq(T), NEW k \in 1 .. Len(s) + 1, NEW x \in T
  PROVE  LET in == InsertAt(s, k, x)
         IN  /\ in \in Seq(T) /\ Len(in) = Len(s) + 1
             /\ \A j \in 1 .. Len(in) :
                   in[j] = IF j < k THEN s[j] ELSE IF j = k THEN x ELSE s[j - 1]
<1> DEFINE before == SubSeq(s, 1, k - 1)
           after == SubSeq(s, k, Len(s))
           mid == <<x>>
           start == before \o mid
           in == InsertAt(s, k, x)
<1>0. Len(s) \in Nat /\ k \in Nat /\ k >= 1 /\ k <= Len(s) + 1
  OBVIOUS
<1>1. /\ before \in Seq(T) /\ Len(before) = k - 1 /\ \A j \in 1 .. k - 1 : before[j] = s[j]
  OBVIOUS
<1>2. /\ after \in Seq(T) /\ Len(after) = Len(s) - k + 1
      /\ \A j \in 1 .. Len(s) - k + 1 : after[j] = s[k + j - 1]
  OBVIOUS
<1>3. mid \in Seq(T) /\ Len(mid) = 1 /\ mid[1] = x
  OBVIOUS
<1>4. in = start \o after
  BY <1>0 DEF InsertAt
<1> HIDE DEF before, after, mid
<1>5. /\ start \in Seq(T) /\ Len(start) = k
      /\ \A j \in 1 .. k : start[j] = IF j < k THEN s[j] ELSE x
  <2>1. /\ start \in Seq(T) /\ Len(start) = Len(before) + Len(mid)
        /\ \A j \in 1 .. Len(start) :
              start[j] = IF j <= Len(before) THEN before[j] ELSE mid[j - Len(before)]
    BY <1>1, <1>3, RowAfterRow
  <2> HIDE DEF start
  <2>2. Len(start) = k
    BY <1>0, <1>1, <1>3, <2>1
  <2>3. ASSUME NEW j \in 1 .. k PROVE start[j] = IF j < k THEN s[j] ELSE x
    <3>1. CASE j < k
      <4>1. j <= Len(before) /\ j \in 1 .. k - 1
        BY <1>0, <1>1, <3>1
      <4>2. start[j] = before[j]
        BY <2>1, <2>2, <4>1
      <4>3. QED
        BY <1>1, <3>1, <4>1, <4>2
    <3>2. CASE j = k
      <4>1. ~(j <= Len(before)) /\ j - Len(before) = 1
        BY <1>0, <1>1, <3>2
      <4>2. start[j] = mid[1]
        BY <2>1, <2>2, <4>1
      <4>3. QED
        BY <1>0, <1>3, <3>2, <4>2
    <3>3. QED
      BY <1>0, <3>1, <3>2
  <2>4. QED
    BY <2>1, <2>2, <2>3
<1> HIDE DEF start
<1>6. /\ in \in Seq(T) /\ Len(in) = Len(start) + Len(after)
      /\ \A j \in 1 .. Len(in) : in[j] = IF j <= Len(start) THEN start[j] ELSE after[j - Len(start)]
  BY <1>2, <1>4, <1>5, RowAfterRow
<1> HIDE DEF in
<1>7. Len(in) = Len(s) + 1
  BY <1>0, <1>2, <1>5, <1>6
<1>8. ASSUME NEW j \in 1 .. Len(in)
      PROVE  in[j] = IF j < k THEN s[j] ELSE IF j = k THEN x ELSE s[j - 1]
  <2>1. CASE j <= k
    <3>1. in[j] = start[j] /\ j \in 1 .. k
      BY <1>0, <1>5, <1>6, <2>1
    <3>2. QED
      BY <1>0, <1>5, <2>1, <3>1
  <2>2. CASE j > k
    <3>1. in[j] = after[j - k] /\ j - k \in 1 .. Len(s) - k + 1 /\ k + (j - k) - 1 = j - 1
      BY <1>0, <1>5, <1>6, <1>7, <2>2
    <3>2. after[j - k] = s[j - 1]
      BY <1>2, <3>1
    <3>3. QED
      BY <1>0, <2>2, <3>1, <3>2
  <2>3. QED
    BY <1>0, <2>1, <2>2
<1>9. QED
  BY <1>6, <1>7, <1>8 DEF in

\* And one with a board less.
LEMMA RemovedPlaces ==
  ASSUME NEW T, NEW s \in Seq(T), NEW k \in 1 .. Len(s)
  PROVE  LET in == RemoveAt(s, k)
         IN  /\ in \in Seq(T) /\ Len(in) = Len(s) - 1
             /\ \A j \in 1 .. Len(in) : in[j] = IF j < k THEN s[j] ELSE s[j + 1]
<1> DEFINE before == SubSeq(s, 1, k - 1)
           after == SubSeq(s, k + 1, Len(s))
           in == RemoveAt(s, k)
<1>0. Len(s) \in Nat /\ k \in Nat /\ k >= 1 /\ k <= Len(s)
  OBVIOUS
<1>1. /\ before \in Seq(T) /\ Len(before) = k - 1 /\ \A j \in 1 .. k - 1 : before[j] = s[j]
  OBVIOUS
<1>2. /\ after \in Seq(T) /\ Len(after) = Len(s) - k
      /\ \A j \in 1 .. Len(s) - k : after[j] = s[k + j]
  OBVIOUS
<1>4. in = before \o after
  BY <1>0 DEF RemoveAt
<1> HIDE DEF before, after
<1>5. before \in Seq(T) /\ after \in Seq(T)
  BY <1>1, <1>2
<1>6. /\ in \in Seq(T) /\ Len(in) = Len(before) + Len(after)
      /\ \A j \in 1 .. Len(in) : in[j] = IF j <= Len(before) THEN before[j] ELSE after[j - Len(before)]
  BY ONLY <1>4, <1>5, RowAfterRow
<1> HIDE DEF in
<1>7. Len(in) = Len(s) - 1
  BY <1>0, <1>1, <1>2, <1>6
<1>8. ASSUME NEW j \in 1 .. Len(in)
      PROVE  in[j] = IF j < k THEN s[j] ELSE s[j + 1]
  <2>1. CASE j < k
    <3>1. in[j] = before[j] /\ j \in 1 .. k - 1
      BY <1>0, <1>1, <1>6, <2>1
    <3>2. QED
      BY <1>1, <2>1, <3>1
  <2>2. CASE j >= k
    <3>1. in[j] = after[j - k + 1] /\ j - k + 1 \in 1 .. Len(s) - k /\ k + (j - k + 1) = j + 1
      BY <1>0, <1>1, <1>6, <1>7, <2>2
    <3>2. after[j - k + 1] = s[j + 1]
      BY <1>2, <3>1
    <3>3. QED
      BY <1>0, <2>2, <3>1, <3>2
  <2>3. QED
    BY <1>0, <2>1, <2>2
<1>9. QED
  BY <1>6, <1>7, <1>8 DEF in

\* What a read gives is whole.
LEMMA ReadIsWhole ==
  ASSUME NEW os, IsFiniteSet(DOMAIN os), AreTyped(os), Scans(os), NEW rec, IsRecord(rec)
  PROVE  LET u == ReadUnit(os, rec)
         IN  /\ Whole(u) /\ Len(u.row) > 1 /\ Range(u.row) = BoardsOf(os)
             /\ SortedRow(os, u.row)
<1> DEFINE u == ReadUnit(os, rec)
           row == Row(os)
<1>1. /\ u.row = row /\ u.rules = StoredRules(row, rec) /\ u.backs = ReadBacks(os, row)
  BY DEF ReadUnit
<1>2. LowsAreNumbers(os)
  BY DEF LowsAreNumbers, AreTyped, IsTyped, BoardsOf
<1>3. SortedRow(os, row) /\ Len(row) = Cardinality(BoardsOf(os)) /\ Len(row) > 1
  BY <1>2, RowIsSorted DEF Scans
<1> HIDE DEF row
<1>4. IsInjective(row) /\ Range(row) = BoardsOf(os) /\ DOMAIN row = 1 .. Len(row) /\ Len(row) \in Nat
  BY <1>2, <1>3, SortedIsInjective DEF SortedRow
<1>5. u.rules \in Seq(Rules) /\ DOMAIN u.rules = Regions(row)
  <2>1. Regions(row) = 1 .. Len(row) - 1 /\ Len(row) - 1 \in Nat
    BY <1>3, <1>4 DEF Regions
  <2>2. \A k \in Regions(row) :
           (IF RuleKey(row, k) \in DOMAIN rec THEN rec[RuleKey(row, k)] ELSE Unlocked) \in Rules
    BY DEF IsRecord, Rules
  <2> DEFINE rule(k) == IF RuleKey(row, k) \in DOMAIN rec THEN rec[RuleKey(row, k)] ELSE Unlocked
  <2>3. u.rules = [k \in Regions(row) |-> rule(k)] /\ \A k \in Regions(row) : rule(k) \in Rules
    BY <1>1, <2>2 DEF StoredRules
  <2> HIDE DEF rule, u
  <2>4. QED
    BY <2>1, <2>3
<1>6. ASSUME NEW n \in DOMAIN u.backs, NEW side \in {"low", "high"}
      PROVE  u.backs[n][side].offset \in Int
  <2>1. n \in BacksOf(os) /\ n \in DOMAIN os
    BY <1>1 DEF ReadBacks, BacksOf
  <2>2. os[n].low \in Int /\ os[n].high \in Int
    BY <2>1 DEF AreTyped, IsTyped
  <2>3. 1 \in DOMAIN row /\ Len(row) \in DOMAIN row
    BY <1>3, <1>4
  <2>4. row[1] \in BoardsOf(os) /\ row[Len(row)] \in BoardsOf(os)
    BY <1>4, <2>3 DEF Range
  <2>5. os[row[1]].low \in Int /\ os[row[Len(row)]].low \in Int
    BY <1>2, <2>4 DEF LowsAreNumbers
  <2>6. /\ u.backs[n].low.offset = os[n].low - os[row[1]].low
        /\ u.backs[n].high.offset = os[row[Len(row)]].low - os[n].high
    BY <1>1, <2>1 DEF ReadBacks, BackEdge
  <2>7. QED
    BY <2>2, <2>5, <2>6
<1>7. QED
  BY <1>1, <1>3, <1>4, <1>5, <1>6 DEF Whole

\* Naming the new boards of a unit leaves it whole.
LEMMA RenamedIsWhole ==
  ASSUME ObjectsInv, NamesInv, NEW u, IsUnit(u), Whole(u), NEW names \in NewNames(objs, u)
  PROVE  LET v == Renamed(u, names)
         IN  /\ Whole(v) /\ Range(v.row) \subseteq Names /\ Len(v.row) = Len(u.row)
             /\ v.rules = u.rules
<1> DEFINE v == Renamed(u, names)
<1>1. /\ v.row = [k \in DOMAIN u.row |-> Rename(names, u.row[k])]
      /\ DOMAIN v.backs = DOMAIN u.backs
      /\ \A n \in DOMAIN u.backs : \A side \in {"low", "high"} :
            v.backs[n][side].offset = u.backs[n][side].offset
  BY RenamedParts
<1>2. v.rules = u.rules
  BY DEF Renamed, IsUnit
<1>3. Range(v.row) \subseteq Names
  BY RenamedRow, NamesAreNew DEF Matched, NamesInv
<1> HIDE DEF v
<1>4. /\ names \in [Missing(objs, u) -> FreeNames] /\ Range(names) \cap DOMAIN objs = {}
      /\ IsInjective(names)
  BY NamesAreNew DEF NewNames, Injection
<1>5. \A a \in Range(u.row) :
         /\ Rename(names, a) = IF a \in Missing(objs, u) THEN names[a] ELSE a
         /\ a \notin Missing(objs, u) => a \in DOMAIN objs
         /\ a \in Missing(objs, u) => a \in DOMAIN names /\ names[a] \notin DOMAIN objs
  BY <1>4 DEF Rename, Missing, Range
<1>6. \A a, b \in Range(u.row) : Rename(names, a) = Rename(names, b) => a = b
  BY <1>4, <1>5 DEF IsInjective
<1>7. \A k \in DOMAIN u.row : u.row[k] \in Range(u.row)
  BY DEF Range
<1>8. IsInjective(v.row)
  BY <1>1, <1>6, <1>7 DEF IsInjective, Whole
<1>9. /\ DOMAIN u.row = 1 .. Len(u.row) /\ Len(u.row) \in Nat
  BY DEF IsUnit
<1>10. Len(v.row) = Len(u.row)
  BY <1>1, <1>9
<1>11. Whole(v)
  BY <1>1, <1>2, <1>8, <1>10 DEF Whole, Regions
<1>12. QED
  BY <1>2, <1>3, <1>10, <1>11 DEF v

------------------------------------------------------------------------------
(* Stock.                                                                  *)

\* The copies of stock as a fold, c the objects and the unit; and what holds
\* once the first n boards of the row have had theirs.
StockCopy(c, stocks, i) == CopyStock(c.os, c.u, stocks, i)
CopiedSoFar(c, n, stocks) ==
  /\ DOMAIN stocks = DOMAIN c.os \cup Missing(c.os, c.u)
  /\ AreTyped(c.os) => \A i \in DOMAIN stocks : stocks[i] \in Stocks
  /\ \A i \in DOMAIN c.os : stocks[i] = c.os[i].stock
  /\ \A k \in 1 .. n :
        LET i == c.u.row[k]
        IN  i \in Missing(c.os, c.u) \cap DOMAIN c.u.from /\ c.u.from[i] \in DOMAIN c.os
              => stocks[i] = c.os[c.u.from[i]].stock
Copying == INSTANCE FoldTheorems WITH Op <- StockCopy, P <- CopiedSoFar

\* A new board's stock is a stock, and its source's where that is an object.
LEMMA StocksOfNew ==
  ASSUME NEW os, NEW u, IsUnit(u), NEW i \in Missing(os, u)
  PROVE  /\ AreTyped(os) => CreatedStock(os, u, i) \in Stocks
         /\ i \in DOMAIN u.from /\ u.from[i] \in DOMAIN os
              => CreatedStock(os, u, i) = os[u.from[i]].stock
<1> DEFINE c == [os |-> os, u |-> u]
           base == ObjectStocks(os, u)
           all == FoldLeft(LAMBDA stocks, j : CopyStock(os, u, stocks, j), base, u.row)
<1>1. u.row \in Seq(Range(u.row)) /\ DOMAIN u.row = 1 .. Len(u.row) /\ Len(u.row) \in Nat
  BY DEF IsUnit
<1>2. CopiedSoFar(c, 0, base)
  <2>1. DOMAIN base = DOMAIN os \cup Missing(os, u)
    BY DEF ObjectStocks
  <2>2. \A j \in DOMAIN base : base[j] = IF j \in DOMAIN os THEN os[j].stock ELSE DefaultStock
    BY DEF ObjectStocks
  <2>3. AreTyped(os) => \A j \in DOMAIN base : base[j] \in Stocks
    BY <2>2, StockAssumption DEF AreTyped, IsTyped
  <2> HIDE DEF base
  <2>4. QED
    BY <2>1, <2>2, <2>3 DEF CopiedSoFar
<1>3. ASSUME NEW k \in 1 .. Len(u.row), NEW f, CopiedSoFar(c, k - 1, f)
      PROVE  CopiedSoFar(c, k, StockCopy(c, f, u.row[k]))
  <2> DEFINE j == u.row[k]
             g == CopyStock(os, u, f, j)
  <2>1. /\ DOMAIN f = DOMAIN os \cup Missing(os, u)
        /\ AreTyped(os) => \A x \in DOMAIN f : f[x] \in Stocks
        /\ \A x \in DOMAIN os : f[x] = os[x].stock
        /\ \A l \in 1 .. k - 1 :
              u.row[l] \in Missing(os, u) \cap DOMAIN u.from /\ u.from[u.row[l]] \in DOMAIN os
                 => f[u.row[l]] = os[u.from[u.row[l]]].stock
    BY <1>3 DEF CopiedSoFar
  <2>2. Missing(os, u) \cap DOMAIN os = {}
    BY DEF Missing
  <2>3. CASE j \in Missing(os, u) \cap DOMAIN u.from /\ u.from[j] \in DOMAIN f
    <3>1. DOMAIN g = DOMAIN f /\ g[j] = f[u.from[j]] /\ \A x \in DOMAIN f : x # j => g[x] = f[x]
      BY <2>1, <2>3 DEF CopyStock
    <3> HIDE DEF g, j
    <3>2. AreTyped(os) => \A x \in DOMAIN g : g[x] \in Stocks
      BY <2>1, <2>3, <3>1
    <3>3. \A x \in DOMAIN os : g[x] = os[x].stock
      BY <2>1, <2>2, <2>3, <3>1
    <3>4. ASSUME NEW l \in 1 .. k,
                 u.row[l] \in Missing(os, u) \cap DOMAIN u.from, u.from[u.row[l]] \in DOMAIN os
          PROVE  g[u.row[l]] = os[u.from[u.row[l]]].stock
      <4>1. CASE u.row[l] = j
        BY <2>1, <3>1, <3>4, <4>1
      <4>2. CASE u.row[l] # j
        <5>1. l \in 1 .. k - 1
          BY <1>1, <4>2 DEF j
        <5>2. g[u.row[l]] = f[u.row[l]]
          BY <2>1, <3>1, <3>4, <4>2
        <5>3. QED
          BY <2>1, <3>4, <5>1, <5>2
      <4>3. QED
        BY <4>1, <4>2
    <3>5. CopiedSoFar(c, k, g)
      BY <2>1, <3>1, <3>2, <3>3, <3>4 DEF CopiedSoFar
    <3>6. QED
      BY <3>5 DEF StockCopy, g, j
  <2>4. CASE ~(j \in Missing(os, u) \cap DOMAIN u.from /\ u.from[j] \in DOMAIN f)
    <3>1. g = f
      BY <2>4 DEF CopyStock
    <3> HIDE DEF g, j
    <3>2. ASSUME NEW l \in 1 .. k,
                 u.row[l] \in Missing(os, u) \cap DOMAIN u.from, u.from[u.row[l]] \in DOMAIN os
          PROVE  f[u.row[l]] = os[u.from[u.row[l]]].stock
      <4>1. u.row[l] # j
        BY <2>1, <2>4, <3>2
      <4>2. l \in 1 .. k - 1
        BY <1>1, <4>1 DEF j
      <4>3. QED
        BY <2>1, <3>2, <4>2
    <3>3. CopiedSoFar(c, k, f)
      BY <2>1, <3>2 DEF CopiedSoFar
    <3>4. QED
      BY <3>1, <3>3 DEF StockCopy, g, j
  <2>5. QED
    BY <2>3, <2>4
<1>4. \A k \in 1 .. Len(u.row) : \A f :
         CopiedSoFar(c, k - 1, f) => CopiedSoFar(c, k, StockCopy(c, f, u.row[k]))
  BY <1>3
<1> HIDE DEF base
<1>5. CopiedSoFar(c, Len(u.row), Copying!Fold(c, base, u.row))
  BY ONLY <1>1, <1>2, <1>4, Copying!FoldInvariant
<1>6. all = Copying!Fold(c, base, u.row)
  BY DEF StockCopy, Copying!Fold, FoldLeft, Copying!FoldLeft, MapThenFoldSet,
         Copying!MapThenFoldSet, Max, Copying!Max
<1> HIDE DEF all
<1>7. CopiedSoFar(c, Len(u.row), all)
  BY <1>5, <1>6
<1>8. CreatedStock(os, u, i) = all[i]
  BY DEF CreatedStock, all, base
<1>9. PICK k \in 1 .. Len(u.row) : u.row[k] = i
  BY <1>1 DEF Missing, Range
<1>10. QED
  BY <1>7, <1>8, <1>9 DEF CopiedSoFar

\* Where a unit puts its boards and backs.
LEMMA SlotsAreNumbers ==
  ASSUME NEW u, IsUnit(u), NEW n \in Range(u.row)
  PROVE  SlotOf(u.row, n) \in Int
<1>1. DOMAIN u.row = 1 .. Len(u.row) /\ \E k \in DOMAIN u.row : u.row[k] = n
  BY DEF IsUnit, Range
<1> DEFINE k == CHOOSE k \in DOMAIN u.row : u.row[k] = n
<1>2. k \in 1 .. Len(u.row)
  BY <1>1
<1> HIDE DEF k
<1>3. SlotOf(u.row, n) = 2 * k
  BY DEF SlotOf, k
<1>4. QED
  BY <1>2, <1>3

\* And the edges of a back that has a distance for each.
LEMMA EdgesAreNumbers ==
  ASSUME NEW u, IsUnit(u), Whole(u), NEW n \in DOMAIN u.backs
  PROVE  BackLow(u, n) \in Int /\ BackHigh(u, n) \in Int
<1>1. u.backs[n].low.offset \in Int /\ u.backs[n].high.offset \in Int /\ Len(u.row) \in Nat
  BY DEF Whole, IsUnit
<1>2. \A e, outer : outer \in Int => EdgeAt(e, u.row, outer) \in Int
  BY SlotsAreNumbers DEF EdgeAt
<1>3. 2 + u.backs[n].low.offset \in Int /\ 2 * Len(u.row) - u.backs[n].high.offset \in Int
  BY <1>1
<1>4. QED
  BY <1>2, <1>3 DEF BackLow, BackHigh

\* A write leaves every object typed.
LEMMA WrittenIsTyped ==
  ASSUME ObjectsInv, NamesInv, AreTyped(objs), doc \in Docs, NEW u, IsUnit(u), Whole(u),
         NEW names \in NewNames(objs, u)
  PROVE  AreTyped(Written(objs, u, names, doc))
<1> DEFINE w == Written(objs, u, names, doc)
<1> SUFFICES ASSUME NEW n \in DOMAIN w PROVE IsTyped(w[n])
  BY DEF AreTyped
<1>1. n \in DOMAIN objs => IsTyped(objs[n]) /\ IsObject(objs[n])
  BY DEF AreTyped, ObjectsInv
<1>2. Range(names) \subseteq Names /\ DOMAIN objs \subseteq Names
  BY NamesAreNew DEF NamesInv
<1>3. \A m \in Names : Tags(m, doc) \in [as : Names, in : Docs]
  BY DEF Tags
<1>4. CASE n \in Matched(objs, u) /\ w[n] = UpdatedBoard(objs, u, n, doc)
  <2>1. n \in DOMAIN objs /\ n \in Range(u.row)
    BY <1>4 DEF Matched
  <2>2. SlotOf(u.row, n) \in Int
    BY <2>1, SlotsAreNumbers
  <2> HIDE DEF w
  <2>3. /\ w[n].reads = "board" /\ w[n].low = SlotOf(u.row, n) /\ w[n].high = SlotOf(u.row, n)
        /\ w[n].tags \in {Tags(n, doc), objs[n].tags} /\ w[n].label \in {"made", objs[n].label}
        /\ w[n].stock = objs[n].stock
    BY <1>1, <1>4, <2>1 DEF UpdatedBoard, IsObject
  <2>4. w[n].tags \in [as : Names, in : Docs] \cup {Untagged}
    BY <1>1, <1>2, <1>3, <2>1, <2>3 DEF IsTyped
  <2>5. w[n].label \in {"own", "made"} /\ w[n].stock \in Stocks
    BY <1>1, <2>1, <2>3 DEF IsTyped
  <2>6. QED
    BY <2>2, <2>3, <2>4, <2>5 DEF IsTyped
<1>5. CASE n \in PlacedBacks(objs, u) /\ w[n] = PlacedBack(objs, u, n)
  <2>1. n \in DOMAIN objs /\ n \in DOMAIN u.backs
    BY <1>5 DEF PlacedBacks
  <2>2. BackLow(u, n) \in Int /\ BackHigh(u, n) \in Int
    BY <2>1, EdgesAreNumbers
  <2> HIDE DEF w
  <2>3. /\ w[n].reads \in {"stray", "back"} /\ w[n].low = BackLow(u, n) /\ w[n].high = BackHigh(u, n)
        /\ w[n].tags = objs[n].tags /\ w[n].label = objs[n].label /\ w[n].stock = objs[n].stock
    BY <1>1, <1>5, <2>1 DEF PlacedBack, IsObject
  <2>4. QED
    BY <1>1, <2>1, <2>2, <2>3 DEF IsTyped
<1>6. CASE n \in LeftAlone(objs, u) /\ w[n] = objs[n]
  BY <1>1, <1>6 DEF LeftAlone
<1>7. ASSUME NEW i \in Missing(objs, u), n = names[i], n \in Range(names),
             w[n] = CreatedBoard(objs, u, i, n, doc)
      PROVE  IsTyped(w[n])
  <2>1. SlotOf(u.row, i) \in Int
    BY SlotsAreNumbers DEF Missing
  <2>2. CreatedStock(objs, u, i) \in Stocks
    BY StocksOfNew
  <2> HIDE DEF w
  <2>3. /\ w[n].reads = "board" /\ w[n].low = SlotOf(u.row, i) /\ w[n].high = SlotOf(u.row, i)
        /\ w[n].tags = Tags(n, doc) /\ w[n].label = "made" /\ w[n].stock = CreatedStock(objs, u, i)
    BY <1>7 DEF CreatedBoard
  <2>4. QED
    BY <1>2, <1>3, <1>7, <2>1, <2>2, <2>3 DEF IsTyped
<1>8. QED
  BY <1>4, <1>5, <1>6, <1>7, WrittenAt

\* The rules a write stores are keyed by names, one for each region.
LEMMA RecordIs ==
  ASSUME NEW u, u.row \in Seq(Range(u.row)), Whole(u)
  PROVE  /\ DOMAIN RecordOf(u) = {RuleKey(u.row, k) : k \in Regions(u.row)}
         /\ \A k \in Regions(u.row) : RecordOf(u)[RuleKey(u.row, k)] = u.rules[k]
<1>1. DOMAIN RecordOf(u) = {RuleKey(u.row, k) : k \in Regions(u.row)}
  BY DEF RecordOf
<1>2. ASSUME NEW k \in Regions(u.row)
      PROVE  RecordOf(u)[RuleKey(u.row, k)] = u.rules[k]
  <2> DEFINE key == RuleKey(u.row, k)
             j == CHOOSE j \in Regions(u.row) : RuleKey(u.row, j) = key
  <2>1. j \in Regions(u.row) /\ RuleKey(u.row, j) = key
    OBVIOUS
  <2>2. RecordOf(u)[key] = u.rules[j]
    BY DEF RecordOf
  <2> HIDE DEF j
  <2>3. u.row[j] = u.row[k]
    BY <2>1 DEF RuleKey
  <2>4. j \in DOMAIN u.row /\ k \in DOMAIN u.row
    BY <2>1 DEF Regions
  <2>5. j = k
    BY <2>3, <2>4 DEF Whole, IsInjective
  <2>6. QED
    BY <2>2, <2>5
<1>3. QED
  BY <1>1, <1>2

\* So what is stored is typed.
LEMMA RecordIsTyped ==
  ASSUME NEW u, u.row \in Seq(Range(u.row)), Whole(u), Range(u.row) \subseteq Names
  PROVE  IsRecord(RecordOf(u))
<1>1. \A k \in Regions(u.row) : /\ RuleKey(u.row, k) \in Names \X Names
                                /\ u.rules[k] \in Rules
  <2>1. SUFFICES ASSUME NEW k \in Regions(u.row)
                 PROVE  RuleKey(u.row, k) \in Names \X Names /\ u.rules[k] \in Rules
    OBVIOUS
  <2>2. k \in DOMAIN u.row /\ k + 1 \in DOMAIN u.row
    BY <2>1 DEF Regions
  <2>3. u.row[k] \in Names /\ u.row[k + 1] \in Names
    BY <2>2 DEF Range
  <2>4. k \in DOMAIN u.rules
    BY DEF Whole
  <2>5. u.rules[k] \in Rules
    BY <2>4 DEF Whole
  <2>6. QED
    BY <2>3, <2>5 DEF RuleKey
<1> DEFINE rec == RecordOf(u)
<1>2. /\ DOMAIN rec = {RuleKey(u.row, k) : k \in Regions(u.row)}
      /\ \A k \in Regions(u.row) : rec[RuleKey(u.row, k)] = u.rules[k]
  BY RecordIs
<1> HIDE DEF rec
<1>3. ASSUME NEW key \in DOMAIN rec PROVE key \in Names \X Names /\ rec[key] \in Rules
  <2>1. PICK k \in Regions(u.row) : key = RuleKey(u.row, k)
    BY <1>2
  <2>2. QED
    BY <1>1, <1>2, <2>1
<1>4. QED
  BY <1>3 DEF IsRecord, rec

\* What a write leaves.
LEMMA WriteIsTyped ==
  ASSUME TypeInv, NEW u, IsUnit(u), Whole(u), NEW names \in NewNames(objs, u),
         WriteContainer(u, names)
  PROVE  /\ AreTyped(objs') /\ IsRecord(record') /\ given' \subseteq Names
         /\ doc' \in Docs /\ writes' \in 0 .. MaxWrites /\ hands' \in 0 .. MaxHands
<1>1. AreTyped(objs')
  BY WrittenIsTyped DEF TypeInv, IInv, TagsInv, WriteContainer
<1>2. IsRecord(record')
  <2>1. IsUnit(Renamed(u, names))
    BY RenamedParts
  <2>2. Whole(Renamed(u, names)) /\ Range(Renamed(u, names).row) \subseteq Names
    BY RenamedIsWhole DEF TypeInv, IInv, TagsInv
  <2>3. IsRecord(RecordOf(Renamed(u, names)))
    BY <2>1, <2>2, RecordIsTyped DEF IsUnit
  <2>4. QED
    BY <2>3 DEF WriteContainer
<1>3. given' \subseteq Names
  <2>1. DOMAIN objs' \subseteq Names
    BY WriteNames DEF TypeInv, IInv, TagsInv, IsUnit, NamesInv
  <2>2. QED
    BY <2>1 DEF WriteContainer, Given, TypeInv
<1>4. doc' \in Docs /\ hands' \in 0 .. MaxHands
  BY DEF WriteContainer, TypeInv
<1>5. writes' \in 0 .. MaxWrites
  <2>1. writes \in 0 .. MaxWrites /\ writes < MaxWrites /\ writes' = writes + 1
    BY DEF WriteContainer, TypeInv
  <2>2. QED
    BY <2>1, BoundAssumption
<1>6. QED
  BY <1>1, <1>2, <1>3, <1>4, <1>5

\* The session's unit after an edit.
LEMMA ApplyIsTyped ==
  ASSUME TypeInv, NEW name, NEW u, IsUnit(u), Whole(u), Len(u.row) > 1, Apply(name, u)
  PROVE  TypeInv'
<1>1. IInv'
  BY ApplyLists DEF TypeInv
<1>2. PICK names \in NewNames(objs, u) : WriteContainer(u, names) /\ unit' = Renamed(u, names)
  BY DEF Apply
<1>3. /\ AreTyped(objs') /\ IsRecord(record') /\ given' \subseteq Names
      /\ doc' \in Docs /\ writes' \in 0 .. MaxWrites /\ hands' \in 0 .. MaxHands
  BY <1>2, WriteIsTyped
<1>4. Whole(unit') /\ Range(unit'.row) \subseteq Names /\ Len(unit'.row) = Len(u.row)
  BY <1>2, RenamedIsWhole DEF TypeInv, IInv, TagsInv
<1>5. untagged' \subseteq Names
  BY DEF Apply, LeftAlone, PlacedBacks, TypeInv, IInv, NamesInv
<1>6. open' = open /\ stale' = stale
  BY DEF Apply
<1>7. QED
  BY <1>1, <1>3, <1>4, <1>5, <1>6 DEF TypeInv

\* The units an edit writes are whole, and the boards new ones are cut like
\* are known for boards of the unit only.
FromInv == DOMAIN unit.from \subseteq Range(unit.row)

LEMMA SplitIsWhole ==
  ASSUME TypeInv, FromInv, NEW k \in Regions(unit.row), NEW s, Split(k, s)
  PROVE  \E u : /\ IsUnit(u) /\ Whole(u) /\ Len(u.row) > 1 /\ u.backs = unit.backs
                /\ DOMAIN u.from \subseteq Range(u.row) /\ Apply("Edit", u)
<1> DEFINE id == CHOOSE i \in NewIds : TRUE
           half == Half(unit.rules[k])
           rules == [unit.rules EXCEPT ![k] = half]
           u == [unit EXCEPT !.row = InsertAt(@, k + 1, id),
                             !.rules = InsertAt([@ EXCEPT ![k] = half], k, half),
                             !.from = Over(@, [i \in {id} |-> s])]
           row == unit.row
           T == Range(row) \cup {id}
<1>0. /\ IsUnit(unit) /\ Whole(unit) /\ Range(row) \subseteq Names
      /\ DOMAIN row = 1 .. Len(row) /\ Len(row) \in Nat /\ row \in Seq(Range(row))
  BY DEF TypeInv, IInv, IsUnit
<1>1. Apply("Edit", u)
  BY DEF Split
<1>2. /\ DOMAIN u = {"row", "rules", "backs", "from"} /\ u.backs = unit.backs
      /\ u.row = InsertAt(row, k + 1, id) /\ u.rules = InsertAt(rules, k, half)
      /\ u.from = Over(unit.from, [i \in {id} |-> s])
  BY <1>0 DEF IsUnit
<1>3. id \in NewIds /\ id \notin Range(row)
  BY <1>0, IdAssumption
<1>4. k \in 1 .. Len(row) - 1 /\ DOMAIN unit.rules = 1 .. Len(row) - 1 /\ Regions(row) = 1 .. Len(row) - 1
  BY <1>0 DEF Regions, Whole
<1>5. rules \in Seq(Rules) /\ Len(rules) = Len(row) - 1 /\ half \in Rules
  <2>1. unit.rules \in Seq(Rules) /\ half \in Rules
    BY <1>0 DEF Whole, Half, Rules
  <2> HIDE DEF half
  <2>2. Len(unit.rules) = Len(row) - 1
    BY <1>0, <1>4, <2>1
  <2>3. QED
    BY <1>4, <2>1, <2>2
<1> HIDE DEF id, u, half, rules
<1>6. /\ u.row \in Seq(T) /\ Len(u.row) = Len(row) + 1
      /\ \A j \in 1 .. Len(u.row) :
            u.row[j] = IF j < k + 1 THEN row[j] ELSE IF j = k + 1 THEN id ELSE row[j - 1]
  <2>1. row \in Seq(T) /\ k + 1 \in 1 .. Len(row) + 1 /\ id \in T
    BY <1>0, <1>4
  <2>2. PICK m \in 1 .. Len(row) + 1 : m = k + 1
    BY <2>1
  <2> HIDE DEF row, T
  <2>3. LET in == InsertAt(row, m, id)
        IN  /\ in \in Seq(T) /\ Len(in) = Len(row) + 1
            /\ \A j \in 1 .. Len(in) :
                  in[j] = IF j < m THEN row[j] ELSE IF j = m THEN id ELSE row[j - 1]
    BY ONLY <2>1, <2>2, InsertedPlaces
  <2>4. u.row = InsertAt(row, m, id)
    BY <1>2, <2>2
  <2>5. QED
    BY <2>2, <2>3, <2>4
<1>7. IsUnit(u) /\ Range(row) \subseteq Range(u.row) /\ id \in Range(u.row)
  <2>1. u.row \in Seq(Range(u.row)) /\ Range(u.row) = Range(row) \cup {id}
    <3>1. row \in Seq(Range(row)) /\ k \in 1 .. Len(row) - 1 /\ u.row = InsertAt(row, k + 1, id)
      BY <1>0, <1>2, <1>4
    <3> HIDE DEF row
    <3>2. QED
      BY ONLY <3>1, InsertedRow
  <2>2. QED
    BY <1>0, <1>2, <2>1 DEF IsUnit
<1>8. DOMAIN u.row = 1 .. Len(row) + 1
  BY <1>0, <1>6
<1>9. IsInjective(u.row)
  <2>1. SUFFICES ASSUME NEW i \in 1 .. Len(row) + 1, NEW j \in 1 .. Len(row) + 1,
                        u.row[i] = u.row[j]
                 PROVE  i = j
    BY <1>8 DEF IsInjective
  <2> DEFINE old(x) == IF x < k + 1 THEN x ELSE x - 1
  <2>2. \A x \in 1 .. Len(row) + 1 : x # k + 1 =>
           old(x) \in 1 .. Len(row) /\ u.row[x] = row[old(x)] /\ row[old(x)] \in Range(row)
    <3>1. \A x \in 1 .. Len(row) + 1 : x # k + 1 => old(x) \in 1 .. Len(row)
      BY <1>0, <1>4
    <3>2. \A x \in 1 .. Len(row) + 1 : x # k + 1 => u.row[x] = row[old(x)]
      BY <1>0, <1>4, <1>6
    <3>3. \A x \in 1 .. Len(row) : row[x] \in Range(row)
      BY <1>0 DEF Range
    <3>4. QED
      BY <3>1, <3>2, <3>3
  <2>3. u.row[k + 1] = id
    BY <1>0, <1>4, <1>6
  <2>4. \A x, y \in 1 .. Len(row) + 1 : x # k + 1 /\ y # k + 1 /\ old(x) = old(y) => x = y
    BY <1>0, <1>4
  <2>5. \A x, y \in 1 .. Len(row) : row[x] = row[y] => x = y
    BY <1>0 DEF Whole, IsInjective
  <2> HIDE DEF old
  <2>6. QED
    BY <1>3, <2>1, <2>2, <2>3, <2>4, <2>5
<1>10. u.rules \in Seq(Rules) /\ DOMAIN u.rules = Regions(u.row)
  <2>1. k \in 1 .. Len(rules) + 1
    BY <1>4, <1>5
  <2>2. u.rules \in Seq(Rules) /\ Len(u.rules) = Len(rules) + 1
    BY <1>2, <1>5, <2>1, InsertedPlaces
  <2>3. QED
    BY <1>0, <1>4, <1>5, <1>6, <2>2 DEF Regions
<1>11. Whole(u)
  BY <1>0, <1>2, <1>9, <1>10 DEF Whole
<1>12. DOMAIN u.from \subseteq Range(u.row)
  BY <1>2, <1>7 DEF Over, FromInv
<1>13. Len(u.row) > 1
  BY <1>0, <1>4, <1>6
<1>14. QED
  BY <1>1, <1>2, <1>7, <1>11, <1>12, <1>13

LEMMA DeletionIsWhole ==
  ASSUME TypeInv, FromInv, NEW k \in 2 .. Len(unit.row) - 1, DeleteBoard(k)
  PROVE  \E u : /\ IsUnit(u) /\ Whole(u) /\ Len(u.row) > 1 /\ u.backs = unit.backs
                /\ DOMAIN u.from \subseteq Range(u.row) /\ Apply("Delete Boards", u)
<1> DEFINE joined == Joined(unit.rules[k - 1], unit.rules[k])
           rules == [unit.rules EXCEPT ![k - 1] = joined]
           u == [unit EXCEPT !.row = RemoveAt(@, k),
                             !.rules = RemoveAt([@ EXCEPT ![k - 1] = joined], k),
                             !.from = Restrict(@, DOMAIN @ \ {unit.row[k]})]
           row == unit.row
           T == Range(row)
<1>0. /\ IsUnit(unit) /\ Whole(unit) /\ Range(row) \subseteq Names
      /\ DOMAIN row = 1 .. Len(row) /\ Len(row) \in Nat /\ row \in Seq(T)
  BY DEF TypeInv, IInv, IsUnit
<1>1. Apply("Delete Boards", u)
  BY DEF DeleteBoard
<1>2. /\ DOMAIN u = {"row", "rules", "backs", "from"} /\ u.backs = unit.backs
      /\ u.row = RemoveAt(row, k) /\ u.rules = RemoveAt(rules, k)
      /\ DOMAIN u.from = DOMAIN unit.from \ {row[k]}
  <2>1. /\ DOMAIN u = {"row", "rules", "backs", "from"} /\ u.backs = unit.backs
        /\ u.row = RemoveAt(row, k) /\ u.rules = RemoveAt(rules, k)
        /\ u.from = Restrict(unit.from, DOMAIN unit.from \ {row[k]})
    BY <1>0 DEF IsUnit
  <2> HIDE DEF u
  <2>2. QED
    BY <2>1 DEF Restrict
<1>4. k \in 2 .. Len(row) - 1 /\ DOMAIN unit.rules = 1 .. Len(row) - 1
  BY <1>0 DEF Regions, Whole
<1>5. rules \in Seq(Rules) /\ Len(rules) = Len(row) - 1
  <2>1. unit.rules \in Seq(Rules) /\ joined \in Rules
    BY <1>0 DEF Whole, Joined, Rules
  <2> HIDE DEF joined
  <2>2. Len(unit.rules) = Len(row) - 1
    BY <1>0, <1>4, <2>1
  <2>3. QED
    BY <1>0, <1>4, <2>1, <2>2
<1> HIDE DEF u, joined, rules
<1>6. /\ u.row \in Seq(T) /\ Len(u.row) = Len(row) - 1
      /\ \A j \in 1 .. Len(u.row) : u.row[j] = IF j < k THEN row[j] ELSE row[j + 1]
  <2>1. k \in 1 .. Len(row)
    BY <1>0, <1>4
  <2>2. QED
    BY <1>0, <1>2, <2>1, RemovedPlaces
<1>7. IsUnit(u)
  <2>1. u.row \in Seq(Range(u.row))
    BY <1>6, OwnElements
  <2>2. QED
    BY <1>0, <1>2, <2>1 DEF IsUnit
<1>8. DOMAIN u.row = 1 .. Len(row) - 1
  BY <1>0, <1>6
<1> DEFINE old(x) == IF x < k THEN x ELSE x + 1
<1>9. IsInjective(u.row)
  <2>1. SUFFICES ASSUME NEW i \in 1 .. Len(row) - 1, NEW j \in 1 .. Len(row) - 1,
                        u.row[i] = u.row[j]
                 PROVE  i = j
    BY <1>8 DEF IsInjective
  <2>2. \A x \in 1 .. Len(row) - 1 : old(x) \in 1 .. Len(row) /\ u.row[x] = row[old(x)]
    BY <1>0, <1>4, <1>6, SMTT(40)
  <2>4. \A x, y \in 1 .. Len(row) - 1 : old(x) = old(y) => x = y
    BY <1>0, <1>4
  <2>5. \A x, y \in 1 .. Len(row) : row[x] = row[y] => x = y
    BY <1>0 DEF Whole, IsInjective
  <2> HIDE DEF old
  <2>6. QED
    BY <2>1, <2>2, <2>4, <2>5
<1>10. u.rules \in Seq(Rules) /\ DOMAIN u.rules = Regions(u.row)
  <2>1. k \in 1 .. Len(rules)
    BY <1>0, <1>4, <1>5
  <2>2. u.rules \in Seq(Rules) /\ Len(u.rules) = Len(rules) - 1
    BY <1>2, <1>5, <2>1, RemovedPlaces
  <2>3. QED
    BY <1>0, <1>4, <1>5, <1>6, <2>2 DEF Regions
<1>11. Whole(u)
  BY <1>0, <1>2, <1>9, <1>10 DEF Whole
<1>12. DOMAIN u.from \subseteq Range(u.row)
  <2>1. SUFFICES ASSUME NEW b \in Range(row), b # row[k] PROVE b \in Range(u.row)
    BY <1>2 DEF FromInv
  <2>2. PICK j \in 1 .. Len(row) : row[j] = b
    BY <1>0 DEF Range
  <2> DEFINE i == IF j < k THEN j ELSE j - 1
  <2>3. i \in 1 .. Len(row) - 1 /\ old(i) = j
    BY <1>0, <1>4, <2>1, <2>2
  <2>4. u.row[i] = b /\ i \in DOMAIN u.row
    BY <1>6, <1>8, <2>2, <2>3
  <2> HIDE DEF i
  <2>5. QED
    BY <2>4 DEF Range
<1>13. Len(u.row) > 1
  BY <1>0, <1>4, <1>6
<1>14. QED
  BY <1>1, <1>2, <1>7, <1>11, <1>12, <1>13

LEMMA RuleIsWhole ==
  ASSUME TypeInv, FromInv, NEW k \in Regions(unit.row), NEW rule \in Rules, SetRule(k, rule)
  PROVE  \E u : /\ IsUnit(u) /\ Whole(u) /\ Len(u.row) > 1 /\ u.backs = unit.backs
                /\ DOMAIN u.from \subseteq Range(u.row) /\ Apply("Edit", u)
<1> DEFINE u == [unit EXCEPT !.rules[k] = rule]
<1>0. IsUnit(unit) /\ Whole(unit) /\ open
  BY DEF TypeInv, IInv, SetRule, Apply
<1>1. Apply("Edit", u)
  BY DEF SetRule
<1>2. /\ DOMAIN u = {"row", "rules", "backs", "from"} /\ u.backs = unit.backs
      /\ u.row = unit.row /\ u.rules = [unit.rules EXCEPT ![k] = rule] /\ u.from = unit.from
  BY <1>0 DEF IsUnit
<1> HIDE DEF u
<1>3. u.rules \in Seq(Rules) /\ DOMAIN u.rules = Regions(u.row)
  BY <1>0, <1>2 DEF Whole
<1>4. IsUnit(u) /\ Whole(u)
  BY <1>0, <1>2, <1>3 DEF IsUnit, Whole
<1>5. QED
  BY <1>0, <1>1, <1>2, <1>4 DEF TypeInv, FromInv

\* An edit knows the source of a new board by the name the board is given.
LEMMA ApplyFrom ==
  ASSUME NEW name, NEW u, IsUnit(u), DOMAIN u.from \subseteq Range(u.row), Apply(name, u)
  PROVE  FromInv'
<1>1. PICK names \in NewNames(objs, u) : unit' = Renamed(u, names)
  BY DEF Apply
<1>2. unit'.row = [k \in DOMAIN u.row |-> Rename(names, u.row[k])]
  BY <1>1, RenamedParts
<1>3. DOMAIN unit'.from = {Rename(names, i) : i \in DOMAIN u.from}
  BY <1>1 DEF Renamed, RenamedFrom, IsUnit
<1>4. \A i \in Range(u.row) : Rename(names, i) \in Range(unit'.row)
  BY <1>2 DEF Range
<1>5. QED
  BY <1>3, <1>4 DEF FromInv

\* A closed session's unit is whole too.
LEMMA NoUnitIsWhole ==
  /\ Whole(NoUnit) /\ Range(NoUnit.row) \subseteq Names
  /\ DOMAIN NoUnit.from \subseteq Range(NoUnit.row)
BY DEF Whole, NoUnit, IsInjective, Range, Regions

\* A read leaves a session typed, or closed.
LEMMA ReadIsTyped ==
  ASSUME TypeInv, Read
  PROVE  TypeInv' /\ FromInv'
<1>1. IInv'
  BY ListStep DEF TypeInv, Next
<1>2. /\ doc' = doc /\ objs' = objs /\ record' = record /\ given' = given
      /\ writes' = writes /\ hands' = hands /\ open' = Scans(objs) /\ stale' = FALSE
  BY DEF Read, document
<1>3. CASE open'
  <2>1. unit' = ReadUnit(objs, record) /\ untagged' = Unplaced(objs, unit') /\ Scans(objs)
    BY <1>2, <1>3 DEF Read
  <2>2. /\ Whole(unit') /\ Len(unit'.row) > 1 /\ Range(unit'.row) = BoardsOf(objs)
    BY <2>1, ReadIsWhole DEF TypeInv, IInv, NamesInv
  <2>3. Range(unit'.row) \subseteq Names /\ untagged' \subseteq Names
    BY <2>1, <2>2 DEF Unplaced, BoardsOf, TypeInv, IInv, NamesInv
  <2>4. unit'.from = << >>
    BY <2>1 DEF ReadUnit
  <2>5. open' = TRUE
    BY <1>2, <2>1
  <2>6. TypeInv'
    BY <1>1, <1>2, <2>2, <2>3, <2>5 DEF TypeInv
  <2>7. QED
    BY <2>4, <2>6 DEF FromInv
<1>4. CASE ~open'
  <2>1. unit' = NoUnit /\ untagged' = {}
    BY <1>4 DEF Read
  <2>2. open' = FALSE
    BY <1>2, <1>4
  <2>3. Whole(unit') /\ Range(unit'.row) \subseteq Names /\ FromInv'
    BY <2>1, NoUnitIsWhole DEF FromInv
  <2>4. QED
    BY <1>1, <1>2, <2>1, <2>2, <2>3 DEF TypeInv
<1>5. QED
  BY <1>3, <1>4

\* A change by hand leaves the document typed.
LEMMA HandIsTyped ==
  ASSUME TypeInv, FromInv, NEW os, Hand(os), IInv', AreTyped(os)
  PROVE  TypeInv' /\ FromInv'
<1>1. /\ doc' = doc /\ objs' = os /\ record' = record /\ given' = Given(os)
      /\ writes' = writes /\ hands' = hands + 1 /\ open' = open /\ stale' = open
      /\ unit' = unit /\ untagged' = untagged /\ hands < MaxHands
  BY DEF Hand, session
<1>2. given' \subseteq Names
  BY <1>1 DEF Given, TypeInv, IInv, NamesInv
<1>3. hands' \in 0 .. MaxHands
  BY <1>1, BoundAssumption DEF TypeInv
<1>4. QED
  BY <1>1, <1>2, <1>3 DEF TypeInv, FromInv

\* A hand puts a part at a place that is a number.
LEMMA SpotsAreTyped ==
  ASSUME NEW spot \in Spots
  PROVE  spot.reads \in {"board", "back", "stray"} /\ spot.low \in Int /\ spot.high \in Int
<1>1. CASE spot \in {[reads |-> "board", low |-> s, high |-> s] : s \in HandSlots}
  BY <1>1, HandAssumption
<1>2. CASE spot \in {[reads |-> "back", low |-> b[1], high |-> b[2]] : b \in BackSpans}
  <2>1. PICK b \in BackSpans : spot = [reads |-> "back", low |-> b[1], high |-> b[2]]
    BY <1>2
  <2>2. b[1] \in Int /\ b[2] \in Int
    BY <2>1, HandAssumption
  <2>3. QED
    BY <2>1, <2>2
<1>3. CASE spot = [reads |-> "stray", low |-> 0, high |-> 0]
  BY <1>3
<1>4. QED
  BY <1>1, <1>2, <1>3 DEF Spots

\* So what it moves stays typed.
LEMMA AtIsTyped ==
  ASSUME NEW o, IsObject(o), IsTyped(o), NEW spot \in Spots
  PROVE  IsTyped(At(o, spot)) /\ IsObject(At(o, spot))
<1> DEFINE p == At(o, spot)
<1>1. /\ p.reads = spot.reads /\ p.low = spot.low /\ p.high = spot.high
      /\ p.tags = o.tags /\ p.label = o.label /\ p.stock = o.stock /\ IsObject(p)
  BY DEF At, IsObject
<1> HIDE DEF p
<1>2. IsTyped(p)
  BY <1>1, SpotsAreTyped DEF IsTyped
<1>3. QED
  BY <1>1, <1>2 DEF p

\* Nor does any other action break TypeInv.
LEMMA TypeStep ==
  ASSUME TypeInv, FromInv, [Next]_vars
  PROVE  TypeInv' /\ FromInv'
<1>0. IInv' /\ \A n \in DOMAIN objs : IsTyped(objs[n]) /\ IsObject(objs[n])
  BY ListStep DEF TypeInv, AreTyped, IInv, TagsInv, ObjectsInv
<1>1. CASE Create
  <2>1. PICK row \in [1 .. 2 -> NewIds] :
          /\ IsInjective(row)
          /\ LET new == [row |-> row, rules |-> <<Unlocked>>, backs |-> << >>, from |-> << >>]
             IN  \E names \in NewNames(objs, new) : WriteContainer(new, names)
    BY <1>1 DEF Create
  <2> DEFINE new == [row |-> row, rules |-> <<Unlocked>>, backs |-> << >>, from |-> << >>]
  <2>2. row \in Seq(Range(row)) /\ Len(row) = 2
    <3>1. row = [k \in 1 .. 2 |-> row[k]] /\ \A k \in 1 .. 2 : row[k] \in Range(row)
      BY DEF Range
    <3>2. QED
      BY <3>1
  <2>3. IsUnit(new)
    BY <2>2 DEF IsUnit
  <2>4. <<Unlocked>> \in Seq(Rules) /\ DOMAIN <<Unlocked>> = 1 .. 1
    BY DEF Rules
  <2>5. Whole(new)
    BY <2>1, <2>2, <2>4 DEF Whole, Regions
  <2>6. PICK names \in NewNames(objs, new) : WriteContainer(new, names)
    BY <2>1
  <2> HIDE DEF new
  <2>7. /\ AreTyped(objs') /\ IsRecord(record') /\ given' \subseteq Names
        /\ doc' \in Docs /\ writes' \in 0 .. MaxWrites /\ hands' \in 0 .. MaxHands
    BY <2>3, <2>5, <2>6, WriteIsTyped
  <2>8. open' = open /\ unit' = unit /\ untagged' = untagged /\ stale' = stale
    BY <1>1 DEF Create, session
  <2>9. QED
    BY <1>0, <2>7, <2>8 DEF TypeInv, FromInv
<1>2. CASE Rescan
  <2> DEFINE read == ReadUnit(objs, record)
  <2>1. PICK names \in NewNames(objs, read) : WriteContainer(read, names)
    BY <1>2 DEF Rescan
  <2>2. IsUnit(read) /\ Whole(read)
    BY <1>2, ReadIsUnit, ReadIsWhole DEF Rescan, TypeInv, IInv, NamesInv
  <2> HIDE DEF read
  <2>3. /\ AreTyped(objs') /\ IsRecord(record') /\ given' \subseteq Names
        /\ doc' \in Docs /\ writes' \in 0 .. MaxWrites /\ hands' \in 0 .. MaxHands
    BY <2>1, <2>2, WriteIsTyped
  <2>4. open' = open /\ unit' = unit /\ untagged' = untagged /\ stale' = open
    BY <1>2 DEF Rescan, session
  <2>5. QED
    BY <1>0, <2>3, <2>4 DEF TypeInv, FromInv
<1>3. ASSUME NEW k \in Regions(unit.row), NEW s \in Range(unit.row), Split(k, s)
      PROVE  TypeInv' /\ FromInv'
  BY <1>3, SplitIsWhole, ApplyIsTyped, ApplyFrom
<1>4. ASSUME NEW k \in 2 .. Len(unit.row) - 1, DeleteBoard(k) PROVE TypeInv' /\ FromInv'
  BY <1>4, DeletionIsWhole, ApplyIsTyped, ApplyFrom
<1>5. ASSUME NEW k \in Regions(unit.row), NEW rule \in Rules, SetRule(k, rule)
      PROVE  TypeInv' /\ FromInv'
  BY <1>5, RuleIsWhole, ApplyIsTyped, ApplyFrom
<1>6. CASE Read
  BY <1>6, ReadIsTyped
<1>7. CASE Close
  <2>1. /\ unit' = NoUnit /\ untagged' = {} /\ open' = FALSE /\ stale' = FALSE
        /\ doc' = doc /\ objs' = objs /\ record' = record /\ given' = given
        /\ writes' = writes /\ hands' = hands
    BY <1>7 DEF Close, Closed, document
  <2>2. Whole(unit') /\ Range(unit'.row) \subseteq Names /\ FromInv'
    BY <2>1, NoUnitIsWhole DEF FromInv
  <2>3. QED
    BY <1>0, <2>1, <2>2 DEF TypeInv
<1>8. ASSUME NEW ns, DeleteUntagged(ns) PROVE TypeInv' /\ FromInv'
  <2>1. /\ objs' = [n \in DOMAIN objs \ ns |-> objs[n]] /\ untagged' = untagged \ ns
        /\ unit' = [unit EXCEPT !.backs = [n \in DOMAIN unit.backs \ ns |-> unit.backs[n]]]
        /\ open' = open /\ stale' = stale /\ given' = Given(objs') /\ record' = record
        /\ doc' = doc /\ writes' = writes /\ hands' = hands
    BY <1>8 DEF DeleteUntagged, Restrict
  <2>2. /\ unit'.row = unit.row /\ unit'.rules = unit.rules /\ unit'.from = unit.from
        /\ unit'.backs = [n \in DOMAIN unit.backs \ ns |-> unit.backs[n]]
    BY <2>1 DEF TypeInv, IInv, IsUnit
  <2>3. Whole(unit')
    BY <2>2 DEF Whole, TypeInv
  <2>4. AreTyped(objs')
    BY <2>1 DEF AreTyped, TypeInv
  <2>5. given' \subseteq Names
    BY <2>1 DEF Given, TypeInv, IInv, NamesInv
  <2>6. QED
    BY <1>0, <2>1, <2>2, <2>3, <2>4, <2>5 DEF TypeInv, FromInv
<1>9. ASSUME NEW os, Hand(os), AreTyped(os) PROVE TypeInv' /\ FromInv'
  BY <1>0, <1>9, HandIsTyped
<1>10. ASSUME NEW n \in Names, NEW spot \in Spots, NEW stock \in HandStocks,
              HandAdd(n, spot, stock)
       PROVE  TypeInv' /\ FromInv'
  <2> DEFINE new == Object(spot.reads, spot.low, spot.high, stock)
             os == Over(objs, [x \in {n} |-> new])
  <2>1. IsTyped(new)
    BY SpotsAreTyped, StockAssumption DEF Object, IsTyped
  <2>2. Hand(os) /\ DOMAIN os = DOMAIN objs \cup {n}
        /\ \A x \in DOMAIN os : os[x] \in {new, objs[x]} /\ (os[x] = objs[x] => x = n \/ x \in DOMAIN objs)
        /\ os[n] = new
    BY <1>10 DEF HandAdd, Over
  <2>3. \A x \in DOMAIN objs : x # n => os[x] = objs[x]
    BY DEF Over
  <2> HIDE DEF os, new
  <2>4. AreTyped(os)
    BY <1>0, <2>1, <2>2, <2>3 DEF AreTyped
  <2>5. QED
    BY <1>9, <2>2, <2>4
<1>11. ASSUME NEW o \in DOMAIN objs, NEW n \in Names, NEW spot \in Spots, HandCopy(o, n, spot)
       PROVE  TypeInv' /\ FromInv'
  <2> DEFINE new == [At(objs[o], spot) EXCEPT !.label = "own"]
             os == Over(objs, [x \in {n} |-> new])
  <2>1. IsTyped(At(objs[o], spot)) /\ IsObject(At(objs[o], spot))
    BY <1>0, AtIsTyped
  <2>2. IsTyped(new)
    BY <2>1 DEF IsTyped, IsObject
  <2>3. Hand(os) /\ DOMAIN os = DOMAIN objs \cup {n} /\ os[n] = new
    BY <1>11 DEF HandCopy, Over
  <2>4. \A x \in DOMAIN objs : x # n => os[x] = objs[x]
    BY DEF Over
  <2> HIDE DEF os, new
  <2>5. AreTyped(os)
    BY <1>0, <2>2, <2>3, <2>4 DEF AreTyped
  <2>6. QED
    BY <1>9, <2>3, <2>5
<1>12. ASSUME NEW n \in DOMAIN objs, HandDelete(n) PROVE TypeInv' /\ FromInv'
  <2>1. AreTyped(Restrict(objs, DOMAIN objs \ {n}))
    BY <1>0 DEF AreTyped, Restrict
  <2>2. QED
    BY <1>9, <1>12, <2>1 DEF HandDelete
<1>13. ASSUME NEW n \in DOMAIN objs, HandLabel(n) PROVE TypeInv' /\ FromInv'
  <2> DEFINE new == [objs[n] EXCEPT !.label = "own"]
             os == [objs EXCEPT ![n] = new]
  <2>1. IsTyped(new)
    BY <1>0 DEF IsTyped, IsObject
  <2>2. Hand(os)
    BY <1>13 DEF HandLabel
  <2> HIDE DEF new
  <2>3. AreTyped(os)
    BY <1>0, <2>1 DEF AreTyped
  <2> HIDE DEF os
  <2>4. QED
    BY <1>9, <2>2, <2>3
<1>14. ASSUME NEW n \in DOMAIN objs, NEW spot \in Spots, HandMove(n, spot) PROVE TypeInv' /\ FromInv'
  <2> DEFINE os == [objs EXCEPT ![n] = At(objs[n], spot)]
  <2>1. IsTyped(At(objs[n], spot))
    BY <1>0, AtIsTyped
  <2>2. Hand(os)
    BY <1>14 DEF HandMove
  <2>3. AreTyped(os)
    BY <1>0, <2>1 DEF AreTyped
  <2> HIDE DEF os
  <2>4. QED
    BY <1>9, <2>2, <2>3
<1>15. ASSUME NEW d \in Docs, NEW f \in CopyNames(d), CopyUnit(d, f) PROVE TypeInv' /\ FromInv'
  <2>1. /\ doc' = d /\ given' = Given(objs') /\ hands < MaxHands /\ hands' = hands + 1
        /\ record' = record /\ writes' = writes
        /\ unit' = NoUnit /\ untagged' = {} /\ open' = FALSE /\ stale' = FALSE
        /\ DOMAIN objs' = Range(f)
        /\ \A n \in Range(f) : objs'[n] = objs[CHOOSE m \in DOMAIN f : f[m] = n]
    BY <1>15 DEF CopyUnit, Closed
  <2>2. DOMAIN f = DOMAIN objs /\ Range(f) \subseteq Names
    BY DEF CopyNames, Injection, Range, FreeNames, TypeInv, IInv, NamesInv
  <2>3. \A n \in Range(f) : (CHOOSE m \in DOMAIN f : f[m] = n) \in DOMAIN objs
    BY <2>2 DEF Range
  <2>4. AreTyped(objs')
    BY <1>0, <2>1, <2>3 DEF AreTyped
  <2>5. given' \subseteq Names
    BY <2>1, <2>2 DEF Given, TypeInv
  <2>6. hands' \in 0 .. MaxHands
    BY <2>1, BoundAssumption DEF TypeInv
  <2>7. Whole(unit') /\ Range(unit'.row) \subseteq Names /\ FromInv'
    BY <2>1, NoUnitIsWhole DEF FromInv
  <2>8. QED
    BY <1>0, <2>1, <2>4, <2>5, <2>6, <2>7 DEF TypeInv
<1>16. CASE UNCHANGED vars
  BY <1>0, <1>16 DEF vars, document, session, TypeInv, FromInv
<1>17. QED
  BY <1>1, <1>2, <1>3, <1>4, <1>5, <1>6, <1>7, <1>8, <1>10, <1>11, <1>12, <1>13, <1>14,
     <1>15, <1>16 DEF Next

\* And it holds of the document a session starts from.
LEMMA TypeInit ==
  ASSUME Init
  PROVE  TypeInv /\ FromInv
<1>1. /\ IInv /\ doc \in Docs /\ record = << >> /\ given = DOMAIN objs /\ open = FALSE
      /\ unit = NoUnit /\ untagged = {} /\ stale = FALSE /\ writes = 0 /\ hands = 0
  BY ListInit DEF Init
<1>2. Whole(unit) /\ Range(unit.row) \subseteq Names /\ FromInv
  BY <1>1, NoUnitIsWhole DEF FromInv
<1>3. IsRecord(<< >>)
  BY DEF IsRecord
<1>4. AreTyped(objs)
  <2>1. CASE objs = << >>
    BY <2>1 DEF AreTyped
  <2>2. CASE objs # << >>
    <3>1. PICK m \in Names, n \in Names, s \in HandStocks :
            objs = [x \in {m, n} |-> LET slot == IF x = m THEN 2 ELSE 4
                                    IN  Object("board", slot, slot, s)]
      BY <2>2, Zenon DEF Init
    <3>2. \A slot \in Int : IsTyped(Object("board", slot, slot, s))
      BY StockAssumption DEF Object, IsTyped
    <3>3. \A x \in DOMAIN objs : IsTyped(objs[x])
      BY <3>1, <3>2
    <3>4. QED
      BY <3>3 DEF AreTyped
  <2>3. QED
    BY <2>1, <2>2
<1>5. QED
  <2>1. writes \in 0 .. MaxWrites /\ hands \in 0 .. MaxHands
    BY <1>1, BoundAssumption
  <2>2. given \subseteq Names /\ IsRecord(record) /\ untagged \subseteq Names
    BY <1>1, <1>3 DEF IInv, NamesInv
  <2>3. open \in BOOLEAN /\ stale \in BOOLEAN /\ ~open
    BY <1>1
  <2>4. QED
    BY <1>1, <1>2, <1>4, <2>1, <2>2, <2>3 DEF TypeInv

\* TypeInv and FromInv hold always.
THEOREM TypesHold == Spec => [](TypeInv /\ FromInv)
BY TypeInit, TypeStep, PTL DEF Spec

\* TypeInv is more than TypeOK.
LEMMA TypeInvIsTypeOK ==
  ASSUME TypeInv
  PROVE  TypeOK
<1>1. /\ DOMAIN objs \subseteq given /\ made \subseteq DOMAIN objs
  BY DEF TypeInv, IInv, TagsInv, ObjectsInv, MadeInv
<1>2. Len(unit.rules) = Cardinality(Regions(unit.row))
  <2>1. unit.row \in Seq(Range(unit.row)) /\ Whole(unit)
    BY DEF TypeInv, IInv, IsUnit
  <2>2. Len(unit.row) \in Nat /\ Regions(unit.row) = 1 .. Len(unit.row) - 1
        /\ Len(unit.rules) \in Nat /\ 1 .. Len(unit.rules) = 1 .. Len(unit.row) - 1
    BY <2>1 DEF Whole, Regions
  <2>3. /\ IsFiniteSet(1 .. Len(unit.rules))
        /\ Cardinality(1 .. Len(unit.rules))
             = IF 1 > Len(unit.rules) THEN 0 ELSE Len(unit.rules) - 1 + 1
    BY <2>2, FS_Interval, SMTT(40)
  <2>4. QED
    BY <2>2, <2>3
<1>3. Range(unit.rules) \subseteq Rules
  BY DEF TypeInv, Whole, Range
<1>4. QED
  BY <1>1, <1>2, <1>3 DEF TypeInv, TypeOK, AreTyped, IsTyped, IsRecord, Whole

\* TypeOK holds always, whatever is done by hand: objects, record and unit have
\* their types and a unit names no board twice (container.py, session.py).
THEOREM ContainerIsTyped == Spec => []TypeOK
BY TypesHold, TypeInvIsTypeOK, PTL

\* An edit writes a whole unit.
LEMMA EditsApplyWhole ==
  ASSUME TypeInv, FromInv, Next, step' \in Edits
  PROVE  \E name, u : /\ Apply(name, u) /\ IsUnit(u) /\ Whole(u)
                      /\ DOMAIN u.from \subseteq Range(u.row)
<1>1. step' \in Writes /\ step' # "Write"
  BY DEF Edits, Writes
<1>2. ~Create /\ ~Rescan
  BY <1>1 DEF Create, Rescan
<1>3. CASE \E k \in Regions(unit.row), s \in Range(unit.row) : Split(k, s)
  BY <1>3, SplitIsWhole
<1>4. CASE \E k \in 2 .. Len(unit.row) - 1 : DeleteBoard(k)
  BY <1>4, DeletionIsWhole
<1>5. CASE \E k \in Regions(unit.row), rule \in Rules : SetRule(k, rule)
  BY <1>5, RuleIsWhole
<1>6. QED
  BY <1>1, <1>2, <1>3, <1>4, <1>5, OnlyWritesWrite

\* StocksAreCopied: a board created by an edit has its source's stock, and no
\* other board's stock changes (container.py write_container).
THEOREM StocksCopied == Spec => StocksAreCopied
<1>1. ASSUME TypeInv, FromInv, [Next]_vars
      PROVE  [step' \in Edits =>
                /\ \A n \in DOMAIN objs \cap DOMAIN objs' : objs'[n].stock = objs[n].stock
                /\ \A n \in DOMAIN unit'.from \ DOMAIN objs :
                      unit'.from[n] \in DOMAIN objs
                         => objs'[n].stock = objs[unit'.from[n]].stock]_vars
  <2> SUFFICES ASSUME Next, step' \in Edits
               PROVE  /\ \A n \in DOMAIN objs \cap DOMAIN objs' : objs'[n].stock = objs[n].stock
                      /\ \A n \in DOMAIN unit'.from \ DOMAIN objs :
                            unit'.from[n] \in DOMAIN objs
                               => objs'[n].stock = objs[unit'.from[n]].stock
    BY <1>1
  <2>0. ObjectsInv
    BY <1>1 DEF TypeInv, IInv, TagsInv
  <2>1. PICK name, u : /\ Apply(name, u) /\ IsUnit(u) /\ Whole(u)
                       /\ DOMAIN u.from \subseteq Range(u.row)
    BY <1>1, EditsApplyWhole
  <2>2. PICK names \in NewNames(objs, u) : WriteContainer(u, names) /\ unit' = Renamed(u, names)
    BY <2>1 DEF Apply
  <2> DEFINE w == Written(objs, u, names, doc)
  <2>3. objs' = w /\ unit'.from = RenamedFrom(u.from, names)
    BY <2>1, <2>2 DEF WriteContainer, Renamed, IsUnit
  <2>4. /\ names \in [Missing(objs, u) -> FreeNames] /\ Range(names) \cap DOMAIN objs = {}
        /\ IsInjective(names)
    BY <2>0, NamesAreNew DEF NewNames, Injection
  <2>5. ASSUME NEW n \in DOMAIN objs, n \in DOMAIN w PROVE w[n].stock = objs[n].stock
    <3>1. IsObject(objs[n]) /\ n \notin Range(names)
      BY <2>0, <2>4 DEF ObjectsInv
    <3>2. CASE w[n] = UpdatedBoard(objs, u, n, doc)
      BY <3>1, <3>2 DEF UpdatedBoard, IsObject
    <3>3. CASE w[n] = PlacedBack(objs, u, n)
      BY <3>1, <3>3 DEF PlacedBack, IsObject
    <3>4. QED
      BY <2>0, <2>5, <3>1, <3>2, <3>3, WrittenAt
  <2>6. ASSUME NEW n \in DOMAIN unit'.from, n \notin DOMAIN objs, unit'.from[n] \in DOMAIN objs
        PROVE  w[n].stock = objs[unit'.from[n]].stock
    <3> DEFINE i == CHOOSE i \in DOMAIN u.from : Rename(names, i) = n
    <3>1. n \in {Rename(names, j) : j \in DOMAIN u.from} /\ unit'.from[n] = u.from[i]
      BY <2>3, <2>6 DEF RenamedFrom
    <3>2. i \in DOMAIN u.from /\ Rename(names, i) = n
      BY <3>1
    <3> HIDE DEF i
    <3>3. i \in Missing(objs, u) /\ n = names[i]
      BY <2>1, <2>4, <2>6, <3>2 DEF Rename, Missing
    <3>4. n \in Range(names) /\ n \in DOMAIN w
      BY <2>4, <3>3 DEF Range, Written
    <3>5. n \notin Kept(objs, u)
      BY <2>6 DEF Kept, Matched, PlacedBacks, LeftAlone
    <3>6. PICK j \in Missing(objs, u) : n = names[j] /\ w[n] = CreatedBoard(objs, u, j, n, doc)
      BY <2>0, <3>4, <3>5, WrittenAt DEF Kept
    <3>7. j = i
      BY <2>4, <3>3, <3>6 DEF IsInjective
    <3>8. w[n].stock = CreatedStock(objs, u, i)
      BY <3>6, <3>7 DEF CreatedBoard
    <3>9. CreatedStock(objs, u, i) = objs[u.from[i]].stock
      BY <2>1, <2>6, <3>1, <3>2, <3>3, StocksOfNew
    <3>10. QED
      BY <3>1, <3>8, <3>9
  <2>7. QED
    BY <2>3, <2>5, <2>6
<1>2. QED
  BY <1>1, TypesHold, PTL DEF Spec, StocksAreCopied

------------------------------------------------------------------------------
(* The session and the document.                                           *)

\* While nothing else changes the document the session's unit is what is in
\* it: its boards stand in its order, each region has its stored rule, its
\* backs are the backs, each edge on the board it follows.
SyncInv ==
  open /\ ~stale =>
    /\ Range(unit.row) \subseteq BoardsOf(objs)
    /\ \A n \in BoardsOf(objs) \ Range(unit.row) : ~HasTags(objs, n)
    /\ \A j, k \in DOMAIN unit.row :
          j < k => objs[unit.row[j]].low < objs[unit.row[k]].low
    /\ unit.rules = StoredRules(unit.row, record)
    /\ DOMAIN unit.backs = BacksOf(objs)
    /\ \A n \in DOMAIN unit.backs : \A side \in {"low", "high"} :
          unit.backs[n][side].follows \in Range(unit.row)
             => objs[n][side] = objs[unit.backs[n][side].follows].low

\* Then reading it gives the unit.
LEMMA SyncReadsBack ==
  ASSUME TypeInv, SyncInv
  PROVE  ReadsBack
<1> SUFFICES ASSUME open, ~stale
             PROVE  LET left == BoardsOf(objs) \ Range(unit.row)
                        read == ReadUnit(Restrict(objs, DOMAIN objs \ left), record)
                    IN  /\ \A n \in left : ~HasTags(objs, n)
                        /\ read.row = unit.row /\ read.rules = unit.rules
                        /\ DOMAIN read.backs = DOMAIN unit.backs
                        /\ \A n \in DOMAIN read.backs : \A side \in {"low", "high"} :
                              unit.backs[n][side].follows \in Range(unit.row) =>
                                  read.backs[n][side].follows = unit.backs[n][side].follows
  BY DEF ReadsBack
<1> DEFINE left == BoardsOf(objs) \ Range(unit.row)
           os == Restrict(objs, DOMAIN objs \ left)
           read == ReadUnit(os, record)
           row == unit.row
<1>1. /\ Range(row) \subseteq BoardsOf(objs) /\ \A n \in left : ~HasTags(objs, n)
      /\ \A j, k \in DOMAIN row : j < k => objs[row[j]].low < objs[row[k]].low
      /\ unit.rules = StoredRules(row, record) /\ DOMAIN unit.backs = BacksOf(objs)
      /\ \A n \in DOMAIN unit.backs : \A side \in {"low", "high"} :
            unit.backs[n][side].follows \in Range(row)
               => objs[n][side] = objs[unit.backs[n][side].follows].low
  BY DEF SyncInv
<1>2. DOMAIN os = DOMAIN objs \ left /\ \A n \in DOMAIN os : os[n] = objs[n]
  BY DEF Restrict
<1> HIDE DEF os
<1>3. BoardsOf(os) = Range(row) /\ BacksOf(os) = BacksOf(objs)
  BY <1>1, <1>2 DEF BoardsOf, BacksOf
<1>4. \A n \in Range(row) : os[n] = objs[n] /\ n \in DOMAIN os /\ objs[n].low \in Int
  <2>1. \A n \in Range(row) : n \in DOMAIN objs /\ n \in DOMAIN os
    BY <1>1, <1>2 DEF BoardsOf
  <2>2. QED
    BY <1>2, <2>1 DEF TypeInv, AreTyped, IsTyped
<1>5. LowsAreNumbers(os)
  BY <1>3, <1>4 DEF LowsAreNumbers
<1>6. SortedRow(os, row)
  <2>1. row \in Seq(BoardsOf(os))
    BY <1>3 DEF TypeInv, IInv, IsUnit
  <2>2. \A j, k \in DOMAIN row : j < k => os[row[j]].low < os[row[k]].low
    BY <1>1, <1>4 DEF Range
  <2>3. QED
    BY <1>3, <2>1, <2>2 DEF SortedRow
<1>7. Row(os) = row
  BY <1>5, <1>6, RowOfSorted
<1>8. read.row = row /\ read.rules = unit.rules /\ read.backs = ReadBacks(os, row)
  BY <1>1, <1>7 DEF ReadUnit
<1>9. DOMAIN read.backs = DOMAIN unit.backs
  BY <1>1, <1>3, <1>8 DEF ReadBacks
<1>10. ASSUME NEW n \in DOMAIN unit.backs, NEW side \in {"low", "high"},
              unit.backs[n][side].follows \in Range(row)
       PROVE  read.backs[n][side].follows = unit.backs[n][side].follows
  <2> DEFINE b == unit.backs[n][side].follows
             under == {c \in BoardsOf(os) : os[c].low = os[n][side]}
  <2>1. n \in DOMAIN os /\ os[n] = objs[n]
    <3>1. n \in BacksOf(os)
      BY <1>1, <1>3, <1>10
    <3>2. QED
      BY <1>2, <3>1 DEF BacksOf
  <2>2. os[b].low = os[n][side] /\ b \in BoardsOf(os)
    BY <1>1, <1>3, <1>4, <1>10, <2>1
  <2>3. \A c \in under : c = b
    <3>1. SUFFICES ASSUME NEW c \in BoardsOf(os), os[c].low = os[b].low PROVE c = b
      BY <2>2
    <3>2. PICK j \in DOMAIN row, k \in DOMAIN row : row[j] = c /\ row[k] = b
      BY <1>3, <2>2, <3>1 DEF Range
    <3>3. os[c].low \in Int
      BY <1>5 DEF LowsAreNumbers
    <3>4. ~(j < k) /\ ~(k < j)
      BY <1>6, <3>1, <3>2, <3>3 DEF SortedRow
    <3>5. DOMAIN row \subseteq Nat
      BY DEF TypeInv, IInv, IsUnit
    <3>6. QED
      BY <3>2, <3>4, <3>5
  <2>4. b \in under
    BY <2>2
  <2>5. (CHOOSE c \in under : TRUE) = b /\ under # {}
    BY <2>3, <2>4
  <2>6. \A offset : BackEdge(os, os[n][side], offset).follows
                      = IF under = {} THEN None ELSE CHOOSE c \in under : TRUE
    BY DEF BackEdge
  <2> HIDE DEF under
  <2>7. \A offset : BackEdge(os, os[n][side], offset).follows = b
    BY <2>5, <2>6
  <2>8. n \in BacksOf(os)
    BY <1>1, <1>3, <1>10
  <2>9. read.backs[n][side].follows = b
    BY <1>8, <2>7, <2>8 DEF ReadBacks
  <2>10. QED
    BY <2>9
<1> HIDE DEF read
<1>11. QED
  BY <1>1, <1>8, <1>9, <1>10 DEF read, os

\* What a read gives is in the document.
LEMMA ReadIsSync ==
  ASSUME TypeInv, Read
  PROVE  SyncInv'
<1> SUFFICES ASSUME open', ~stale' PROVE SyncInv'
  BY DEF SyncInv
<1>1. /\ objs' = objs /\ record' = record /\ Scans(objs) /\ unit' = ReadUnit(objs, record)
  BY DEF Read, document
<1> DEFINE row == Row(objs)
<1>2. /\ unit'.row = row /\ unit'.rules = StoredRules(row, record)
      /\ unit'.backs = ReadBacks(objs, row)
  BY <1>1 DEF ReadUnit
<1>3. Range(row) = BoardsOf(objs) /\ SortedRow(objs, row)
  BY <1>1, <1>2, ReadIsWhole DEF TypeInv, IInv, NamesInv
<1> HIDE DEF row
<1>4. \A j, k \in DOMAIN row : j < k => objs[row[j]].low < objs[row[k]].low
  BY <1>3 DEF SortedRow
<1>5. DOMAIN unit'.backs = BacksOf(objs)
  BY <1>2 DEF ReadBacks
<1>6. ASSUME NEW n \in BacksOf(objs), NEW side \in {"low", "high"},
             unit'.backs[n][side].follows \in Range(row)
      PROVE  objs[n][side] = objs[unit'.backs[n][side].follows].low
  <2> DEFINE under == {b \in BoardsOf(objs) : objs[b].low = objs[n][side]}
  <2>1. \A offset : BackEdge(objs, objs[n][side], offset).follows
                      = IF under = {} THEN None ELSE CHOOSE b \in under : TRUE
    BY DEF BackEdge
  <2>2. None \notin Range(row)
    BY <1>3, IdAssumption DEF BoardsOf, TypeInv, IInv, NamesInv
  <2>3. \A b \in under : objs[b].low = objs[n][side]
    OBVIOUS
  <2> HIDE DEF under
  <2>4. unit'.backs[n][side].follows = IF under = {} THEN None ELSE CHOOSE b \in under : TRUE
    BY <1>2, <2>1 DEF ReadBacks
  <2>5. unit'.backs[n][side].follows \in under
    BY <1>6, <2>2, <2>4
  <2>6. QED
    BY <2>3, <2>5
<1>7. QED
  BY <1>1, <1>2, <1>3, <1>4, <1>5, <1>6 DEF SyncInv

\* What is in a row has one slot there.
LEMMA SlotsOfRow ==
  ASSUME NEW row, row \in Seq(Range(row)), IsInjective(row)
  PROVE  \A k \in DOMAIN row : SlotOf(row, row[k]) = 2 * k
<1> SUFFICES ASSUME NEW k \in DOMAIN row PROVE SlotOf(row, row[k]) = 2 * k
  OBVIOUS
<1> DEFINE j == CHOOSE j \in DOMAIN row : row[j] = row[k]
<1>1. j \in DOMAIN row /\ row[j] = row[k]
  OBVIOUS
<1> HIDE DEF j
<1>2. j = k
  BY <1>1 DEF IsInjective
<1>3. QED
  BY <1>2 DEF SlotOf, j

\* The rules stored for a unit are the unit's.
LEMMA StoredAreRules ==
  ASSUME NEW u, u.row \in Seq(Range(u.row)), Whole(u)
  PROVE  StoredRules(u.row, RecordOf(u)) = u.rules
<1>1. \A k \in Regions(u.row) :
         /\ RuleKey(u.row, k) \in DOMAIN RecordOf(u)
         /\ RecordOf(u)[RuleKey(u.row, k)] = u.rules[k]
  BY RecordIs
<1>2. StoredRules(u.row, RecordOf(u)) = [k \in Regions(u.row) |-> u.rules[k]]
  BY <1>1 DEF StoredRules
<1>3. u.rules = [k \in Regions(u.row) |-> u.rules[k]]
  BY DEF Whole
<1>4. QED
  BY <1>2, <1>3

\* The backs of the document after an edit are those of the unit.
LEMMA WrittenAreBacks ==
  ASSUME TypeInv, open, ~stale, SyncInv, NEW name, NEW u, IsUnit(u), u.backs = unit.backs,
         Range(u.row) \subseteq Range(unit.row) \cup NewIds, Apply(name, u)
  PROVE  DOMAIN unit'.backs = BacksOf(objs') /\ PlacedBacks(objs', unit') = DOMAIN unit'.backs
<1>1. PICK names \in NewNames(objs, u) : WriteContainer(u, names) /\ unit' = Renamed(u, names)
  BY DEF Apply
<1> DEFINE w == Written(objs, u, names, doc)
<1>2. objs' = w /\ DOMAIN w = Kept(objs, u) \cup Range(names)
  BY <1>1 DEF WriteContainer, Written
<1>3. DOMAIN unit'.backs = BacksOf(objs) /\ DOMAIN u.backs = BacksOf(objs)
  BY <1>1, RenamedParts, ZenonT(40) DEF SyncInv
<1>4. ObjectsInv /\ DOMAIN objs \subseteq Names
  BY DEF TypeInv, IInv, TagsInv, NamesInv
<1>5. Range(names) \cap DOMAIN objs = {}
  BY <1>4, NamesAreNew
<1>6. \A n \in Range(unit.row) : n \in DOMAIN objs /\ objs[n].reads = "board"
  BY DEF SyncInv, BoardsOf
<1>7. Range(u.row) \cap BacksOf(objs) = {}
  BY <1>4, <1>6, IdAssumption DEF BacksOf
<1>8. PlacedBacks(objs, u) = BacksOf(objs)
  BY <1>3, <1>7 DEF PlacedBacks, BacksOf
<1>9. ASSUME NEW n \in BacksOf(objs) PROVE n \in DOMAIN w /\ w[n].reads = "back"
  <2>1. n \in PlacedBacks(objs, u) /\ n \in DOMAIN objs /\ n \notin Range(names)
    BY <1>5, <1>8 DEF BacksOf
  <2>2. n \in DOMAIN w /\ n \notin Matched(objs, u) /\ n \notin LeftAlone(objs, u)
    BY <1>2, <1>7, <2>1 DEF Kept, Matched, LeftAlone
  <2> HIDE DEF w
  <2>3. w[n] = PlacedBack(objs, u, n)
    BY <1>4, <2>1, <2>2, WrittenAt DEF w
  <2>4. objs[n].reads = "back" /\ IsObject(objs[n])
    BY <1>4 DEF BacksOf, ObjectsInv
  <2>5. QED
    BY <2>2, <2>3, <2>4 DEF PlacedBack, IsObject
<1>10. ASSUME NEW n \in DOMAIN w, w[n].reads = "back" PROVE n \in BacksOf(objs)
  <2> HIDE DEF w
  <2>1. CASE n \in Matched(objs, u) /\ w[n] = UpdatedBoard(objs, u, n, doc)
    <3>1. IsObject(objs[n])
      BY <1>4, <2>1 DEF Matched, ObjectsInv
    <3>2. w[n].reads = "board"
      BY <2>1, <3>1 DEF UpdatedBoard, IsObject
    <3>3. QED
      BY <1>10, <3>2
  <2>2. CASE n \in PlacedBacks(objs, u)
    BY <1>8, <2>2
  <2>3. CASE n \in LeftAlone(objs, u) /\ w[n] = objs[n]
    BY <1>10, <2>3 DEF LeftAlone, BacksOf
  <2>4. ASSUME NEW i, w[n] = CreatedBoard(objs, u, i, n, doc) PROVE n \in BacksOf(objs)
    BY <1>10, <2>4 DEF CreatedBoard
  <2>5. QED
    BY <1>4, <2>1, <2>2, <2>3, <2>4, WrittenAt DEF w
<1>11. BacksOf(objs') = BacksOf(objs)
  BY <1>2, <1>9, <1>10 DEF BacksOf
<1>12. Range(unit'.row) = Matched(objs, u) \cup Range(names)
  BY <1>1, <1>4, RenamedRow
<1>13. \A n \in BacksOf(objs) : n \notin Range(unit'.row) /\ n \in DOMAIN objs'
  BY <1>2, <1>5, <1>7, <1>9, <1>12 DEF Matched, BacksOf
<1>14. QED
  BY <1>3, <1>11, <1>13 DEF PlacedBacks

\* An edit leaves the session in step with the document.
LEMMA ApplyIsSync ==
  ASSUME TypeInv, FollowInv, SyncInv, TypeInv', NEW name, NEW u, IsUnit(u),
         u.backs = unit.backs, Range(u.row) \subseteq Range(unit.row) \cup NewIds,
         Apply(name, u)
  PROVE  SyncInv'
<1>0. open' = open /\ stale' = stale
  BY DEF Apply
<1> SUFFICES ASSUME open, ~stale PROVE SyncInv'
  BY <1>0 DEF SyncInv
<1>1. Settled(objs', unit', doc') /\ record' = RecordOf(unit')
  BY EditSettles DEF TypeInv
<1>2. DOMAIN unit'.backs = BacksOf(objs') /\ PlacedBacks(objs', unit') = DOMAIN unit'.backs
  BY WrittenAreBacks
<1> DEFINE row == unit'.row
<1>3. row \in Seq(Range(row)) /\ IsInjective(row) /\ Whole(unit')
  BY DEF TypeInv, IInv, IsUnit, Whole
<1>4. \A n \in Range(row) :
         n \in DOMAIN objs' /\ objs'[n].reads = "board" /\ objs'[n].low = SlotOf(row, n)
  BY <1>1 DEF Settled
<1>5. Range(row) \subseteq BoardsOf(objs')
  BY <1>4 DEF BoardsOf
<1>6. \A n \in BoardsOf(objs') \ Range(row) : ~HasTags(objs', n)
  BY <1>1, <1>2 DEF Settled, BoardsOf, BacksOf
<1>7. \A k \in DOMAIN row : row[k] \in Range(row) /\ k \in Int
  BY <1>3 DEF Range
<1> HIDE DEF row
<1>8. \A j, k \in DOMAIN row : j < k => objs'[row[j]].low < objs'[row[k]].low
  BY <1>3, <1>4, <1>7, SlotsOfRow
<1>9. unit'.rules = StoredRules(row, record')
  BY <1>1, <1>3, StoredAreRules DEF row
<1>10. ASSUME NEW n \in DOMAIN unit'.backs, NEW side \in {"low", "high"},
              unit'.backs[n][side].follows \in Range(row)
       PROVE  objs'[n][side] = objs'[unit'.backs[n][side].follows].low
  <2>1. objs'[n].low = BackLow(unit', n) /\ objs'[n].high = BackHigh(unit', n)
    BY <1>1, <1>2 DEF Settled
  <2>2. objs'[n][side] = SlotOf(row, unit'.backs[n][side].follows)
    <3>1. CASE side = "low"
      BY <1>10, <2>1, <3>1 DEF BackLow, EdgeAt, row
    <3>2. CASE side = "high"
      BY <1>10, <2>1, <3>2 DEF BackHigh, EdgeAt, row
    <3>3. QED
      BY <3>1, <3>2
  <2>3. QED
    BY <1>4, <1>10, <2>2
<1>11. QED
  BY <1>2, <1>5, <1>6, <1>8, <1>9, <1>10 DEF SyncInv, row

\* No action breaks SyncInv.
LEMMA SyncStep ==
  ASSUME TypeInv, FromInv, FollowInv, SyncInv, [Next]_vars
  PROVE  SyncInv'
<1>0. TypeInv'
  BY TypeStep
<1>1. CASE Create
  BY <1>1 DEF Create, session, SyncInv
<1>2. CASE Rescan
  BY <1>2 DEF Rescan, session, SyncInv
<1>3. CASE Read
  BY <1>3, ReadIsSync
<1>4. CASE Close
  BY <1>4 DEF Close, Closed, SyncInv
<1>5. CASE Next /\ step' \in Edits
  BY <1>0, <1>5, EditsApply, ApplyIsSync, ZenonT(40) DEF TypeInv, IInv
<1>6. ASSUME NEW ns \in SUBSET (untagged \cap DOMAIN objs), DeleteUntagged(ns) PROVE SyncInv'
  <2>1. /\ objs' = [n \in DOMAIN objs \ ns |-> objs[n]] /\ record' = record
        /\ unit' = [unit EXCEPT !.backs = [n \in DOMAIN unit.backs \ ns |-> unit.backs[n]]]
        /\ open' = open /\ stale' = stale
    BY <1>6 DEF DeleteUntagged, Restrict
  <2>2. /\ unit'.row = unit.row /\ unit'.rules = unit.rules
        /\ unit'.backs = [n \in DOMAIN unit.backs \ ns |-> unit.backs[n]]
    BY <2>1, SMTT(40) DEF TypeInv, IInv, IsUnit
  <2> SUFFICES ASSUME open, ~stale PROVE SyncInv'
    BY <2>1 DEF SyncInv
  <2>3. ns \cap Range(unit.row) = {}
    BY DEF TypeInv, IInv, ListInv, Unplaced
  <2>4. BoardsOf(objs') = BoardsOf(objs) \ ns /\ BacksOf(objs') = BacksOf(objs) \ ns
    BY <2>1 DEF BoardsOf, BacksOf
  <2>5. \A n \in BoardsOf(objs') \cup BacksOf(objs') : objs'[n] = objs[n]
    BY <2>1 DEF BoardsOf, BacksOf
  <2>6. Range(unit'.row) \subseteq BoardsOf(objs')
    BY <2>2, <2>3, <2>4 DEF SyncInv
  <2>7. \A n \in BoardsOf(objs') \ Range(unit'.row) : ~HasTags(objs', n)
    BY <2>2, <2>4, <2>5 DEF SyncInv, HasTags
  <2>8. \A j, k \in DOMAIN unit'.row :
           j < k => objs'[unit'.row[j]].low < objs'[unit'.row[k]].low
    BY <2>2, <2>5, <2>6 DEF SyncInv, Range
  <2>9. DOMAIN unit'.backs = BacksOf(objs')
    BY <2>2, <2>4 DEF SyncInv
  <2>10. \A n \in DOMAIN unit'.backs : \A side \in {"low", "high"} :
            unit'.backs[n][side].follows \in Range(unit'.row)
               => objs'[n][side] = objs'[unit'.backs[n][side].follows].low
    BY <2>2, <2>5, <2>6, <2>9 DEF SyncInv
  <2>11. QED
    BY <2>1, <2>2, <2>6, <2>7, <2>8, <2>9, <2>10 DEF SyncInv
<1>7. \A os : Hand(os) => SyncInv'
  BY DEF Hand, session, SyncInv
<1>8. \A n, o, spot, stock :
         HandAdd(n, spot, stock) \/ HandCopy(o, n, spot) \/ HandDelete(n) \/ HandLabel(n)
            \/ HandMove(n, spot) => SyncInv'
  BY <1>7, SMTT(40) DEF HandAdd, HandCopy, HandDelete, HandLabel, HandMove
<1>9. \A d, f : CopyUnit(d, f) => SyncInv'
  BY DEF CopyUnit, Closed, SyncInv
<1>10. \A name, u : Apply(name, u) => step' = name
  BY DEF Apply
<1>11. \A k, s, rule : Split(k, s) \/ DeleteBoard(k) \/ SetRule(k, rule) => step' \in Edits
  BY <1>10 DEF Split, DeleteBoard, SetRule, Edits
<1>12. CASE UNCHANGED vars
  BY <1>12 DEF vars, document, session, SyncInv
<1>13. QED
  BY <1>1, <1>2, <1>3, <1>4, <1>5, <1>6, <1>8, <1>9, <1>11, <1>12, Zenon DEF Next

\* ReadsBack, in a document that gives no name twice: what the session holds is
\* what reading the document would give (session.py _apply; record.py).
THEOREM SessionReadsBack ==
  ASSUME ~NamesReturn
  PROVE  Spec => []ReadsBack
<1>1. Init => TypeInv /\ FromInv /\ FollowInv /\ SyncInv
  <2>1. ASSUME Init PROVE unit = NoUnit /\ open = FALSE
    BY <2>1 DEF Init
  <2>2. QED
    BY <2>1, TypeInit DEF FollowInv, NoUnit, SyncInv
<1>2. TypeInv /\ FromInv /\ FollowInv /\ SyncInv /\ [Next]_vars
        => TypeInv' /\ FromInv' /\ FollowInv' /\ SyncInv'
  BY TypeStep, FollowStep, SyncStep DEF TypeInv
<1>3. TypeInv /\ SyncInv => ReadsBack
  BY SyncReadsBack
<1>4. QED
  BY <1>1, <1>2, <1>3, PTL DEF Spec
================================================================================
