# Verification of the Shelving workbench

A TLA+ development kept beside the FreeCAD Shelving workbench
(`freecad/Shelving`). It models the workbench's own logic (what an edit does to
the layout, how the layout is drawn, written to a document and read back from its boards,
how the in-view editor keeps two selections and a drawing in step, how an editing
session lives with FreeCAD's undo history), checks it with TLC on small
instances and proves the main results about the editing session, the layout, its
drawing, the write path and the in-view editor with TLAPS.

Paths below are relative to `freecad/Shelving/`.

## The system

A *unit* is a container in a FreeCAD document whose children are boards. The
unit's layout is a tree: a division runs along an axis and alternates regions
and boards; a region is a bay, a void or another division. Nothing of the tree
is stored but the sizing rules: the tree is recovered from the boards' geometry
whenever a unit is read.

| part | state it keeps | operations |
|---|---|---|
| layout (`core/layout.py`, `geometry.py`) | the tree: regions, boards, rules, fixed point, backs | constructors |
| solver (`core/solver.py`) | none | `solve`: sizes of the regions of every run |
| edits (`core/edit.py`, `stock.py`) | none (unit to unit) | split, merge, remove, resize, set size, set basis, lock, unlock, move a board, set thickness |
| write path (`container.py`, `properties.py`, `core/backs.py`) | the document's boards and their properties | `write_container`: match, create, rewrite, delete; `read_container` |
| record (`core/record.py`) | the stored rules property | key every region by its neighbouring boards, store and restore its rule |
| scan (`core/scan.py`) | none | boxes to tree: panels, grid, flood fill, cuts, backs |
| history (`editor/history.py`) | the open step, the pending transaction, the queued read-back | begin, end, settle, finish, the observer slots |
| session (`editor/session.py`) | the unit, its spaces, the selection, the drag | one method per edit, begin/drag/end, reload, close |
| board boxes (`core/expand.py`) | none | the box of every board of a solved unit |
| view editor (`editor/view_editor.py`, `fields.py`) | what is drawn, the typed field, the arrow, the callbacks waiting in Qt's queue | clicks, drags, fields, padlocks, add buttons, Delete, camera |
| panel (`editor/panel.py`, `stock_dialog.py`) | widgets | refresh, resize, the stock list, closing |
| elevation (`editor/elevation.py`, `overlay.py`) | none | the frame of the face drawn, dimensions, arrow, padlock |
| commands (`commands/`, `unit_ops.py`, `refusals.py`) | none | create, edit, export |
| QA wizard, debug log, tools (`qa/`, `debug_log.py`, `temp_dirs.py`, `tools/`) | progress file, log lines | manual test support |

How they interact: the panel and the view editor call one session method per
user action; the session settles the history, computes a candidate unit with a
function of `core/edit.py`, opens a step, has `solve` check it and
`write_container` write it, adopts it and closes the step. FreeCAD calls the
history back from inside its own transaction, Undo and Redo code; the history
tells the session at once when a step is cut short, and queues a read-back
(`reload`: `read_container`, `scan`, `with_stored_rules`, `solve`) for when
FreeCAD has finished.

### What is hard, part by part

| part | what is hard | what makes it correct |
|---|---|---|
| edits, solver | weights are recomputed so that nothing moves; a removal may collapse a division and splice its neighbours into the run above; locked openings, measured clear or to the next board | nothing moves but what the edit is of; locks hold; every run keeps an opening that can absorb a resize; no division lies in a run along its own axis |
| write path, record, backs | identity is FreeCAD's `Name`, known only once a board exists; tags travel with copies; the session's tree, backs and stored rules name boards that hands and writes delete, copy and rename | a write leaves a document that reads back as what was written, and deletes, relabels and moves nothing else |
| history | FreeCAD's transactions open, commit and close as side effects of one another; Undo and Redo arrive between any two events | one user action is one undo step, and the history is a line |
| session | the unit is a cached reading of a document that others change | the unit shown is the document's, and no edit starts from an older one |
| scan | floats near the snap and the clearance; a tree from rectangles | a layout that is written and read back is the same layout |
| view editor, panel | queued callbacks, two selections that follow each other, a typed field that ends in three ways | a value is applied once, to what it was typed for; a rebuild never runs on a closed editor |

Everything runs on the GUI thread. What is hard is order: Undo, Redo and other
commands come between any two events of a drag, read-backs run later than the
signals that ask for them, and FreeCAD's transactions open, commit and close as
side effects of one another.

## Modules

| module | models | composes |
|---|---|---|
| `LinearHistory` | what an undo history promises | |
| `EditHistory` | `editor/history.py`, the steps of `editor/session.py`, FreeCAD's transactions | implements `LinearHistory` |
| `EditHistoryProofs` | proofs about `EditHistory` | |
| `ContainerProofs` | proofs about `Container` | |
| `ViewEditorLemmas`, `ViewEditorProofs` | proofs about `ViewEditor` | |
| `LayoutProofs` | proofs about `Layout` | |
| `SizeProofs` | the laws of `Fractions`, proofs about `Tree` and about sizes in `Layout` | extends `LayoutProofs` |
| `GeometryProofs` | proofs about what the edits of `Layout` move, and about `Elevation` | extends `SizeProofs` |
| `FoldTheorems` | what a fold over a list does, for any step and any invariant | instantiated by `ViewEditorLemmas`, `LayoutProofs`, `SizeProofs`, `GeometryProofs`, `ContainerProofs` |
| `Fractions` | lengths and weights | |
| `Tree` | `core/layout.py`, `core/solver.py` | extends `Fractions` |
| `Layout` | `core/edit.py`, `core/stock.py`, what `editor/session.py` makes of them | extends `Tree` |
| `Elevation` | `editor/elevation.py` | extends `Layout` |
| `Scan` | `core/scan.py`, `core/expand.py` | extends `Tree` |
| `Rescan` | `core/record.py`, writing and reading a whole tree in `container.py`, `unit_ops.py`, `editor/session.py` | extends `Layout` and `Scan` |
| `Container` | `container.py`, `properties.py`, `core/record.py`, `core/backs.py`, reading and writing in `unit_ops.py` and `editor/session.py` | |
| `ViewEditor` | `editor/view_editor.py`, what `fields.py`, `panel.py` and `session.py` do for it | |
| `MC...` | the instances TLC checks | |

The models meet at the unit. `EditHistory` takes a unit to be one value, and asks
when it is read and written; `Layout` asks what an edit does to it, `Elevation` what
is seen of it; `Rescan` asks whether a unit survives its own boards, `Container` what
writing and reading do to the document's objects; `ViewEditor` asks which edit a
gesture ends in.

### EditHistory.tla - the session and the document's history

One action per call. `pc` names the call of the running handler that comes
next, `job` the handler; at `pc = "idle"` the user, Qt's timer and other
commands take turns in any order. FreeCAD's document (`content`, `undo`, `redo`,
`active`, `rec`, `guiList`) is external code, modelled from how `history.py` uses
it and what its comments and tests say of FreeCAD: `openTransaction` commits the
recording before it opens, an opened transaction records from its first change,
the first change drops the Redo list, Undo commits an open recording first, an
Undo or Redo leaves the active transaction alone.

| model | code |
|---|---|
| `Begin`, `EndStep`, `End`, `Finish` | `EditHistory.begin`, `end`, `_close_pending`, `finish` |
| `slotCommitTransaction`, `Moved`, `Undo`, `Redo` | the observer slots and `_moved` |
| `SettleFirst`, `SettleBegins`, `SettleTimer` | `settle` called by an edit, or by the queued timer |
| `NothingToEmpty` .. `PutBack` | `_empty_gui_list`, one action per command it runs |
| `Reload` | `Session.reload`, and the panel closing when the unit is lost |
| `Edit`, `Refuse`, `Accept`, `Write*`, `PaintRaises` | the edits of `Session`, `_step` and `_apply` |
| `BeginDrag`, `DragTo`, `DragRaises`, `EndDrag` | the drag |
| `Other*`, `BareChange` | commands and changes that are not the session's |

The unit and the boards are one value of `Val`; `Unreadable` is a document in
which the unit no longer scans or solves. A step remembers whose name it
carries, whose changes it holds and the boards it puts back. `mark` is a
history variable for `EmptyingMovesNothing`.

`Interference` switches on what may cut across a session: a key that starts an
edit during a drag, another command during an unwritten drag or before a
read-back, a command that leaves its transaction open, a Redo that does not
run, a unit that no longer reads though its container is still there, writes
that fail late. With none of them every property holds; the run `edit_in_drag`
switches on the first, and `session_interference` those that leave the history
a line.

Three properties carry the weight. `UnitIsCurrent`: between handlers, with no
read-back queued and the session open, the unit is the document's.
`WritesFromTheDocument`: no write starts from another unit than the document's.
`StepsAreOneHands`: a step under the session's name holds the session's changes
only. `NothingLeftOpen`, `DragHoldsItsStep`, `EmptyingMovesNothing` and
`GuiListIsAlive` say what they rest on; `SessionKeepsUp` is the liveness of the
session: what is queued is read back, and Close ends. `SessionInv` and
`RefusalLeavesNoStep` are proved and not run.

### LinearHistory.tla - what an undo history promises

Past, present and future; an edit puts a state after the present one, Undo and
Redo walk the line. `EditHistory` implements it under the mapping `Line`: a drag
of any number of writes is one `Do`, a refused edit none, an Undo in the middle
of a drag never leaves a half-made state on the line.

### Tree.tla, Layout.tla - the layout and its edits

A unit is a record whose fields are functions on node identifiers: `items` and
`axis` for the divisions, `rule` for every node, `thick` for the boards, `pinned`
for the boards that keep a measured size, `space` for what the solver gave each
node. `Solved(u)` is `solve`, `Solves(u)` that it raises no `LayoutSolveError`;
`distribute`, the `WITH_NEXT` spacing and the placing are `Distribute`, `FixedMm`
and `Spaces`.

Lengths and weights are exact fractions. The program computes in floats and
compares with a tolerance of 1e-6 mm; exact arithmetic without a tolerance is
what that tolerance stands for. Only the two elevation axes are modelled:
nothing divides the depth.

Every edit has a condition (`CanSplit`, `CanMerge`, `CanFix`, `Movable`, ...),
false where the code raises `EditError`, and a layout it makes (`SplitRegion`,
`MergeAt`, `SetSize`, `Lock`, `MoveBoard`, ...). An action is the session's method:
it takes the edit where its condition holds and the result solves (`Apply`). The
nearest board a new one is cut like (`SourceBoard`) is chosen as `stock.py` chooses it.
An exception that leaves a method is recorded in `step.outcome`.

What the properties say. `EditsMoveTheirOwn`, a conjunction of five: locking,
unlocking, a change of basis and of the fixed side move nothing
(`RulesMoveNothing`); a split and a removal move nothing outside what they divide
or join (`SplitsMoveNothing`, `RemovalsMoveNothing`); a drag resizes two regions
and carries what lies between (`DragsAreLocal`); a resize leaves the other axis
alone (`ResizesAreOfOneAxis`). `LocksHold`: locked regions keep the size they
show, but where the edit is of that region, or a removal is beside it in the layout the
removals before it left. `RunsKeepOneUnlocked`: no edit leaves a run with nothing unlocked.
`NoSameAxisNesting`: nor a division along the axis of its run.
`GeometryEditsSolve`: edits that keep the geometry around them are never refused by the
solver; a split across a run, a removal and a drag under a condition each, found by
proving it (see *Proofs*). `MergeRestoresSplit`: removing the board a split put in
restores the layout up to the rule of the joined region.

`MCLayout` starts from eight units: the one the Create command makes (`Plain`),
three columns with and without locks (`Columns`), a tall beside a short column
with the void and the wrapped side a scan makes of it (`Stepped`), an irregular
shelf (`Notched`), nested runs with weights and a spacing (`Shelves`), a column of
compartments divided again beside one narrower than a board (`Nested`), and one whose
openings a hand edit left all locked (`Doubled`, from which `RunsKeepOneUnlocked` is not
asked, since no edit made it).

### Elevation.tla - what is drawn over the unit

The frame of the face drawn (`Frame`, `FromUnit`, `Rect`), the names of the sides a
resize keeps (`FixedChoices`), the dimensions and their rows (`Dimensions`,
`OuterRow`), the drag arrow (`ArrowPlace`, `DraggedTo`, `Dragged`) and the padlock of a
held board (`ShowsPadlock`) are operators on a unit of `Layout`, in the frames of
both ends of the depth. Depth and insets are left out.

`FixedSidesStay`: the side the field names stays where it is on the screen.
`DragsFollowTheArrow`: a board goes where its arrow is pulled, and stops short only
where its opening has no more to give. `PadlockGivesArrow`: unlocking what holds a
board puts its arrow where the padlock was. `DimensionsAreTrue`: a dimension is as
long as the size it shows, and no two lie over each other.

### Scan.tla, Rescan.tla - from boards back to a layout

`Scan` is `core/scan.py` and `core/expand.py`: thin axes and panels (`Panels`,
`PanelReading`, `Facing`, `Backs`), the grid and the flood from outside (`SnapLines`,
`Grid`, `Flood`), the cuts (`CleanLines`, `Cut`, `Divided`), slabs, gaps and wrapped
sides (`Reaches`, `IsWrap`, `EnclosedGap`), the rules recovered from sizes
(`ItemRule`), the refusals in the order the code meets them (`Refusals`), the unit
(`UnitOf`), and the boxes of a unit (`Expand`). It has no state.

`Rescan` puts an editing session round it: an edit of `Layout` writes the boxes
and the stored rules of the whole tree (`RulesOf`, `RuleKey`), a hand slides,
stretches, deletes or replaces a board, and `Reload` scans and merges the stored
rules (`MergedWith`, `WithStoredRules`). `Displaced` names the boards that lie in a
container of their own whose placement is not the identity.

`ReloadKeepsLayout`: a unit nobody touched reads back as the layout written; where
it has voids this is asked only of the edits that move no board (see the
disagreements). `GeometryWins`: after a change by hand the unit read has its faces
where the boards' are, whatever sizes are stored. `IntentSurvives`: an opening
between the same two boards keeps its lock and its measure. `WindowsAreWhole`: no
window of the recursion is crossed by a board or partly open to the outside.
`MirrorTurnsFacing`: a unit turned round faces the other way.

### ViewEditor.tla - the in-view editor

One action per event of the user or of FreeCAD (`User`), one for the next callback
of Qt's queue (`RunJob`). The state is a record per part: `session` (its row, its
selection, its drag), `document` (the row, the rows Undo gives back, whether a
read-back is pending), `picked` (FreeCAD's selection), `jobs` (the zero timers, first
in first out), `editor` (its attributes), `view`. A handler is an operator from one
state of all six to the next, called as the code calls it: `Rebuild`, `Select`,
`FollowNow`, `OpenField`, `Finish`, `LeaveField`, `ToggleLock`, `UnlockHeld`, `AddBoard`,
`DeleteSelected`, `DragTo`, `SwitchSide`, `Close`. The unit is one row of openings: a
size is the number of the edit that gave it, so that a value typed once and
applied twice, or to another opening, shows.

`DrawingIsCurrent`: unless a redraw is queued, drawing, arrow, padlock and buttons
show the session's unit and selection, and, unless the turn is queued, from the side
the camera sees. `BoardsAreHeld`: unless a callback is to
follow, FreeCAD holds selected the boards the session does. `TypedSizesLand`: a size
is only given to the opening whose dimension was clicked, once, and not from a
field that was closed. `PadlocksDoWhatTheyShow`: a press on a padlock changes the
opening it was drawn beside though an Undo has put other boards there.
`DeletesWhatIsDrawn`: the Delete key removes only what is shown selected.
`EditorSettles`: once the user stops, the two selections stop following each other
and no flag stays behind.

### Container.tla - the write path

The unit is one run of boards, a region between each two. A board's place is a
slot: a write spreads the boards over the even slots and a hand may put one
between, or a back over two; identities, tags, labels, stocks, stored rules and
the boards backs follow depend on no more of the geometry. The document is
`doc`, `objs` (by `Name`), `record` (`ShelvingRules`); `given` is what FreeCAD's
naming depends on. The session keeps `open`, `unit`, `untagged`.

| model | code |
|---|---|
| `Matched`, `Missing`, `UpdatedBoard`, `CreatedBoard`, `CreatedStock`, `PlacedBack`, `LeftAlone`, `Kept`, `Written`, `WriteContainer` | the passes of `write_container` |
| `HasTags`, `IsCopy`, `Adopts` | `has_board_properties`, `is_copy` |
| `RecordOf`, `StoredRules`, `RuleKey` | `rules_to_json`, `with_stored_rules`, `rule_key` |
| `BackEdge`, `ReadBacks`, `BackLow`, `BackHigh`, `BacksFit` | `_edge`, `_backs` (`core/scan.py`), `place_backs` |
| `Renamed` | `renamed_board_ids`, `renamed_back_boards` |
| `Row`, `Below`, `Overlaps`, `Scans` | `scan`: a board's place in the row is the number of boards below it, and boards that overlap are refused |
| `ObjectStocks`, `CopyStock` | `objects_by_id`, `copy_stock`: the copies, one board of the row after another |
| `ReadUnit`, `Unplaced`, `Read` | `_read_unit`, `_unplaced`, `reload` |
| `Split`, `DeleteBoard`, `SetRule`, `DeleteUntagged` through `Apply` | the session's methods and `_apply` |
| `Create`, `Rescan` | `create_unit`, `rescan_unit` |
| `Hand...`, `CopyUnit` | what a user does in FreeCAD; `stale` until the session reads it |

A change made by hand outside a command need not be read back before the next
edit, so every edit is also checked on a stale unit. `SecondWriteIsQuiet` says
an edit leaves nothing for a second write to do; `ReadsBack` that the session's
unit is what a fresh read gives: row, rules and what backs follow;
`ListIsKept` that the panel's list is exactly what an edit keeps;
`LabelsSurvive`, `StocksAreCopied` and `BacksKeepTheirBoards` that labels, stocks and
followed boards come through creation, adoption and renaming.

`NamesReturn` says whether FreeCAD may give a deleted object's `Name` to a new
one. It may; a back then follows a new board that has the `Name` of the one it
lost, and `ReadsBack` and `SecondWriteIsQuiet` fail by that alone. The run `container`
takes names to be new.

## Runs

| run | question | bounds |
|---|---|---|
| `session` | the safety and the liveness of the history and the session, nothing interfering | 2 unit states, 3 undo steps |
| `session_interference` | what still holds when commands interfere and writes fail: `EmptyingMovesNothing`, `HistoryIsLinear` | 2 unit states, 2 undo steps |
| `layout_edits` | the tree's invariants and what every edit moves | two edits in a row on seven units |
| `layout_solves` | the edits that keep the geometry, and the drawing with its gestures | one edit, two boards selected, on eight units; drags by 1 and 50 mm both ways |
| `container` | every property of the write path | 4 names, 2 documents, 2 stocks, 3 writes, 2 changes by hand |
| `rescan` | the round trip of a layout through its boards, and changes by hand | one edit or change by hand, five units with a door |
| `view` | every property of the view editor | 2 boards, 3 openings, 5 events, 1 callback overtaken |
| `edit_in_drag` | disagreement | as `session_interference` |
| `deletion_escapes` | disagreement | one edit, two boards selected |
| `hand_built_deletion` | disagreement | as `container`, 1 document |
| `nested_board` | disagreement | as `rescan`, columns only |
| `stale_field` | disagreement | as `view`, no callback overtaken |

Why the bounds are enough. Two unit values tell a current unit from a stale one;
three steps give a list with the user's, the session's and another command's
step in any order. A second edit meets whatever a first leaves behind (rules,
weights, collapsed divisions); the units are chosen so that each branch of
`core/edit.py` is taken. Three writes and two changes by hand let a board be
created, copied or deleted by hand, adopted, and written once more, and four
names make room for two boards, one between them and a back. Node identifiers
are never used up in `layout_edits`, and a write that finds no free name is
not taken.

The units of `rescan` are units of `MCLayout` five times as large, so that openings
are wider than the clearance (3 mm); one has a shelf inset from its compartment
and its front, one an irregular shelf, one voids and a wrapped side, all a door in
front. A hand slides a board by less than the snap (a quarter of a millimetre) or by
20 mm, or cuts 2 mm, less than the clearance, off its end. A reading starts from the
boards alone, so that one change is enough to meet each of its branches.

In `view` five events are enough for a click, a typed value, an Undo and a press
with their callbacks between them. `MaxEvents` and `MaxWaiting` stop the user only,
never a callback. One assumption on the user: an arrow is pressed after what the
last click or the last release left to do (`Unanswered`), since its press is a hand's
and those are timers of zero.

Deadlock is not checked where a bound stops a behaviour (`layout_*`, `container`,
`rescan`, `view` and their companions).

Fairness. Qt runs a queued single shot and a handler that has started goes on
(`Settling`, `Editing`); another command that has opened its transaction
commits it and an Undo that has committed the recording goes on. In `ViewEditor`,
Qt runs every callback it was given; the formula is `WF_vars(RunJob)` written
out, `RunJob` being enabled whenever the queue is not empty. The user owes
nothing.

## Where the code and its documents disagree

Each of these is a run that ends in a counterexample:

- `edit_in_drag`: the Delete key during a drag that has written something leaves
  its transaction open.
- `deletion_escapes`: `delete_boards` lets `LayoutSolveError` out where an irregular
  board would have to be reshaped by the first of two removals.
- `hand_built_deletion`: a board built by hand and deleted before any edit has
  tagged it stays in the document, and the next read puts it back.
- `nested_board`: a board in a container of its own that has been moved is written
  in the unit's frame (`container.py:598`), so that locking any opening, which
  "moves nothing" (the repository's `README.md:81`), carries it away.
- `stale_field`: an add button leaves the size field of the opening it splits; the
  value typed there selects the opening that is gone.

Others, met while modelling and not kept as runs.

History and session:

- another command's step during a drag that has written nothing is taken for the
  drag's own (`history.py:153`), and never read back (`history.py:29`, `:118`);
- an edit whose own settle finds the unit unreadable goes on from the unit before
  (`session.py:359` against `:287`);
- a swap of stock that fails after `_apply` leaves the session at the unit the
  document has dropped;
- a command between an Undo and its read-back can free the view providers the
  emptying Redo walks; so can the first edit of a session, where the list was
  filled before it opened (`history.py:70`).

Layout and write path:

- a split and its removal do not restore a spacing or a lone weight
  (`core/edit.py:9` says "exact inverse");
- a split of a bay thinner than the new board, across its run, is no `EditError` but is
  left to the solve (`core/edit.py:160` says `EditError` of any "`Bay` too small to hold
  the new board"; only the split along the run checks it);
- a lone resize of a stepped unit turns a bay into a void on the next read, though
  `core/edit.py:613` says the tree is unchanged; removing a board between a bay and
  a void may make the unit unreadable: the exceptions of `ReloadKeepsLayout`;
- a split may leave halves narrower than the clearance, which the next read drops,
  though a drag is kept clear of that (`core/edit.py:768`);
- a board a hand leaves short by less than the clearance is written back to its
  slab's end, where `docs/scope-and-design.md:131` says sizes come from the boards; a gap of
  a millimetre or two in the shell floods the unit;
- `is_copy` takes a board relocated under its `Name` for a copy and relabels it
  (`docs/scope-and-design.md:237` says relocation); a tagged copy that a scan sets
  aside is deleted by the next edit, unlisted;
- a back remembers a deleted board by `Name`, and follows a new board that is given
  it (`core/backs.py:61`);
- regions with no board on either side share one key (`core/record.py:16` says two
  regions never collide).

View editor:

- with a field open, a pick in the tree, and the value then typed, the session's
  selection and FreeCAD's can disagree; so can they after a drag begun in the pass
  of another pick;
- `_camera_moved` and `_switch_side` decline during a drag, but a rebuild during
  one switches the face drawn;
- a row of the stock list does nothing once the view is closed under the editor;
  a view closed during a drag leaves the drag's step open until Close;
- a field opened from a timer queued before a settle or a split names an id that
  is gone, and one queued before the view went away raises `AssertionError`;
- a board right after another board gets no arrow though it can be moved.

## Proofs

`EditHistoryProofs.tla` proves about `EditHistory`, for every set of unit states
and every bound on the lists:

- `TypeCorrect`: `Spec => []TypeOK`, whatever interferes. The invariant is split
  into the document's data (`DataOK`) and the flags and control (`FlagsOK`); the
  lemmas before them give the type of what each operator returns.
- `SessionCorrect`: `Spec => []SessionInv`, provided nothing interferes but a Redo
  that does not run (`Interference \subseteq {"redo_refused"}`). `UnitIsCurrent`
  is not inductive: it says nothing of the middle of a handler, where the unit
  and the document differ. `SessionInv` (`StepInv`, `TransactionInv`, `ControlInv`
  and `CurrencyInv`) says for each `pc` which of the unit, the
  recording and the queued read-back account for the difference, that an open
  step is the drag's or the running edit's, and that a pending transaction that
  nothing filled is remembered. Init gives it, each action keeps it (`SessionStep`,
  one case per action, the commands of `_empty_gui_list` among them), and it
  gives the rest.
- `UnitCurrent`, `DragSafe`, `NothingOpen`: the invariants; `WritesCurrent`,
  `RefusalClean`: the action properties, from the same invariant.

Its second half is about the lists:

- `StepsMakeALine`: `Spec => HistoryIsLinear`, the refinement of `LinearHistory`. The
  assumption (`Recordable`) leaves out what can cut a recording in two: an edit
  or another command's unwritten step in the middle of a drag, and a unit that is
  unreadable though its container is there. Everything else may interfere.
  Two invariants are needed: a recording has no states ahead of it, and none is
  open while a step moves from one list to the other (`RecordingInv`); a change is
  made only where a transaction is there to record it, or where the unit cannot
  be written (`RecordedInv`). Lemmas on `Front`, `Last` and `Append` of the lists seen through the
  mapping (`BeforesFront`, `BeforesAppend`) carry each Undo, Redo and commit to a
  step of the line.
- `EmptyingTakesItBack`: `Spec => []EmptyingMovesNothing`, whatever interferes.
  `EmptyingInv` says of each point of `_empty_gui_list` how the lists differ from
  the `mark` settle left.
- `OneUndoOneHand`: `Spec => []StepsAreOneHands`, under the assumption of
  `SessionCorrect`. `HandInv` adds that a recording is its opener's: the session's
  while its step is open, another command's otherwise.
- `GuiAlive`: `Spec => []GuiListIsAlive`, nothing interfering. `GuiInv` says that a
  list with live entries is one the session has noted, with a read-back queued
  or running, so that nothing records before it is emptied. The weaker
  assumption would not do: a Redo that does not run leaves the list as it is.

The assumptions are those the module declares: `Unreadable` is no unit state,
the bound is a natural number, `Interference` is made of the kinds named.

`ContainerProofs.tla` proves about `Container`, for any number of names, documents,
stocks, slots, writes and changes by hand:

- `LabelsKept`: `Spec => LabelsSurvive`. `TagsInv` says that what the workbench made
  carries its own tags, so that no write takes it for a copy.
- `ListKept`: `Spec => ListIsKept`, and `BacksKept`: `Spec => BacksKeepTheirBoards`.
  `IInv` adds that objects have names of the document, that the unit is one (its
  row a sequence, its edges records), and `ListInv`: while the session follows the
  document its list is what a write would keep. The lemmas on rows (`JoinedRows`,
  `InsertedRow`, `RemovedRow`) and on renaming (`RenamedParts`, `RenamedRow`) say
  which boards an edit's unit has before and after its write; `EditsApply` that an
  edit is one such write.
- `EditsAreQuiet`: `Spec => []SecondWriteIsQuiet` where `NamesReturn` is false. A unit
  just written has settled (`Settled`): each board stands at its slot with its tags
  (`RenamedSlots`, `WrittenBoards`), each back at its edges (`RenamedEdges`,
  `WrittenBacks`), and a settled unit is written to no effect (`WrittenAgain`).
  `FollowInv`, that a followed board had its name before, is where the assumption is
  needed: a name given again could be one a back remembers.

- `ContainerIsTyped`: `Spec => []TypeOK`. `TypeInv` adds to it `IInv` and what `Whole` says
  of the unit, a rule for each region and a distance for each edge of a back, which a
  write turns into places. `SplitIsWhole`, `DeletionIsWhole` and `RuleIsWhole` say it of
  the unit each edit writes, `ReadIsWhole` of what a scan gives. That rests on
  `RowIsSorted`: boards that do not overlap have one rank each, so that the row names
  every board, each once, from low to high.
- `StocksCopied`: `Spec => StocksAreCopied`. The copies are a fold over the row, and
  `StocksOfNew` follows what is copied so far (`CopiedSoFar`) through it with
  `FoldTheorems`. `FromInv`, that sources are known for boards of the unit only, is
  needed: a deletion forgets the source of what it takes out.
- `SessionReadsBack`: `Spec => []ReadsBack` where `NamesReturn` is false. `SyncInv` says of
  the document what `ReadsBack` says of reading it: while the session follows the
  document, its boards stand in the order of its row and every other board is
  untagged, the stored rules are its own, its backs are the backs, each edge where the
  board it follows is. A read gives it (`ReadIsSync`), an edit keeps it
  (`ApplyIsSync`, from the settled unit of `EditsAreQuiet`), and so does deleting what the
  panel lists, since `ListInv` keeps the unit's boards off the list. `SyncReadsBack` turns
  it into the property: `RowOfSorted`, that boards standing in the order of a row are
  read as that row.

The assumptions: `None` and the ids of new boards are no names, and there is
such an id; what a user gives a part is a stock, and where a hand puts one is a
number; the bounds are natural numbers.

`ViewEditorProofs.tla` proves about `ViewEditor`, for every set of board names, every
number of openings and every bound on events and waiting callbacks, each safety
property of the run `view`:

- `EditorIsTyped`: `Spec => []TypeOK`; `DrawingStaysCurrent`: `Spec => []DrawingIsCurrent`;
  `BoardsStayHeld`: `Spec => []BoardsAreHeld`.
- `TypedSizesStayPut`: `Spec => TypedSizesLand`; `PadlocksAreTrue`:
  `Spec => PadlocksDoWhatTheyShow`; `DeletesStayDrawn`: `Spec => DeletesWhatIsDrawn`.
- `FlagsKeepCallbacks`: a flag that a change is queued is never up without its
  callback; what `EditorSettles` rests on, and no run states.

All follow from `EditorIsGood`, `Spec => []Inv`. None of the properties is inductive:
a handler reads the session, both selections, the document and what was drawn, and
each may be stale in its own way. `Inv` is `Good(World)`, a predicate on a whole world,
so that it can be said of the worlds a handler passes through as well as of those
between two events. Its parts:

- `Rows`, `Selection`, `Picks`, `Waiting`, `Attributes`, `Shaped`: what each part of the
  world holds. The document stores the session's unit but for an Undo not yet read
  back; the session's selection names boards of the unit, or openings, which may be gone;
  FreeCAD's names what is in the document and what the gate admits.
- `Flagged`: flags have their callbacks. Without it a change queued while a flag is left
  behind would be lost, and the drawing with it.
- `Shown`: the drawing has the unit's boards, openings and locks even where it is not
  current in everything. It is why a label, a padlock or a click by place means what it
  did when it was drawn, until an Undo, and why the Delete key removes what is drawn.
- `Current` and `Held`: the properties, of any world.
- `Drag`: while the mouse drags, nothing waits that would select something else or open
  a field, the dragged board is all that is selected, and no Undo is unread. A move of
  the drag edits without redrawing, so it has to leave `Shown` as it is.

`Base` is what holds even in the middle of a handler, `Core` what an edit's handler has
before it draws. The lemmas go up from lists (`WithinFacts`, `RemoveAtFacts`,
`HalvedFacts`) through the row (`MergedFacts`, `RemainingFacts`, `SplitFacts`,
`ReadFacts`), the queue and the two selections, the redraw (`RebuildFacts`), the
read-back (`SettleFacts`), the session's operations (`ApplyFacts` and those after it) and
the handlers, to one lemma per action (`...IsSound`). A size is a size of the next edit
only where `FieldSize` gave it: every other handler is `Fine`, good and with no such size
behind a lock. A lemma that the properties do not state and the proof needs: ids that an
Undo's read-back gives are mentioned by nothing that waits (`ReadBackFacts`, `Mentioned`),
so a stale click, field or padlock names nothing rather than another opening.

The proof corrected the model. `RemoveNow` had failed where one removal takes a
board that a later one names, which `remove_boards` skips; `Click` had acted on a
view that is gone after closing the field; `DrawingIsCurrent` had said nothing while a
turn was queued; and a drag could be begun between a release and its queued redraw.

*Induction over lists.* The folds of `ViewEditor` (`Within`, `NewIds`, `Remaining`,
`Followed`) run over lists of any length. The library's induction theorems take an
operator as an argument, which the provers cannot give them; `FoldTheorems` has the
step and the invariant of a fold as operator constants instead, proves by well-founded
induction on a set that the invariant is kept (`FoldInvariant`), and is instantiated
once for each fold.

The assumptions: boards, the shell and what the scan set aside have different names,
none of which is an id or `None`; `None` is no field; the boards are finitely many and
one more than a row of `MaxOpenings` has (a new board finds a name); `MaxOpenings` is at
least two, as the first unit has two openings.

`LayoutProofs.tla` proves about `Layout`, for trees of any size and depth, any sizes,
stocks and number of edits:

- `UnitIsLayout`: `Spec => [](IsLayout(unit))`. The unit is one finite tree, the
  structural part of `TypeOK`.
- `EditsKeepRuns`: `Spec => [][...]_vars`. No edit takes away what
  `RunsKeepOneUnlocked` or `NoSameAxisNesting` says of the layout before it. No
  assumption is made on the layout opened: a hand edit can leave one that has neither.
- `RunsStayUnlocked`: `Spec => []RunsKeepOneUnlocked`, where the layouts opened have it;
  `NestingNeverComes`: `Spec => []NoSameAxisNesting`, likewise. Every unit of
  `layout_edits` meets both assumptions; of those of `layout_solves`, `Doubled` does not
  meet the first.

`Inv` is `Struct(unit)`, that every node has a place, and that there are identifiers for
the edits still to come. `IsTree` says by paths what a tree is, and no edit can be seen
to keep that: what a collapse does to the path of a node far below says nothing of the
run it changes. `Struct` says it run by run, runs without repetition and without a
member in common, and in place of paths has a rank that rises from a division to its
members. `LayoutIsStruct` and `StructIsLayout` show that the two are one, from the
recursion by which `PathOf` is defined (`StepsExist`, `PathStep`).

`Keeps(u, v)` is what an edit owes: `v` is a layout, flat and unlocked in every run if `u`
is. It is transitive, so it passes through the removals of `RemoveBoards` and the unlocks
of `UnlockHolders`, both folds (`FoldTheorems`). There is one lemma for each
operator that makes a layout: `WithRuleFacts` for a rule, where `CanFix` is what keeps the
run unlocked; `SplitFacts`, from `SplitAlong` (three members for one) and `SplitAcross` (a
new division across the run); `MergeFacts`, from `JoinedFacts`, that the joined region is
locked only where both were, and `PromotedFacts`, with a case for the root
(`PromotedToRoot`), for a member that takes its division's place (`PromotedInPlace`) and
for a division whose run is spliced into the one above (`PromotedSpliced`). `SpliceFacts`
says which members and what length a spliced run has. Each finds the rank of the new
tree from that of the old.

The assumptions: `StartAssumption`, that the layouts opened are such trees and that the
identifiers, if they are finitely many, are enough for the edits of a behaviour, four for
each (a uuid4 never runs out); `FrameAssumption`, that the units opened have a size above
zero on each axis and that so has every size typed for one (`set_unit_size` refuses
others). TLC evaluates them in every run on a unit.

`SizeProofs.tla` proves about sizes, for runs of any length and any fractions.

*Fractions.* `GcdFacts`: Euclid's algorithm as `Gcd` writes it gives the greatest common
divisor, by induction on the second number. So `Frac` is in lowest terms (`FracFacts`), two
lowest terms of one value are the same pair (`ReducedEqual`), and `FracEqual`: two fractions
are one value exactly where their cross products agree. `OverOneDenominator` turns sums,
differences and comparisons of fractions over one denominator into those of integers,
`OverTwoDenominators` products and quotients; `CommonDenominator` finds the one denominator,
even where a half is wanted. The laws the rest cites (`SumLaws`, `OrderLaws`,
`ProductLaws`, `QuotientLaws`) follow.

*The solver.* `Sum` is a fold over a set in an order nobody says, so its laws are by induction
on the set (`FoldTheorems`). `DistributedIsShown` and `ShownIsDistributed` say what
`distribute` does: sizes are what it gives of a span exactly where every member that is not
driven has its size, the driven ones their weights at one scale (`RulesShow`), and they add
up to the span. It is how an edit that works out weights from sizes can be seen to leave
those sizes.

*The frame.* `UnitStaysFramed`: `Spec => []FrameInv`. The unit fills its outer size
(`RootPlaced`), has sizes above zero and a fixed point on each axis (`IsFramed`).
`EditFrames` says which edits change the outer size at all (`setUnitSize` and `setFixed`);
`SolvedRoot` that solving puts the root where the unit is, from the recursion by which
`Spaces` is defined (`PlacesExist`).

*The rules and the places.*

- `UnitIsSized`: `Spec => []SizedInv`, the inductive invariant: `FrameInv`, and that the unit
  is `Sized`: a sound tree with sound rules (`Ruled`) that solves, its places the solved ones.
  `TypeOK` is not inductive. The weights an edit computes are quotients of sizes
  the solver gave, and that they are above zero is a fact about its sums; after an unlock that
  frees a board the second one divides by sizes of a layout that nothing has checked, so
  that a change of rules has to be shown to solve before the next (`SameGeometry`,
  `UnlockHoldersMovesNothing`, a fold). A removal is one of several likewise
  (`RemovalsAreSound`): in between there need be no layout that solves. `SizedStep` takes each
  edit to the layout it hands to the solver (`EditIsSound`).
- `UnitIsTyped`: `Spec => []TypeOK`.
- What is kept where it was: `SameGeometry`, for an edit of rules only; `KeptRooms`, for a
  part of the tree, closed upwards, whose runs show the sizes they had (`ShowsRun`); `RunsSolve`,
  that a unit solves whose runs do. `TreeInduction` takes each down the tree.

`GeometryProofs.tla` proves what the edits of `Layout` move and what `Elevation` draws of it,
for the units every sequence of edits reaches, of any tree and size:

- `EditsAreLocal`: `Spec => EditsMoveTheirOwn`, where no layout a session may open with has a
  division in a run along its own axis. `SplitKeeps`, `MergeKeeps` and `DragPlaces` say which
  rooms each edit leaves. A removal has four forms (`MergeMakes`): the joined region in the
  board's run, in its division's place, with its members in the run above, or as the root.
  In each, outside the joined region one run alone is another, and it shows the
  sizes it had (`JoinKeeps`, `PlaceKeeps`, `GiveKeeps`), since the weight of a joined or a
  promoted region is worked out against a member that is still there (`SharesAt`) or
  stands alone. Without the assumption a division promoted into a run along its own axis
  would take the other axis's sizes for this one's.
- `LocksAreKept`: `Spec => LocksHold`. A locked region shows the size it is locked at, in
  whichever basis (`LockShows`), so that it is enough that its rule is left
  (`HoldsOff`, which passes through several removals and several unlocks).
- `SidesStay`: `Spec => []FixedSidesStay`, for every new size, from `FrameInv`. `ResizedPlace`
  gives the new place of the unit, `RectFacts` the rectangle drawn for a frame turned or
  not, and `SidesKept` compares the two as integers over a common denominator.

Two assumptions more: `RulesAssumption`, that the layouts opened have sound rules and solve
(a session opens with what a scan or the Create command has solved), and that sizes,
thicknesses and drag targets are fractions, the first two above zero (`EditError` otherwise).

The proofs corrected three properties. `LocksHold` had said of several removals that the regions
beside the selected boards may change; after a first removal a later one may be beside a
region that was not. `GeometryEditsSolve` had asked more than the code gives: a split across
a run leaves a bay thinner than its board to the solve; a removal that joins two regions
widens the runs along it in the first one, one of which a hand edit may have left all locked; a
drag keeps 5 mm of the regions it resizes, but not of what they are divided into. The units
of `MCLayout` did not show it, so `Nested` was added.

Only model-checked: liveness under fairness (`EditorSettles` and that of `EditHistory`);
of `Layout` `GeometryEditsSolve` and `MergeRestoresSplit`; of `Elevation`
`DragsFollowTheArrow`, `PadlockGivesArrow` and `DimensionsAreTrue`; everything about `Rescan`, as
`Scan` declares recursive operators; `SelectionIsReal`, which the code does not keep.

## Not modelled

- The depth axis of a unit that stores none, exported JSON, the wording of
  refusals: conversions.
- In `Container`, whole trees, irregular parts, nested containers and the numbering
  of labels; `Rescan` has the first three.
- In the view editor, turning, restoring and polling the camera, the split preview,
  hiding others, changes of units and of screen, the expression dialog of a field,
  and a unit lost in a read-back, which `EditHistory` has.
- In the drawing, hit tests, label geometry and matrices, depth and insets; Coin nodes
  and widgets.
- Display of what boards look like (`group_stocks`), export, the QA wizard, logging,
  folders, repository tools: no state a property could be about.

Hazards without a property: `history.py:70` and `core/backs.py:61`, both named above; the
first is before the session's time, the second needs `NamesReturn`.

## Plan

1. `Layout`, `Elevation`: `MergeRestoresSplit`, a composition of `SplitKeeps` and `MergeKeeps`;
   `DragsFollowTheArrow` from `DragShows`; `PadlockGivesArrow` from the fold of the unlocks.
2. `ViewEditor` composed with `EditHistory`: one drag and one Undo seen by both.
