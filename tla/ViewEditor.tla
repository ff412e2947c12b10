------------------------------ MODULE ViewEditor ------------------------------
(***************************************************************************)
(* The in-view editor (editor/view_editor.py) in one editing session: the  *)
(* drawing, the floating size field, the padlocks, the arrow, the two      *)
(* selections and the callbacks that wait for Qt's next event-loop pass.   *)
(* Each callback and each event is one step; between two of them anything  *)
(* the user does, and an Undo, may happen.                                 *)
(*                                                                         *)
(* The unit is one row of openings, which is enough for places to shift    *)
(* and for openings to come and go; what an edit does to a layout is       *)
(* module Layout's, what a step does to the undo history EditHistory's.    *)
(***************************************************************************)
EXTENDS Integers, Sequences, FiniteSets, SequencesExt

CONSTANTS
    Boards,       \* the names of the boards between openings
    Shell,        \* the outer boards, which no edit removes
    Aside,        \* a part the scan set aside, such as a back panel
    Nothing,      \* None
    MaxOpenings,  \* bound: the openings of the row; one more would be too small
    MaxEvents,    \* bound on what the user does in a behaviour
    MaxWaiting    \* bound on the callbacks an event may overtake

ASSUME BoundAssumption == MaxOpenings \in Nat \ {0, 1} /\ MaxEvents \in Nat /\ MaxWaiting \in Nat

\* No two names are the same, none is the id of an opening, None is no field,
\* and a new board always finds a name.
ASSUME NamesAssumption ==
    /\ Shell \notin Boards /\ Aside \notin Boards /\ Shell # Aside
    /\ Nothing \notin Boards \cup {Shell, Aside}
    /\ \A name \in Boards \cup {Shell, Aside, Nothing} : name \notin Nat
    /\ Nothing \notin [region : Nat, text : {"shown", "typed", "unreadable"}, applied : BOOLEAN]
    /\ IsFiniteSet(Boards) /\ Boards # {} /\ MaxOpenings <= Cardinality(Boards) + 1

VARIABLES
    session,   \* the session: its row, its selection, the drag, the edits so far
    document,  \* the document: its row, the rows Undo gives back, and whether
               \* an Undo is still to be read back
    picked,    \* FreeCAD's selection, in the order selected
    jobs,      \* the callbacks given to QTimer.singleShot(0, ...), in order
    editor,    \* the editor's own attributes
    view,      \* the 3D view: the side the camera sees, and whether it is gone
    events     \* how many things the user has done

vars == <<session, document, picked, jobs, editor, view, events>>

World == [session |-> session, document |-> document, picked |-> picked,
          jobs |-> jobs, editor |-> editor, view |-> view]

Becomes(w) ==
    \E now \in {w} :
        /\ session' = now.session
        /\ document' = now.document
        /\ picked' = now.picked
        /\ jobs' = now.jobs
        /\ editor' = now.editor
        /\ view' = now.view

(***************************************************************************)
(* A row: its openings' ids, locks and sizes, and the board after each but *)
(* the last.  A size is the number of the edit that gave it; what the      *)
(* solver makes of the others is left out.                                 *)
(***************************************************************************)
\* The members of s that are in T, in their order.
Within(s, T) == FoldLeft(LAMBDA t, x : IF x \in T THEN Append(t, x) ELSE t, << >>, s)

Places(u) == DOMAIN u.ids
BoardIds(u) == ToSet(u.boards) \cup {Shell}
PlaceOf(u, id) == CHOOSE k \in Places(u) : u.ids[k] = id
PlaceOfBoard(u, b) == CHOOSE k \in DOMAIN u.boards : u.boards[k] = b

\* region_keys(): an opening by the boards beside it.
Key(u, k) == <<IF k = 1 THEN Shell ELSE u.boards[k - 1],
               IF k > Len(u.boards) THEN Shell ELSE u.boards[k]>>
Keys(u) == {Key(u, k) : k \in Places(u)}
AtKey(u, key) == CHOOSE k \in Places(u) : Key(u, k) = key

\* What the document holds of a row: an id is the session's own.
Bare(u) == [boards |-> u.boards, locked |-> u.locked, mm |-> u.mm]

\* _refuse_last_unlocked()
CanFix(u, k) == u.locked[k] \/ \E l \in Places(u) \ {k} : ~u.locked[l]

\* held_by(): the locked openings nearest b on each side with no unlocked one.
HoldersOf(u, b) ==
    LET k == PlaceOfBoard(u, b)
    IN  (IF \A l \in 1 .. k : u.locked[l] THEN {k} ELSE {})
          \cup (IF \A l \in k + 1 .. Len(u.ids) : u.locked[l] THEN {k + 1} ELSE {})

(***************************************************************************)
(* FreeCAD's side: its selection, and the callbacks it makes.              *)
(***************************************************************************)
Queue(w, job) == [w EXCEPT !.jobs = Append(@, job)]
Job(kind) == [kind |-> kind]

\* freecad_selection_changed()
SelectionChanged(w) ==
    IF w.editor.closed \/ w.editor.followQueued THEN w
    ELSE Queue([w EXCEPT !.editor.followQueued = TRUE], Job("follow"))

Pick(w, entries) ==
    IF entries = w.picked THEN w ELSE SelectionChanged([w EXCEPT !.picked = entries])

Entry(name, whole) == [name |-> name, whole |-> whole]
InDocument(w, name) == name \in ToSet(w.document.row.boards) \cup {Shell, Aside}
Present(w, entries) == Within(entries, {e \in ToSet(entries) : InDocument(w, e.name)})

\* select_in_freecad()
SelectInFreeCAD(w, names) ==
    LET wanted == [k \in DOMAIN names |-> Entry(names[k], TRUE)]
    IN  IF wanted = w.picked THEN w
        ELSE SelectionChanged([w EXCEPT !.picked = Present(w, wanted)])

\* The document's row becomes `row'; FreeCAD drops what it deleted.
Rewrite(w, row) ==
    LET written == [w EXCEPT !.document.row = row]
    IN  Pick(written, Present(written, w.picked))

(***************************************************************************)
(* Drawing.                                                                *)
(***************************************************************************)
SelectedId(w) ==
    IF Len(w.session.selection) = 1 THEN w.session.selection[1] ELSE Nothing
SelectedBoards(w) == Within(w.session.selection, BoardIds(w.session.unit))

\* _place_arrow() and _place_add_bar(), for what is selected.
SelectedInner(w) == SelectedId(w) \in ToSet(w.session.unit.boards)
ArrowFor(w) ==
    IF SelectedInner(w) /\ HoldersOf(w.session.unit, SelectedId(w)) = {}
    THEN SelectedId(w) ELSE Nothing
HeldFor(w) ==
    IF SelectedInner(w) /\ HoldersOf(w.session.unit, SelectedId(w)) # {}
    THEN SelectedId(w) ELSE Nothing
BarFor(w) == SelectedId(w) \in ToSet(w.session.unit.ids)

\* _close_field(): the field is forgotten before its widget is hidden, so the
\* focus-out that hiding brings finds none.
CloseField(w) == [w EXCEPT !.editor.field = Nothing, !.editor.focus = FALSE]

\* An editor as made, which has drawn nothing; a closed one shows no more.
NewEditor ==
    [closed |-> FALSE, field |-> Nothing, focus |-> FALSE,
     drawn |-> [unit |-> [boards |-> << >>, locked |-> << >>, mm |-> << >>, ids |-> << >>],
                side |-> "front", selection |-> << >>],
     boards |-> {}, arrow |-> Nothing, held |-> Nothing, bar |-> FALSE,
     dragging |-> FALSE, followQueued |-> FALSE, refreshQueued |-> FALSE,
     sideQueued |-> FALSE]

\* close(), with the view's part of it: FreeCAD's selection is cleared.
Close(w) ==
    IF w.editor.closed THEN w
    ELSE [w EXCEPT !.editor = [NewEditor EXCEPT !.closed = TRUE], !.picked = << >>]

\* rebuild(), which _stood_down() turns into a close when the view is gone.
Rebuild(w) ==
    CASE w.editor.closed -> w
      [] ~w.editor.closed /\ w.view.gone -> Close(w)
      [] ~w.editor.closed /\ ~w.view.gone ->
            LET drawn == [w EXCEPT !.editor.drawn =
                                      [unit |-> w.session.unit, side |-> w.view.side,
                                       selection |-> w.session.selection],
                                   !.editor.boards = BoardIds(w.session.unit)]
            IN  IF w.editor.dragging THEN drawn
                ELSE [drawn EXCEPT !.editor.arrow = ArrowFor(w),
                                   !.editor.held = HeldFor(w),
                                   !.editor.bar = BarFor(w)]

\* The panel's _refresh(), each edit's on_change, less its own controls.
Refresh(w) == Rebuild(w)

\* _queue_change(), _run_queued_change()
QueueChange(w) ==
    IF w.editor.refreshQueued THEN w
    ELSE Queue([w EXCEPT !.editor.refreshQueued = TRUE], Job("refresh"))
\* Mutant of RunQueuedChange: the flag is not put back.
RunChangeFlagged(w) == Refresh(w)
RunQueuedChange(w) == Refresh([w EXCEPT !.editor.refreshQueued = FALSE])

(***************************************************************************)
(* The session's side.                                                     *)
(***************************************************************************)
\* The ids anything still mentions; a new region's is never one of them.
Mentioned(w) ==
    ToSet(w.session.unit.ids) \cup ToSet(w.session.selection)
      \cup ToSet(w.editor.drawn.unit.ids)
      \cup {j.id : j \in {j \in ToSet(w.jobs) : j.kind = "open"}}
      \cup (IF w.editor.field = Nothing THEN {} ELSE {w.editor.field.region})
NewId(used) == CHOOSE i \in 1 .. Cardinality(used) + 1 :
                    i \notin used /\ \A j \in 1 .. i - 1 : j \in used
NewIds(used, n) ==
    FoldLeft(LAMBDA ids, k : Append(ids, NewId(used \cup ToSet(ids))),
             << >>, [k \in 1 .. n |-> k])

\* reload() and the panel's _follow_document(): history_moved(), then refresh.
Reload(w) ==
    LET old == w.session.unit
        row == w.document.row
        new == [boards |-> row.boards, locked |-> row.locked, mm |-> row.mm,
                ids |-> NewIds(Mentioned(w), Len(row.locked))]
        Kept(i) == \/ i \in BoardIds(new)
                   \/ i \in ToSet(old.ids) /\ Key(old, PlaceOf(old, i)) \in Keys(new)
        Now(i) == IF i \in BoardIds(new) THEN i
                  ELSE new.ids[AtKey(new, Key(old, PlaceOf(old, i)))]
        kept == Within(w.session.selection, {i \in ToSet(w.session.selection) : Kept(i)})
        read == [w EXCEPT !.document.pending = FALSE, !.session.unit = new,
                          !.session.selection = [k \in DOMAIN kept |-> Now(kept[k])]]
    IN  Refresh(IF read.editor.closed THEN read
                ELSE IF read.view.gone THEN Close(read) ELSE CloseField(read))

Settle(w) == IF w.document.pending THEN Reload(w) ELSE w

\* An accepted edit, one undo step: _step() and _apply().  A later move of a
\* drag is in the step of its first.
Apply(w, row, selection, joins) ==
    LET past == IF joins THEN w.document.past
                ELSE Append(w.document.past, w.document.row)
    IN  Rewrite([w EXCEPT !.session.unit = row, !.session.selection = selection,
                          !.session.edits = @ + 1, !.document.past = past],
                Bare(row))

Stamped(w, mm, places) ==
    [k \in DOMAIN mm |-> IF k \in places THEN w.session.edits + 1 ELSE mm[k]]

\* Each edit gives the world after it and whether it was accepted.
Did(w) == [world |-> w, done |-> TRUE]
Refused(w) == [world |-> w, done |-> FALSE]

\* set_size()
SetSizeNow(w) ==
    LET u == w.session.unit
        k == PlaceOf(u, SelectedId(w))
    IN  IF SelectedId(w) \in ToSet(u.ids) /\ CanFix(u, k)
        THEN Did(Apply(w, [u EXCEPT !.mm = Stamped(w, @, {k}),
                                    !.locked[k] = TRUE], <<u.ids[k]>>, FALSE))
        ELSE Refused(w)
SetSize(w) == SetSizeNow(Settle(w))

\* set_lock()
SetLockNow(w, id, locked) ==
    LET u == w.session.unit
        k == PlaceOf(u, id)
    IN  IF id \in ToSet(u.ids) /\ (locked => CanFix(u, k))
        THEN Did(Apply(w, [u EXCEPT !.locked[k] = locked], w.session.selection, FALSE))
        ELSE Refused(w)
SetLock(w, id, locked) == SetLockNow(Settle(w), id, locked)

\* unlock_holders()
UnlockHoldersNow(w, b) ==
    LET u == w.session.unit
        free == HoldersOf(u, b)
    IN  IF b \in ToSet(u.boards) /\ free # {}
        THEN Did(Apply(w, [u EXCEPT !.locked = [k \in DOMAIN @ |-> k \notin free /\ @[k]]],
                       w.session.selection, FALSE))
        ELSE Refused(w)
UnlockHolders(w, b) == UnlockHoldersNow(Settle(w), b)

\* split(): both halves are new and take the lock of the whole.
Halved(s, k, low, high) == SubSeq(s, 1, k - 1) \o <<low, high>> \o SubSeq(s, k + 1, Len(s))
SplitNow(w) ==
    LET u == w.session.unit
        k == PlaceOf(u, SelectedId(w))
        ids == NewIds(Mentioned(w), 2)
        b == CHOOSE b \in Boards : b \notin ToSet(u.boards)
        mm == w.session.edits + 1
    IN  IF SelectedId(w) \in ToSet(u.ids) /\ Len(u.ids) < MaxOpenings
        THEN Did(Apply(w, [boards |-> InsertAt(u.boards, k, b),
                           ids |-> Halved(u.ids, k, ids[1], ids[2]),
                           locked |-> Halved(u.locked, k, u.locked[k], u.locked[k]),
                           mm |-> Halved(u.mm, k, mm, mm)], << >>, FALSE))
        ELSE Refused(w)
Split(w) == SplitNow(Settle(w))

\* Mutant of Merged: both openings beside the board stay.
MergedInTwo(w, u, b) ==
    LET k == PlaceOfBoard(u, b)
    IN  [u EXCEPT !.boards = RemoveAt(@, k), !.mm = Stamped(w, @, {k})]

\* merge() and delete_boards(): the opening before a board takes the one after;
\* a board an earlier removal took is skipped.
Merged(w, u, b) ==
    LET k == PlaceOfBoard(u, b)
    IN  [boards |-> RemoveAt(u.boards, k), ids |-> RemoveAt(u.ids, k + 1),
         locked |-> RemoveAt([u.locked EXCEPT ![k] = @ /\ u.locked[k + 1]], k + 1),
         mm |-> RemoveAt(Stamped(w, u.mm, {k}), k + 1)]
Remaining(w, bs) ==
    FoldLeft(LAMBDA u, b : IF b \in ToSet(u.boards) THEN Merged(w, u, b) ELSE u,
             w.session.unit, bs)
RemoveNow(w, bs) ==
    IF bs # << >> /\ Shell \notin ToSet(bs)
    THEN Did(Apply(w, Remaining(w, bs), << >>, FALSE))
    ELSE Refused(w)
RemoveSelected(w) == RemoveNow(w, SelectedBoards(w))
DeleteBoards(w) == RemoveSelected(Settle(w))

\* resize(), from the panel
ResizeNow(w) ==
    LET u == w.session.unit
    IN  Apply(w, [u EXCEPT !.mm = Stamped(w, @, {k \in Places(u) : ~u.locked[k]})],
              w.session.selection, FALSE)
Resize(w) == Refresh(ResizeNow(Settle(w)))

(***************************************************************************)
(* The editor's handlers.                                                  *)
(***************************************************************************)
\* Mutant of Select: FreeCAD's selection is left as it was.
SelectInSession(w, id) ==
    IF w.editor.closed THEN w
    ELSE Refresh([w EXCEPT !.session.selection = IF id = Nothing THEN << >> ELSE <<id>>])

\* select()
Select(w, id) ==
    IF w.editor.closed THEN w
    ELSE Refresh(SelectInFreeCAD(
            [w EXCEPT !.session.selection = IF id = Nothing THEN << >> ELSE <<id>>],
            IF id \in w.editor.boards THEN <<id>> ELSE << >>))

\* select_boards(), for a row of the panel's stock list
SelectBoards(w, bs) ==
    IF w.editor.closed THEN w
    ELSE Refresh(SelectInFreeCAD([w EXCEPT !.session.selection = bs], bs))

\* _follow_freecad(): a board held whole beside one of its faces was
\* Ctrl-clicked while selected, and leaves the selection.
Names(w, whole) ==
    {e.name : e \in {e \in ToSet(w.picked) : e.whole = whole}}
Followed(w) ==
    FoldLeft(LAMBDA bs, e : IF e.name \in ToSet(bs) \cup (Names(w, TRUE) \cap Names(w, FALSE))
                            THEN bs ELSE Append(bs, e.name),
             << >>, w.picked)
Take(w, bs) ==
    CASE bs = << >> /\ SelectedBoards(w) # << >> -> Select(w, Nothing)
      [] Len(bs) = 1 /\ bs[1] # SelectedId(w) -> Select(w, bs[1])
      [] Len(bs) > 1 /\ bs # SelectedBoards(w) ->
            Refresh([w EXCEPT !.session.selection = bs])
      [] OTHER -> w
FollowNow(w) ==
    CASE w.editor.closed \/ \E e \in ToSet(w.picked) : e.name \notin w.editor.boards -> w
      [] ~w.editor.closed /\ \A e \in ToSet(w.picked) : e.name \in w.editor.boards ->
            Take(IF Names(w, FALSE) = {} THEN w ELSE SelectInFreeCAD(w, Followed(w)),
                 Followed(w))
FollowFreeCAD(w) == FollowNow([w EXCEPT !.editor.followQueued = FALSE])

\* _click(), at a board, at the place of an opening, or at neither.  On a view
\* that is gone it raises once the field is closed.
RegionAt(w, at) ==
    IF at \in Places(w.session.unit) THEN w.session.unit.ids[at] ELSE Nothing
ClickNow(w, at, adding) ==
    CASE at \in w.editor.boards -> FollowFreeCAD(w)
      [] at \notin w.editor.boards /\ adding
           /\ \E e \in ToSet(w.picked) : e.name \in w.editor.boards ->
            Pick(w, Within(w.picked, {e \in ToSet(w.picked) : e.name \in w.editor.boards}))
      [] OTHER -> Select(w, RegionAt(w, at))
Click(w, at, adding) ==
    IF w.editor.closed THEN w
    ELSE IF w.view.gone THEN CloseField(w) ELSE ClickNow(CloseField(w), at, adding)

\* open_field(): a label of a region that is gone selects what is not there.
WithField(w, id) ==
    IF w.editor.closed \/ id \notin ToSet(w.session.unit.ids) THEN w
    ELSE [w EXCEPT !.editor.focus = TRUE,
                   !.editor.field = [region |-> id, text |-> "shown", applied |-> FALSE]]
OpenField(w, id) ==
    IF w.editor.closed THEN w
    ELSE WithField(Select(CloseField(w), id), id)

\* Mutant of FieldSize: the focus-out after Return applies the value again.
FieldSizeTwice(w) ==
    IF w.editor.field = Nothing THEN w
    ELSE Refresh(Queue(SetSize([w EXCEPT !.editor.field.applied = TRUE,
                                  !.session.selection = <<w.editor.field.region>>]).world,
                       Job("closeField")))

\* _field_size()
FieldSize(w) ==
    IF w.editor.field = Nothing \/ w.editor.field.applied THEN w
    ELSE Refresh(Queue(SetSize([w EXCEPT !.editor.field.applied = TRUE,
                                  !.session.selection = <<w.editor.field.region>>]).world,
                       Job("closeField")))

\* _finished(): only a readable value that differs from the one shown.
Finish(w) ==
    IF w.editor.field # Nothing /\ w.editor.field.text = "typed" THEN FieldSize(w) ELSE w

\* A focus-out: unreadable text is put back first (_discard_unreadable).
LeaveField(w) ==
    CASE ~w.editor.focus -> w
      [] w.editor.focus /\ w.editor.field.text = "unreadable" ->
            [w EXCEPT !.editor.focus = FALSE, !.editor.field.text = "shown"]
      [] w.editor.focus /\ w.editor.field.text # "unreadable" ->
            Finish([w EXCEPT !.editor.focus = FALSE])

\* The dimensions with a padlock, as last drawn (_update_padlocks): all of a row's,
\* or none where its only opening is unlocked.
Label(u, k) == [id |-> u.ids[k], key |-> Key(u, k), locked |-> u.locked[k]]
Labels(u) == [k \in Places(u) |-> Label(u, k)]
PadlockLabels(w) ==
    LET u == w.editor.drawn.unit
    IN  IF \A k \in Places(u) : u.locked[k] \/ Len(u.ids) > 1 THEN Labels(u) ELSE << >>

\* Mutant of ToggleLock: the padlock's place is looked up in the unit.
ToggleLockByPlace(w, k) ==
    IF w.editor.closed \/ k > Len(PadlockLabels(w)) THEN w
    ELSE LET settled == Settle(CloseField(w))
             u == settled.session.unit
         IN  IF k \notin Places(u) THEN settled
             ELSE Refresh(SetLock(settled, u.ids[k], ~PadlockLabels(w)[k].locked).world)

\* _toggle_lock() and _unlock_held()
ToggleLock(w, k) ==
    IF w.editor.closed \/ k > Len(PadlockLabels(w)) THEN w
    ELSE Refresh(SetLock(CloseField(w), PadlockLabels(w)[k].id,
                         ~PadlockLabels(w)[k].locked).world)
UnlockHeld(w) ==
    IF w.editor.closed \/ w.editor.held = Nothing THEN w
    ELSE Refresh(UnlockHolders(CloseField(w), w.editor.held).world)

\* _add_board(): the boards before are the session's before it settles.
Added(w, split) ==
    LET new == BoardIds(split.world.session.unit) \ BoardIds(w.session.unit)
        known == [split.world EXCEPT !.editor.boards = BoardIds(split.world.session.unit)]
    IN  IF ~split.done THEN Refresh(split.world)
        ELSE Select(known, IF Cardinality(new) = 1 THEN CHOOSE b \in new : TRUE ELSE Nothing)
AddBoard(w) == Added(w, Split(w))

\* Mutant of DeleteSelected: FreeCAD's selection is deleted.
DeletePicked(w) ==
    IF w.editor.closed \/ w.picked = << >> THEN w
    ELSE Refresh(DeleteBoards([w EXCEPT !.session.selection = Followed(w)]).world)

\* _delete_selected()
Deleted(removed) ==
    LET w == removed.world
    IN  IF ~removed.done THEN Refresh(w)
        ELSE Select([w EXCEPT !.editor.boards = BoardIds(w.session.unit)], SelectedId(w))
DeleteSelected(w) ==
    IF w.editor.closed \/ SelectedBoards(w) = << >> THEN w ELSE Deleted(DeleteBoards(w))

\* _drag_started(), _drag_moved(), _drag_finished()
BeginDrag(w, b) ==
    IF b \notin ToSet(w.session.unit.boards) \/ HoldersOf(w.session.unit, b) # {} THEN w
    ELSE [w EXCEPT !.session.drag = [board |-> b, moved |-> FALSE],
                   !.editor.dragging = TRUE, !.editor.bar = FALSE]
DragStarted(w) ==
    IF w.editor.closed \/ w.editor.arrow = Nothing THEN w
    ELSE BeginDrag(Settle(w), w.editor.arrow)

\* drag_to() and move_board(): the unlocked opening nearest the board on each
\* side is resized, unless the Delete key took the board out of the unit or left
\* it held.
Free(u, places) == {l \in places : ~u.locked[l]}
DragTo(w, drag) ==
    LET u == w.session.unit
        k == PlaceOfBoard(u, drag.board)
    IN  IF drag.board \notin ToSet(u.boards) \/ HoldersOf(u, drag.board) # {} THEN w
        ELSE [Apply(w, [u EXCEPT !.mm = Stamped(w, @, {Max(Free(u, 1 .. k)),
                                                   Min(Free(u, k + 1 .. Len(u.ids)))})],
                    <<drag.board>>,
                    drag.moved) EXCEPT !.session.drag.moved = TRUE]
DragMoved(w) ==
    IF ~w.editor.dragging \/ w.editor.arrow = Nothing \/ w.session.drag = Nothing THEN w
    ELSE QueueChange(DragTo(w, w.session.drag))

\* Mutant of DragFinished: no redraw is queued.
DragEndsUndrawn(w) ==
    [w EXCEPT !.editor.dragging = FALSE, !.session.drag = Nothing]

DragFinished(w) ==
    IF ~w.editor.dragging THEN w
    ELSE QueueChange([w EXCEPT !.editor.dragging = FALSE, !.session.drag = Nothing])

\* _camera_moved() and _switch_side()
CameraMoved(w) ==
    IF \/ w.editor.closed \/ w.editor.dragging \/ w.editor.sideQueued
       \/ w.view.side = w.editor.drawn.side
    THEN w
    ELSE Queue([w EXCEPT !.editor.sideQueued = TRUE], Job("side"))
SwitchSideNow(w) ==
    IF w.editor.closed \/ w.editor.dragging THEN w ELSE Rebuild(CloseField(w))
SwitchSide(w) == SwitchSideNow([w EXCEPT !.editor.sideQueued = FALSE])

(***************************************************************************)
(* What the user and FreeCAD do.                                           *)
(***************************************************************************)
\* The mouse on the 3D view, which a drag holds.
Pointer == session.open /\ ~view.gone /\ ~editor.closed /\ ~editor.dragging

\* FreeCAD's own handling of a click on something, and on nothing.
Clicked(entries, e, adding) ==
    CASE ~adding -> <<e>>
      [] adding /\ e \in ToSet(entries) -> Within(entries, ToSet(entries) \ {e})
      [] adding /\ e \notin ToSet(entries) -> Append(entries, e)

\* The filter sees the release before FreeCAD's selection does.
ClickAt(at, adding, now) ==
    /\ Pointer /\ ~editor.focus
    /\ Becomes(Pick(Queue(World, [kind |-> "click", at |-> at, adding |-> adding]), now))

ClickBoard ==
    \E b \in editor.boards, adding \in BOOLEAN :
        /\ InDocument(World, b)
        /\ ClickAt(b, adding, Clicked(picked, Entry(b, FALSE), adding))
ClickOpening ==
    \E k \in Places(editor.drawn.unit), adding \in BOOLEAN :
        ClickAt(k, adding, IF adding THEN picked ELSE << >>)
ClickAside ==
    \E k \in Places(editor.drawn.unit), adding \in BOOLEAN :
        ClickAt(k, adding, Clicked(picked, Entry(Aside, FALSE), adding))

\* _sort_press(): the press on a dimension is the editor's own.
PressLabel ==
    \E k \in Places(editor.drawn.unit) :
        /\ Pointer /\ ~editor.focus
        /\ Becomes(Queue(World, [kind |-> "open", id |-> editor.drawn.unit.ids[k]]))

\* The padlocks and the add buttons take no focus.
PressPadlock(k) ==
    Pointer /\ k \in DOMAIN PadlockLabels(World) /\ Becomes(ToggleLock(World, k))
PressHeld == Pointer /\ editor.held # Nothing /\ Becomes(UnlockHeld(World))
PressAdd == Pointer /\ editor.bar /\ Becomes(AddBoard(World))

\* A press on the arrow is a hand's, later than what the last click or the last
\* release left to do.
Unanswered == \E j \in ToSet(jobs) : j.kind \in {"follow", "click", "open", "refresh"}
DragStart ==
    /\ Pointer /\ ~editor.focus /\ ~Unanswered
    /\ editor.arrow # Nothing
    /\ Becomes(DragStarted(World))
Dragging == session.open /\ editor.dragging /\ ~view.gone /\ ~editor.closed
DragMove == Dragging /\ Becomes(DragMoved(World))
DragEnd == Dragging /\ Becomes(DragFinished(World))

\* FreeCAD's tree selects whole objects; the gate admits the unit's alone.
PickInTree ==
    \E name \in editor.boards \cup {Aside}, adding \in BOOLEAN :
        LET now == Clicked(picked, Entry(name, TRUE), adding)
        IN  /\ session.open /\ ~editor.closed /\ ~editor.dragging /\ ~editor.focus
            /\ InDocument(World, name)
            /\ Becomes(Pick(World, now))

FocusField ==
    /\ Pointer /\ editor.field # Nothing /\ ~editor.focus
    /\ editor' = [editor EXCEPT !.focus = TRUE]
    /\ UNCHANGED <<session, document, picked, jobs, view>>
Type ==
    \E text \in {"typed", "unreadable"} :
        /\ session.open /\ editor.focus /\ editor.field.text # text
        /\ editor' = [editor EXCEPT !.field.text = text]
        /\ UNCHANGED <<session, document, picked, jobs, view>>
Return == session.open /\ editor.focus /\ editor.field.text = "typed" /\ Becomes(Finish(World))
\* What takes the focus from the field, first of all a press anywhere else.
FocusOut == session.open /\ editor.focus /\ Becomes(LeaveField(World))
Escape == session.open /\ editor.focus /\ Becomes(Queue(World, Job("closeField")))

\* _DeleteKeys: while focus is in the 3D view.
DeleteKey ==
    /\ session.open /\ ~editor.focus /\ ~view.gone /\ ~editor.closed
    /\ Becomes(Queue(World, Job("delete")))

\* FreeCAD's Undo: the read-back is scheduled, and a drag is over.
Undo ==
    LET undone == Rewrite([World EXCEPT !.document.past = Front(@),
                                        !.document.pending = TRUE,
                                        !.session.drag = Nothing], Last(document.past))
    IN  /\ session.open /\ document.past # << >>
        /\ Becomes(IF document.pending THEN undone ELSE Queue(undone, Job("settle")))

\* The panel's own controls: a resize, and a row of the stock list.
ResizeUnit == session.open /\ ~editor.dragging /\ ~editor.focus /\ Becomes(Resize(World))
SelectStock ==
    LET boards == session.unit.boards
    IN  /\ session.open /\ ~editor.dragging /\ ~editor.focus
        /\ Becomes(SelectBoards(World, Append(boards, Shell)))

TurnCamera ==
    /\ session.open /\ ~view.gone /\ ~editor.closed
    /\ Becomes(CameraMoved([World EXCEPT !.view.side = IF @ = "front" THEN "back" ELSE "front"]))
CloseView ==
    /\ session.open /\ ~view.gone
    /\ view' = [view EXCEPT !.gone = TRUE]
    /\ UNCHANGED <<session, document, picked, jobs, editor>>

\* _end(), by the Close button or by Escape.
ClosePanel ==
    /\ session.open
    /\ Becomes([Close(World) EXCEPT !.session.open = FALSE, !.session.drag = Nothing])

(***************************************************************************)
(* The event loop.                                                         *)
(***************************************************************************)
Run(w, job) ==
    CASE job.kind = "settle" -> IF w.session.open THEN Settle(w) ELSE w
      [] job.kind = "refresh" -> RunQueuedChange(w)
      [] job.kind = "follow" -> FollowFreeCAD(w)
      [] job.kind = "click" -> Click(w, job.at, job.adding)
      [] job.kind = "open" -> OpenField(w, job.id)
      [] job.kind = "closeField" -> CloseField(w)
      [] job.kind = "delete" -> DeleteSelected(w)
      [] job.kind = "side" -> SwitchSide(w)
RunJob ==
    /\ jobs # << >>
    /\ Becomes(Run([World EXCEPT !.jobs = Tail(@)], Head(jobs)))
    /\ UNCHANGED events

Init ==
    LET b == CHOOSE b \in Boards : TRUE
        row == [boards |-> <<b>>, locked |-> <<FALSE, FALSE>>, mm |-> <<0, 0>>]
        unit == [boards |-> row.boards, locked |-> row.locked, mm |-> row.mm,
                 ids |-> <<1, 2>>]
    IN  /\ session = [unit |-> unit, selection |-> << >>, drag |-> Nothing,
                      edits |-> 0, open |-> TRUE]
        /\ document = [row |-> row, past |-> << >>, pending |-> FALSE]
        /\ picked = << >>
        /\ jobs = << >>
        /\ editor = [NewEditor EXCEPT !.drawn.unit = unit, !.boards = BoardIds(unit)]
        /\ view = [side |-> "front", gone |-> FALSE]
        /\ events = 0

\* The bounds stop the user, never a callback.
User ==
    /\ events < MaxEvents /\ Len(jobs) <= MaxWaiting
    /\ events' = events + 1
    /\ \/ ClickBoard \/ ClickOpening \/ ClickAside \/ PressLabel
       \/ (\E k \in 1 .. MaxOpenings : PressPadlock(k)) \/ PressHeld \/ PressAdd
       \/ DragStart \/ DragMove \/ DragEnd
       \/ PickInTree \/ FocusField \/ Type \/ Return \/ FocusOut \/ Escape \/ DeleteKey
       \/ Undo \/ ResizeUnit \/ SelectStock \/ TurnCamera \/ CloseView \/ ClosePanel

Next == RunJob \/ User

\* Qt runs every callback it was given; nobody has to do anything else.  This is
\* WF_vars(RunJob) written out, as RunJob is enabled whenever a callback waits
\* and its steps are those that leave events alone: TLC takes an ENABLED of
\* RunJob a hundred times slower.
Fairness == []<>(jobs = << >>) \/ []<><<UNCHANGED events>>_vars
Spec == Init /\ [][Next]_vars /\ Fairness

(***************************************************************************)
(* Properties.                                                             *)
(***************************************************************************)
\* Every attribute has the values view_editor.py gives it.
Ids == Nat \ {0}
TypeOK ==
    /\ Len(session.unit.ids) \in 1 .. MaxOpenings
    /\ ToSet(session.unit.ids) \subseteq Ids
    /\ ToSet(session.unit.boards) \subseteq Boards
    /\ IsInjective(session.unit.boards) /\ IsInjective(session.unit.ids)
    /\ Len(session.unit.boards) = Len(session.unit.ids) - 1
    /\ ToSet(session.selection) \subseteq Ids \cup Boards \cup {Shell}
    /\ ToSet(picked) \subseteq [name : Boards \cup {Shell, Aside}, whole : BOOLEAN]
    /\ editor.boards \subseteq Boards \cup {Shell}
    /\ editor.arrow \in Boards \cup {Nothing} /\ editor.held \in Boards \cup {Nothing}
    /\ editor.focus => editor.field # Nothing
    /\ ~document.pending => document.row = Bare(session.unit)

\* Unless a redraw is queued, a drag is on or the view is gone, the drawing
\* and what stands over it (the arrow, the padlock of a held board, the add
\* buttons) show the session's unit and selection, and unless the turn is still
\* to be followed on the side the camera sees, whichever of the two
\* selections, an edit, an Undo or a drag changed them (view_editor.py:
\* rebuild, and the class's word that on_change runs after every edit or
\* selection the editor makes).
DrawingIsCurrent ==
    \/ editor.closed \/ view.gone \/ editor.dragging \/ editor.refreshQueued
    \/ /\ editor.drawn.unit = session.unit /\ editor.drawn.selection = session.selection
       /\ editor.sideQueued \/ editor.drawn.side = view.side
       /\ editor.boards = BoardIds(session.unit)
       /\ editor.arrow = ArrowFor(World)
       /\ editor.held = HeldFor(World)
       /\ editor.bar = BarFor(World)

\* A callback that will bring the two selections together is waiting, or a part
\* the scan set aside is picked, which leaves the session's alone.
Following ==
    \/ \E j \in ToSet(jobs) : j.kind = "follow"
    \/ Entry(Aside, TRUE) \in ToSet(picked) \/ Entry(Aside, FALSE) \in ToSet(picked)

\* The boards the session holds selected are the whole boards FreeCAD shows
\* selected, in the same order, through clicks, the tree, edits, drags and
\* Undo, whenever no callback is still to follow (view_editor.py:
\* _follow_freecad, select, select_boards).
BoardsAreHeld ==
    \/ editor.closed \/ Following
    \/ SelectedBoards(World) = << >>
    \/ picked = [k \in DOMAIN SelectedBoards(World) |-> Entry(SelectedBoards(World)[k], TRUE)]

\* What the session says of its selection: one region or board of the unit, or
\* several of its boards.
SelectionIsReal ==
    ToSet(session.selection) \subseteq ToSet(session.unit.ids) \cup BoardIds(session.unit)

\* A size is only ever typed onto the opening whose dimension was clicked, found
\* again by the boards beside it when an Undo is read back first, and only from
\* a field whose value was readable and not yet taken: not from one that Escape,
\* an Undo or a click has closed, and not twice, by Return and by the focus-out
\* after it (view_editor.py: _field_size, _close_field; fields.py: _finished).
Typed(k) ==
    /\ session.unit'.boards = document.row.boards
    /\ session.unit'.locked[k] /\ session.unit'.mm[k] > session.edits
Landed(k) ==
    /\ session.open /\ ~editor.closed
    /\ editor.field # Nothing
    /\ editor.field.text = "typed" /\ ~editor.field.applied
    /\ editor.field.region \in ToSet(session.unit.ids)
    /\ Key(session.unit, PlaceOf(session.unit, editor.field.region)) = Key(session.unit', k)
TypedSizesLand == [][\A k \in Places(session.unit') : Typed(k) => Landed(k)]_vars

\* A press on a padlock changes the lock of the opening it was drawn beside, and
\* of no other, to what its icon offered, though an Undo not yet read back has
\* put other boards in the row (view_editor.py: _update_padlocks, _toggle_lock).
PadlocksDoWhatTheyShow ==
    [][\A k \in 1 .. MaxOpenings : PressPadlock(k) =>
         \A l \in Places(session.unit') :
            session.unit'.locked[l] # document.row.locked[l] =>
                /\ Key(session.unit', l) = PadlockLabels(World)[k].key
                /\ session.unit'.locked[l] # PadlockLabels(World)[k].locked]_vars

\* The Delete key only removes boards the editor shows selected when it acts,
\* never one FreeCAD holds selected and the drawing does not, nor one an edit
\* still to be drawn selected (view_editor.py: _DeleteKeys, _delete_selected).
DeletesWhatIsDrawn ==
    [][RunJob /\ Head(jobs).kind = "delete" =>
         ToSet(document.row.boards) \ ToSet(document.row'.boards)
           \subseteq ToSet(editor.drawn.selection)]_vars

\* Once the user stops, the callbacks die out and leave no flag that says one is
\* still queued, which would keep every later change from being followed or
\* drawn: FreeCAD's selection following the session's and the session's
\* following FreeCAD's do not feed each other (view_editor.py: _follow_freecad,
\* select_in_freecad, _run_queued_change, _switch_side).
EditorSettles ==
    <>[][UNCHANGED events]_events =>
    <>[](/\ jobs = << >>
         /\ ~editor.followQueued /\ ~editor.refreshQueued /\ ~editor.sideQueued)
===============================================================================
