----------------------------- MODULE EditHistory -----------------------------
(***************************************************************************)
(* One Edit Unit session over a FreeCAD document: the document's undo      *)
(* stack (content, undo, redo, active, rec, guiList; FreeCAD's, modelled   *)
(* from how editor/history.py uses it), the history that follows it        *)
(* (EditHistory in editor/history.py), and the session whose edits fill it *)
(* (Session in editor/session.py).                                         *)
(*                                                                         *)
(* Everything runs on the GUI thread, so a handler is never interrupted.   *)
(* pc says which call of a handler runs next and job which handler it is;  *)
(* between handlers pc is "idle", and there the user, the timer and other  *)
(* commands take turns in any order.  A signal FreeCAD emits inside a call *)
(* is part of that call's action.                                          *)
(***************************************************************************)
EXTENDS Naturals, Sequences, SequencesExt

CONSTANTS
  Val,            \* readable states of the unit's boards
  Unreadable,     \* the unit gone, or no longer scanning or solving
  MaxSteps,       \* bound on the steps in the undo list
  Interference    \* what may cut across the session, of InterferenceKinds

InterferenceKinds ==
  { "edit_in_drag",             \* a key starts an edit while a drag is on
    "command_in_drag",          \* another command runs in an unwritten drag
    "command_left_open",        \* another command leaves its step open
    "command_before_read_back", \* another command runs before a read-back
    "redo_refused",             \* Std_Redo does not run when asked
    "still_there",              \* an unreadable unit's container still exists
    "write_fails_late",         \* a write fails after the session adopted it
    "drag_write_fails" }        \* a drag's write fails with boards written

ASSUME UnreadableAssumption == Unreadable \notin Val
ASSUME MaxStepsAssumption == MaxSteps \in Nat
ASSUME InterferenceAssumption == Interference \subseteq InterferenceKinds

VARIABLES
  \* The document.
  content,        \* the boards as the document holds them
  undo, redo,     \* the two lists of steps, the next to move last
  active,         \* who opened the application's active transaction
  rec,            \* the transaction the document is recording
  guiList,        \* the view providers Gui Undo noted for Gui Redo to walk
  \* EditHistory.
  stepOpen,       \* _step_name is not None
  stepDropped,    \* _step_dropped
  pending,        \* _pending is not None
  guiListFilled,  \* _gui_list_filled
  settleQueued,   \* _settle_queued
  finished,       \* _finished
  \* Session.
  unit,           \* the unit as the session last read or wrote it
  drag,           \* _drag is not None
  lost,
  \* Control.
  pc, job,
  mark            \* history variable: the document as a settle found it

document == <<content, undo, redo, active, rec, guiList>>
history == <<stepOpen, stepDropped, pending, guiListFilled, settleQueued, finished>>
session == <<unit, drag, lost>>
vars == <<document, history, session, pc, job, mark>>

Content == Val \union {Unreadable}
Who == {"session", "other"}
\* A step: whose name it carries, whose changes it holds, and the boards to
\* put back when it is undone (or redone).
Step == [by : Who, hands : SUBSET Who, before : Content]
NoRec == [by |-> "none"]
\* A recording step also notes the objects whose change was signalled
\* (_recording); a change to appearance alone is not.
Thing == {"object"}
Recording == [by : Who, hands : SUBSET Who, before : Content, touched : SUBSET Thing]
NoMark == [steps |-> << >>]
Places == {"idle", "command", "undo", "empty", "take_back", "put_back", "reload",
           "compute", "begin", "write", "keep", "drop", "finish"}
Jobs == {"none", "timer", "edit", "press", "close", "finish"}
Allowed(kind) == kind \in Interference

\* The lists as the session finds them: at most the unit's creation behind,
\* and one undone step ahead.
OtherStep(c) == [by |-> "other", hands |-> {"other"}, before |-> c]

Init ==
  /\ content \in Val
  /\ undo \in {<< >>, <<OtherStep(Unreadable)>>}
  /\ redo \in {<< >>} \union {<<OtherStep(v)>> : v \in Val}
  /\ active = "none" /\ rec = NoRec /\ guiList = "empty"
  /\ stepOpen = FALSE /\ stepDropped = FALSE /\ pending = FALSE
  /\ guiListFilled = FALSE /\ settleQueued = FALSE /\ finished = FALSE
  /\ unit = content /\ drag = FALSE /\ lost = FALSE
  /\ pc = "idle" /\ job = "none" /\ mark = NoMark

------------------------------------------------------------------------------
(* FreeCAD's transactions and the observer slots they call.                *)

StepOf(r) == [by |-> r.by, hands |-> r.hands, before |-> r.before]

\* A change by who, recorded in the open recording or in one the active
\* transaction opens now, which drops the redo list; with neither it is not
\* recorded.  Dropping steps may free view providers the Gui list names.
Record(who, touches) ==
  IF rec # NoRec THEN
    /\ rec' = [by |-> rec.by, hands |-> rec.hands \union {who},
               before |-> rec.before, touched |-> rec.touched \union touches]
    /\ UNCHANGED <<redo, guiList>>
  ELSE IF active = "none" THEN UNCHANGED <<rec, redo, guiList>>
  ELSE
    /\ rec' = [by |-> active, hands |-> {who}, before |-> content, touched |-> touches]
    /\ redo' = << >>
    /\ guiList' \in IF guiList = "live" /\ redo # << >> THEN {"live", "freed"}
                    ELSE {guiList}

slotCommitTransaction(touched, ownMoves) ==
  /\ stepOpen' = FALSE
  /\ drag' = (drag /\ ~stepOpen)
  /\ settleQueued' = \/ settleQueued
                     \/ (~stepOpen /\ ~ownMoves /\ touched # {} /\ ~finished)

\* Commit what is recording for a caller that is not EditHistory.end.
CommitRecording(ownMoves) ==
  /\ undo' = Append(undo, StepOf(rec))
  /\ rec' = NoRec
  /\ slotCommitTransaction(rec.touched, ownMoves)

\* Mutants of Moved: the read-back not queued; the interrupted drag kept.
MovedUnqueued ==
  IF finished THEN UNCHANGED <<stepOpen, stepDropped, drag, settleQueued>>
  ELSE /\ stepDropped' = (stepDropped \/ stepOpen)
       /\ drag' = (drag /\ ~stepOpen)
       /\ stepOpen' = FALSE
       /\ settleQueued' = (settleQueued \/ stepOpen)
MovedKeepingDrag ==
  IF finished THEN UNCHANGED <<stepOpen, stepDropped, drag, settleQueued>>
  ELSE /\ stepDropped' = (stepDropped \/ stepOpen)
       /\ stepOpen' = FALSE
       /\ settleQueued' = TRUE /\ UNCHANGED drag

\* _moved, for an Undo or Redo that is not the history's own.
Moved ==
  IF finished THEN UNCHANGED <<stepOpen, stepDropped, drag, settleQueued>>
  ELSE /\ stepDropped' = (stepDropped \/ stepOpen)
       /\ drag' = (drag /\ ~stepOpen)
       /\ stepOpen' = FALSE
       /\ settleQueued' = TRUE

\* A step moved to the other list puts back the boards as they are now.
Turned(s) == [by |-> s.by, hands |-> s.hands, before |-> content]

UndoStep ==
  /\ undo # << >>
  /\ content' = Last(undo).before
  /\ undo' = Front(undo)
  /\ redo' = Append(redo, Turned(Last(undo)))

RedoStep ==
  /\ redo # << >>
  /\ content' = Last(redo).before
  /\ redo' = Front(redo)
  /\ undo' = Append(undo, Turned(Last(redo)))

\* Gui Undo notes every view provider it brings back.
GuiUndoNotes == guiList' \in IF guiList = "freed" THEN {"freed"} ELSE {guiList, "live"}

------------------------------------------------------------------------------
(* The user's Undo and Redo: Std_Undo and Std_Redo (gui) or the document's. *)

UndoCommitsFirst ==
  /\ pc = "idle" /\ rec # NoRec
  /\ CommitRecording(FALSE)
  /\ active' = "none" /\ pc' = "undo"
  /\ UNCHANGED <<content, redo, guiList, stepDropped, pending, guiListFilled,
                 finished, unit, lost, job, mark>>

\* Mutant of Undo: slotUndoDocument notes no filled list.
UndoUnnoted(gui) ==
  /\ \/ pc = "undo"
     \/ pc = "idle" /\ rec = NoRec
  /\ UndoStep
  /\ IF gui THEN GuiUndoNotes ELSE UNCHANGED guiList
  /\ Moved
  /\ pc' = "idle"
  /\ UNCHANGED <<active, rec, pending, guiListFilled, finished, unit, lost, job, mark>>

Undo(gui) ==
  /\ \/ pc = "undo"
     \/ pc = "idle" /\ rec = NoRec
  /\ UndoStep
  /\ IF gui THEN GuiUndoNotes ELSE UNCHANGED guiList
  /\ guiListFilled' = (guiListFilled \/ (gui /\ ~finished))
  /\ Moved
  /\ pc' = "idle"
  /\ UNCHANGED <<active, rec, pending, finished, unit, lost, job, mark>>

Redo(gui) ==
  /\ pc = "idle" /\ rec = NoRec
  /\ RedoStep
  /\ IF gui THEN guiList' = "empty" ELSE UNCHANGED guiList
  /\ guiListFilled' = (guiListFilled /\ ~(gui /\ ~finished))
  /\ Moved
  /\ UNCHANGED <<active, rec, pending, finished, unit, lost, pc, job, mark>>

------------------------------------------------------------------------------
(* Other commands and bare changes in the same document.                   *)

Room == Len(undo) < MaxSteps

Undisturbed ==
  /\ stepOpen /\ rec = NoRec => Allowed("command_in_drag")
  /\ settleQueued => Allowed("command_before_read_back")

\* Opening a transaction commits the one another was recording.
OtherOpens ==
  /\ pc = "idle" /\ Room /\ Undisturbed
  /\ active' = "other" /\ pc' = "command"
  /\ \/ rec = NoRec /\ UNCHANGED <<undo, rec, stepOpen, drag, settleQueued>>
     \/ rec # NoRec /\ CommitRecording(FALSE)
  /\ UNCHANGED <<content, redo, guiList, stepDropped, pending, guiListFilled,
                 finished, unit, lost, job, mark>>

OtherWrites(v) ==
  /\ pc = "command"
  /\ Record("other", Thing)
  /\ content' = v
  /\ UNCHANGED <<undo, active, history, session, pc, job, mark>>

OtherCommits ==
  /\ pc = "command"
  /\ \/ rec = NoRec /\ UNCHANGED <<undo, rec, stepOpen, drag, settleQueued>>
     \/ rec # NoRec /\ CommitRecording(FALSE)
  /\ active' = "none" /\ pc' = "idle"
  /\ UNCHANGED <<content, redo, guiList, stepDropped, pending, guiListFilled,
                 finished, unit, lost, job, mark>>

OtherAborts ==
  /\ pc = "command" /\ rec # NoRec
  /\ content' = rec.before
  /\ rec' = NoRec /\ active' = "none" /\ pc' = "idle"
  /\ UNCHANGED <<undo, redo, guiList, history, session, job, mark>>

OtherLeavesOpen ==
  /\ pc = "command" /\ Allowed("command_left_open")
  /\ pc' = "idle"
  /\ UNCHANGED <<document, history, session, job, mark>>

\* A change to something the session does not read, with no transaction of
\* its own: the whole hazard is which step it lands in.
BareChange(touches) ==
  /\ pc = "idle" /\ Room /\ ~settleQueued /\ active # "none"
  /\ stepOpen => Allowed("command_in_drag")
  /\ Record("other", touches)
  /\ UNCHANGED <<content, undo, active, history, session, pc, job, mark>>

------------------------------------------------------------------------------
(* EditHistory.settle and _empty_gui_list.                                 *)

\* The document as it stands, an open recording counted as the step it will be.
Found == [content |-> content, redo |-> redo,
          steps |-> IF rec = NoRec THEN undo ELSE Append(undo, StepOf(rec))]

\* Where the handler that settled goes on.
After(j) == IF j = "timer" THEN "idle" ELSE IF j = "close" THEN "finish" ELSE "compute"

\* Mutant of SettleBegins: a dropped step's pending transaction stays.
SettleKeepingPending(j) ==
  /\ settleQueued' = FALSE /\ stepDropped' = FALSE
  /\ mark' = Found
  /\ pc' = "empty" /\ job' = j
  /\ UNCHANGED <<document, pending, stepOpen, guiListFilled, finished, unit, lost>>

\* The head of settle, called by the timer or by the handler j.
\* _close_pending closes the transaction an interrupted step left pending.
SettleBegins(j) ==
  /\ settleQueued' = FALSE /\ stepDropped' = FALSE
  /\ IF stepDropped /\ pending /\ active = "session"
     THEN active' = "none" /\ pending' = FALSE
     ELSE UNCHANGED active /\ pending' = (pending /\ ~stepDropped)
  /\ mark' = Found
  /\ pc' = "empty" /\ job' = j
  /\ UNCHANGED <<content, undo, redo, rec, guiList, stepOpen, guiListFilled,
                 finished, unit, lost>>

SettleTimer ==
  /\ pc = "idle" /\ settleQueued /\ ~finished
  /\ SettleBegins("timer")
  /\ UNCHANGED drag

\* Mutant of SettleFirst: the handler does not settle.
SettleNever(j) == /\ pc' = After(j) /\ job' = j
                  /\ UNCHANGED <<document, history, unit, lost, mark>>

\* settle as the first call of a handler; nothing to do unless one is queued.
SettleFirst(j) ==
  IF settleQueued THEN SettleBegins(j)
  ELSE /\ pc' = After(j) /\ job' = j
       /\ UNCHANGED <<document, history, unit, lost, mark>>

\* Mutant of AfterEmptying: the emptied list stands in for the read-back.
EmptyingWithoutReload ==
  \/ job = "finish" /\ finished' = TRUE /\ pc' = "idle" /\ job' = "none"
  \/ job # "finish" /\ pc' = After(job) /\ UNCHANGED <<finished, job>>

AfterEmptying ==
  \/ job = "finish" /\ finished' = TRUE /\ pc' = "idle" /\ job' = "none"
  \/ job # "finish" /\ pc' = "reload" /\ UNCHANGED <<finished, job>>

NothingToEmpty ==
  /\ pc = "empty"
  /\ guiListFilled => undo = << >> /\ redo = << >> /\ rec = NoRec
  /\ guiListFilled' = FALSE
  /\ AfterEmptying
  /\ UNCHANGED <<document, stepOpen, stepDropped, pending, settleQueued, session, mark>>

\* With steps ahead: Std_Redo walks and empties the list ...
EmptyByRedo ==
  /\ pc = "empty" /\ guiListFilled
  /\ RedoStep
  /\ guiList' = "empty" /\ guiListFilled' = FALSE /\ pc' = "take_back"
  /\ UNCHANGED <<active, rec, stepOpen, stepDropped, pending, settleQueued,
                 finished, session, job, mark>>

\* ... and the document's own undo takes the step back, noting nothing.
TakeBack ==
  /\ pc = "take_back"
  /\ UndoStep
  /\ AfterEmptying
  /\ UNCHANGED <<active, rec, guiList, stepOpen, stepDropped, pending,
                 guiListFilled, settleQueued, session, mark>>

\* Mutant of RedoRefused: a Redo that did not run is taken back.
RedoRefusedTakenBack ==
  /\ pc = "empty" /\ guiListFilled /\ redo # << >> /\ Allowed("redo_refused")
  /\ guiListFilled' = FALSE
  /\ \/ undo # << >> /\ pc' = "take_back" /\ UNCHANGED <<finished, job>>
     \/ undo = << >> /\ AfterEmptying
  /\ UNCHANGED <<document, stepOpen, stepDropped, pending, settleQueued, session, mark>>

\* Std_Redo did not run: nothing to take back, and the list is left as it is.
RedoRefused ==
  /\ pc = "empty" /\ guiListFilled /\ redo # << >> /\ Allowed("redo_refused")
  /\ guiListFilled' = FALSE
  /\ AfterEmptying
  /\ UNCHANGED <<document, stepOpen, stepDropped, pending, settleQueued, session, mark>>

\* With none ahead: Std_Undo, which commits an open recording first ...
EmptyCommitsFirst ==
  /\ pc = "empty" /\ guiListFilled /\ redo = << >> /\ rec # NoRec
  /\ CommitRecording(TRUE)
  /\ active' = "none"
  /\ UNCHANGED <<content, redo, guiList, stepDropped, pending, guiListFilled,
                 finished, unit, lost, pc, job, mark>>

EmptyByUndo ==
  /\ pc = "empty" /\ guiListFilled /\ redo = << >> /\ rec = NoRec
  /\ UndoStep
  /\ GuiUndoNotes
  /\ pc' = "put_back"
  /\ UNCHANGED <<active, rec, history, session, job, mark>>

\* ... then Std_Redo, which empties the list and puts the step back.
PutBack ==
  /\ pc = "put_back"
  /\ RedoStep
  /\ guiList' = "empty" /\ guiListFilled' = FALSE
  /\ AfterEmptying
  /\ UNCHANGED <<active, rec, stepOpen, stepDropped, pending, settleQueued,
                 session, mark>>

\* Mutant of Reload: what no longer scans is adopted all the same.
ReloadUnchecked ==
  /\ pc = "reload"
  /\ pc' = After(job)
  /\ unit' = content
  /\ mark' = NoMark
  /\ job' = IF job = "timer" THEN "none" ELSE job
  /\ UNCHANGED <<document, history, drag, lost>>

\* Session.reload.  A unit that no longer reads is lost: on_change closes the
\* panel, which closes this session before reload returns to the handler.
Reload ==
  /\ pc = "reload"
  /\ pc' = After(job)
  /\ \/ content \in Val /\ unit' = content /\ UNCHANGED <<drag, lost, finished>>
     \/ /\ content \notin Val
        /\ lost' = TRUE /\ drag' = FALSE /\ finished' = TRUE
        /\ UNCHANGED unit
  /\ mark' = NoMark
  /\ job' = IF job = "timer" THEN "none" ELSE job
  /\ UNCHANGED <<document, stepOpen, stepDropped, pending, guiListFilled, settleQueued>>

------------------------------------------------------------------------------
(* Session's edits: settle, compute a candidate from the unit, then _step.  *)

Edit ==
  /\ pc = "idle" /\ Room /\ ~finished
  /\ drag => Allowed("edit_in_drag")
  /\ SettleFirst("edit")
  /\ UNCHANGED drag

BeginDrag ==
  /\ pc = "idle" /\ Room /\ ~finished /\ ~drag
  /\ SettleFirst("press")
  /\ UNCHANGED drag

\* Nothing selected, an EditError, or nothing to change.
Refuse ==
  /\ pc = "compute"
  /\ pc' = "idle" /\ job' = "none"
  /\ UNCHANGED <<document, history, session, mark>>

\* The candidate stands.  A finished history is not asked for a step.
Accept ==
  /\ pc = "compute"
  /\ drag' = (drag \/ job = "press")
  /\ \/ ~finished /\ pc' = "begin" /\ UNCHANGED job
     \/ finished /\ job = "press" /\ pc' = "idle" /\ job' = "none"
     \/ finished /\ job # "press" /\ pc' = "write" /\ UNCHANGED job
  /\ UNCHANGED <<document, history, unit, lost, mark>>

\* EditHistory.begin.  The name is set before openTransaction, which commits
\* whatever was recording; the slot then takes that for an interruption.  An
\* edit comes from the panel, with no Gui command holding a transaction, so the
\* one opened is the history's own (_open).
Begin ==
  /\ pc = "begin"
  /\ active' = "session" /\ pending' = TRUE
  /\ \/ rec = NoRec /\ stepOpen' = TRUE /\ UNCHANGED <<undo, rec, drag>>
     \/ /\ rec # NoRec /\ undo' = Append(undo, StepOf(rec)) /\ rec' = NoRec
        /\ stepOpen' = FALSE /\ drag' = FALSE
  /\ \/ job = "press" /\ pc' = "idle" /\ job' = "none"
     \/ job # "press" /\ pc' = "write" /\ UNCHANGED job
  /\ UNCHANGED <<content, redo, guiList, stepDropped, guiListFilled, settleQueued,
                 finished, unit, lost, mark>>

\* Writing raises when the container is gone; a finished session's edits run
\* outside any step.
Writable == content \in Val \/ Allowed("still_there")
AfterWrite(place) == \/ finished /\ pc' = "idle" /\ job' = "none"
                     \/ ~finished /\ pc' = place /\ UNCHANGED job

\* _apply solves, writes every board, and adopts the candidate.
Write(v) ==
  /\ pc = "write" /\ Writable
  /\ Record("session", Thing)
  /\ content' = v /\ unit' = v
  /\ AfterWrite("keep")
  /\ UNCHANGED <<undo, active, history, drag, lost, mark>>

\* An edit that finds nothing to write, as deleting no object does.
WriteNothing ==
  /\ pc = "write"
  /\ AfterWrite("keep")
  /\ UNCHANGED <<document, history, session, mark>>

\* The candidate does not solve, or a back would lose its size.
WriteRefused ==
  /\ pc = "write"
  /\ AfterWrite("drop")
  /\ UNCHANGED <<document, history, session, mark>>

\* write_container raises with some boards written.
WriteRaises(v) ==
  /\ pc = "write" /\ Writable /\ ~finished
  /\ Record("session", Thing)
  /\ content' = v /\ pc' = "drop"
  /\ UNCHANGED <<undo, active, history, session, job, mark>>

\* swap_stock: the boards written and adopted, then a material or a colour
\* raises.
PaintRaises(v) ==
  /\ pc = "write" /\ Writable /\ ~finished /\ Allowed("write_fails_late")
  /\ Record("session", Thing)
  /\ content' = v /\ unit' = v /\ pc' = "drop"
  /\ UNCHANGED <<undo, active, history, drag, lost, job, mark>>

\* Mutants of EndStep: the pending transaction not closed; a refused step
\* dropped without its rollback.
EndKeepingPending(keep) ==
  IF ~stepOpen THEN UNCHANGED <<content, undo, active, rec, stepOpen, pending>>
  ELSE
    /\ rec' = NoRec
    /\ undo' = IF rec # NoRec /\ keep THEN Append(undo, StepOf(rec)) ELSE undo
    /\ content' = IF rec # NoRec /\ ~keep THEN rec.before ELSE content
    /\ active' = IF rec # NoRec THEN "none" ELSE active
    /\ stepOpen' = FALSE /\ pending' = FALSE
EndWithoutRollback(keep) ==
  IF ~stepOpen THEN UNCHANGED <<content, undo, active, rec, stepOpen, pending>>
  ELSE
    /\ rec' = NoRec
    /\ undo' = IF rec # NoRec /\ keep THEN Append(undo, StepOf(rec)) ELSE undo
    /\ active' = "none" /\ stepOpen' = FALSE /\ pending' = FALSE
    /\ UNCHANGED content

\* EditHistory.end, then _close_pending.
EndStep(keep) ==
  IF ~stepOpen THEN UNCHANGED <<content, undo, active, rec, stepOpen, pending>>
  ELSE
    /\ rec' = NoRec
    /\ undo' = IF rec # NoRec /\ keep THEN Append(undo, StepOf(rec)) ELSE undo
    /\ content' = IF rec # NoRec /\ ~keep THEN rec.before ELSE content
    /\ active' = IF rec # NoRec \/ (pending /\ active = "session") THEN "none" ELSE active
    /\ stepOpen' = FALSE /\ pending' = FALSE

End ==
  /\ pc \in {"keep", "drop"}
  /\ EndStep(pc = "keep")
  /\ pc' = "idle" /\ job' = "none"
  /\ UNCHANGED <<redo, guiList, stepDropped, guiListFilled, settleQueued,
                 finished, session, mark>>

\* drag_to settles nothing: the drag's step has been open since begin_drag.
\* Closing the editor takes the dragger away, so a closed session sees none.
DragTo(v) ==
  /\ pc = "idle" /\ drag /\ Writable /\ Room /\ ~finished
  /\ Record("session", Thing)
  /\ content' = v /\ unit' = v
  /\ UNCHANGED <<undo, active, history, drag, lost, pc, job, mark>>

\* write_container raises inside drag_to, which no _step watches over: the
\* boards written stay written, and the drag goes on from the old unit.
DragRaises(v) ==
  /\ pc = "idle" /\ drag /\ Writable /\ Room /\ ~finished
  /\ Allowed("drag_write_fails")
  /\ Record("session", Thing)
  /\ content' = v
  /\ UNCHANGED <<undo, active, history, session, pc, job, mark>>

EndDrag ==
  /\ pc = "idle" /\ drag /\ ~finished
  /\ drag' = FALSE
  /\ EndStep(TRUE)
  /\ UNCHANGED <<redo, guiList, stepDropped, guiListFilled, settleQueued,
                 finished, unit, lost, pc, job, mark>>

\* Session.close: the drag is dropped, then EditHistory.finish settles, ends
\* the step, empties the Gui list and stops observing.
Close ==
  /\ pc = "idle" /\ ~finished
  /\ drag' = FALSE
  /\ SettleFirst("close")

Finish ==
  /\ pc = "finish"
  /\ \/ /\ finished /\ pc' = "idle" /\ job' = "none"
        /\ UNCHANGED <<content, undo, active, rec, stepOpen, pending>>
     \/ ~finished /\ EndStep(TRUE) /\ pc' = "empty" /\ job' = "finish"
  /\ UNCHANGED <<redo, guiList, stepDropped, guiListFilled, settleQueued,
                 finished, session, mark>>

------------------------------------------------------------------------------
UserMoves == UndoCommitsFirst \/ \E gui \in BOOLEAN : Undo(gui) \/ Redo(gui)

Others ==
  \/ OtherOpens \/ OtherCommits \/ OtherAborts \/ OtherLeavesOpen
  \/ \E v \in Content : OtherWrites(v)
  \/ \E touches \in SUBSET Thing : BareChange(touches)

\* What the session or Qt does on its own once a handler or timer is due.
Settling ==
  \/ SettleTimer \/ NothingToEmpty \/ EmptyByRedo \/ TakeBack \/ RedoRefused
  \/ EmptyCommitsFirst \/ EmptyByUndo \/ PutBack \/ Reload

Editing ==
  \/ Refuse \/ Accept \/ Begin \/ WriteNothing \/ WriteRefused \/ End \/ Finish
  \/ \E v \in Val : Write(v) \/ WriteRaises(v) \/ PaintRaises(v)

UserEdits == Edit \/ BeginDrag \/ EndDrag \/ Close
             \/ \E v \in Val : DragTo(v) \/ DragRaises(v)

Next == UserMoves \/ Others \/ Settling \/ Editing \/ UserEdits

Spec == Init /\ [][Next]_vars

\* A queued singleShot fires and a running handler goes on to its end; the
\* user and the other commands owe nothing, except that a command or an Undo
\* that has started returns.
Fairness == /\ WF_vars(Settling) /\ WF_vars(Editing)
            /\ WF_vars(OtherCommits) /\ WF_vars(pc = "undo" /\ \E gui \in BOOLEAN : Undo(gui))

FairSpec == Spec /\ Fairness

------------------------------------------------------------------------------
(* Properties.                                                             *)

Marks == [content : Content, redo : Seq(Step), steps : Seq(Step)]

\* The type invariant.
DataOK ==
  /\ content \in Content /\ undo \in Seq(Step) /\ redo \in Seq(Step)
  /\ active \in Who \union {"none"} /\ rec \in Recording \union {NoRec}
  /\ guiList \in {"empty", "live", "freed"}
  /\ unit \in Val
  /\ pc \in Places /\ job \in Jobs /\ mark \in Marks \union {NoMark}
FlagsOK ==
  /\ stepOpen \in BOOLEAN /\ stepDropped \in BOOLEAN /\ pending \in BOOLEAN
  /\ guiListFilled \in BOOLEAN /\ settleQueued \in BOOLEAN /\ finished \in BOOLEAN
  /\ drag \in BOOLEAN /\ lost \in BOOLEAN
TypeOK == DataOK /\ FlagsOK

\* Whenever no handler runs and no read-back is queued, the unit the session
\* shows and edits is the one in the document: an Undo, a Redo or another
\* command's step never leaves it behind unnoticed (EditHistory's slots).
UnitIsCurrent ==
  pc = "idle" /\ ~settleQueued /\ ~finished /\ active # "other" => unit = content

\* No edit or drag writes boards computed from a unit other than the one in
\* the document at that moment, so none undoes an Undo or overwrites another
\* command's step (each edit settles first; a drag's step stands in for it).
SessionWrites == \E v \in Val : Write(v) \/ WriteRaises(v) \/ PaintRaises(v)
                              \/ DragTo(v) \/ DragRaises(v)
WritesFromTheDocument == [][SessionWrites => unit = content]_vars

\* A step in either list, or recording, under the session's name holds only
\* the session's changes, and another's holds none of them: what one Undo
\* takes back is one edit.
OneHand(s) == s.hands = {s.by}
StepsAreOneHands ==
  /\ \A i \in DOMAIN undo : OneHand(undo[i])
  /\ \A i \in DOMAIN redo : OneHand(redo[i])
  /\ rec # NoRec => OneHand(rec)

\* Between handlers the session holds a transaction open only for a drag, or
\* for the drag an Undo just dropped until its read-back runs: end and
\* _close_pending leave none behind, not even an empty one.
NothingLeftOpen ==
  pc = "idle" /\ active = "session" =>
    \/ stepOpen /\ drag
    \/ stepDropped /\ settleQueued /\ rec = NoRec

\* While a drag goes on its step is open and no read-back is queued, which is
\* why drag_to may write without settling first.
DragHoldsItsStep ==
  pc = "idle" /\ drag /\ ~finished =>
    stepOpen /\ pending /\ active = "session" /\ ~settleQueued

\* A refused or failed edit leaves both lists as they were and the document
\* as the session knows it (EditHistory.end with keep False).
RefusalLeavesNoStep ==
  [][pc = "drop" => undo' = undo /\ redo' = redo /\ rec' = NoRec
                    /\ content' = unit]_vars

\* _empty_gui_list moves the document and takes the move back: when the
\* read-back scans it, it is where settle found it, both lists included.
EmptyingMovesNothing == pc = "reload" => mark = Found

\* While the session follows the document, no view provider Gui Redo would
\* walk has been freed: the list is emptied before an edit drops the Redo
\* steps that keep its entries alive.
GuiListIsAlive == ~finished => guiList # "freed"

\* The inductive invariant behind UnitIsCurrent, DragHoldsItsStep and
\* NothingLeftOpen when nothing interferes, as EditHistoryProofs shows: who
\* holds a transaction, when a drag is on, and what the unit equals at each
\* point of a handler.
Emptying == {"empty", "take_back", "put_back", "reload"}
StepInv ==
  /\ stepOpen => /\ pending /\ active = "session" /\ ~settleQueued /\ ~finished
                 /\ pc \in {"idle", "write", "keep", "drop", "finish"}
                 /\ pc = "idle" => drag
  /\ pc \in {"keep", "drop"} => stepOpen
  /\ pc = "write" => stepOpen \/ lost
  /\ pc = "compute" /\ finished => lost
  /\ drag => \/ finished \/ (pc = "idle" /\ stepOpen)
             \/ (pc = "begin" /\ job = "press")
  /\ pc = "begin" /\ job = "press" => drag
TransactionInv ==
  /\ active = "other" <=> pc = "command"
  /\ active = "session" =>
       stepOpen \/ (pc = "idle" /\ stepDropped /\ settleQueued /\ pending /\ rec = NoRec)
  /\ rec # NoRec => stepOpen \/ (pc = "command" /\ rec.touched # {})
  /\ stepDropped => settleQueued
  /\ lost => finished
  /\ pc \in Emptying \union {"compute", "begin", "write", "finish"} => ~settleQueued
  /\ settleQueued => ~finished
ControlInv ==
  /\ pc \in {"idle", "command", "undo"} <=> job = "none"
  /\ pc \in {"compute", "begin"} => job \in {"edit", "press"}
  /\ pc \in {"write", "keep", "drop"} => job = "edit"
  /\ pc = "finish" => job = "close"
  /\ pc = "reload" => job # "finish"
  /\ pc \in Emptying \union {"begin"} => ~finished
  /\ pc = "write" => rec = NoRec
CurrencyInv ==
  /\ pc \in {"idle", "command"} /\ ~settleQueued /\ ~finished =>
       unit = IF pc = "command" /\ rec # NoRec THEN rec.before ELSE content
  /\ pc \in {"compute", "begin", "write", "keep", "finish"} /\ ~finished => unit = content
  /\ pc = "drop" => unit = IF rec = NoRec THEN content ELSE rec.before
  /\ pc \in {"compute", "write"} /\ finished => content \notin Val
SessionInv == StepInv /\ TransactionInv /\ ControlInv /\ CurrencyInv

\* Every Undo, Redo or other step is read back in the end, unless the session
\* closes first, and Close always ends, whatever it has to read back first
\* (history.py _queue_settle and finish, session.py settle and close).
SessionKeepsUp ==
  /\ settleQueued /\ ~finished ~> finished \/ (~settleQueued /\ unit = content)
  /\ job = "close" ~> finished

\* The undo list seen as a line of states, the open step not yet on it.
Line == INSTANCE LinearHistory WITH
  State <- Content,
  past <- [i \in DOMAIN undo |-> undo[i].before],
  present <- IF rec = NoRec THEN content ELSE rec.before,
  future <- [i \in DOMAIN redo |-> redo[i].before]

\* Every behaviour of the session, drags cut short by an Undo included, is
\* one of a linear history: no half-made step is ever on the line.
HistoryIsLinear == Line!Init /\ [][Line!Next]_(Line!historyVars)
==============================================================================
