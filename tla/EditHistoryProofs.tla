-------------------------- MODULE EditHistoryProofs --------------------------
(***************************************************************************)
(* What EditHistory guarantees for every set of unit states and every      *)
(* length of the lists: its invariants, and from them that it implements   *)
(* LinearHistory, that emptying the Gui list moves nothing, that every     *)
(* step is one hand's and that no freed list is walked.                    *)
(***************************************************************************)
EXTENDS EditHistory, SequenceTheorems, TLAPS

------------------------------------------------------------------------------
(* Facts about sequences and records used below.                           *)

\* A non-empty sequence's last element and the rest of it.
LEMMA FrontLast ==
  ASSUME NEW S, NEW s \in Seq(S), s # << >>
  PROVE  Front(s) \in Seq(S) /\ Last(s) \in S
<1>1. Len(s) \in Nat /\ Len(s) >= 1 /\ \A i \in 1..Len(s) : s[i] \in S
  BY EmptySeq, LenProperties, ElementOfSeq
<1>2. Last(s) \in S
  BY <1>1 DEF Last
<1>3. Front(s) \in Seq(S)
  BY <1>1, SubSeqProperties, 1 \in Int, Len(s) - 1 \in Int,
     \A i \in 1..(Len(s) - 1) : s[i] \in S DEF Front
<1>4. QED
  BY <1>2, <1>3

\* A recording is never mistaken for none.
LEMMA RecordingIsNot ==
  NoRec \notin Recording
BY DEF NoRec, Recording, Who

LEMMA StepOfIsStep ==
  ASSUME NEW r \in Recording
  PROVE  StepOf(r) \in Step
BY DEF StepOf, Recording, Step

\* What a recorded change leaves of the recording and of the lists.
LEMMA RecordTyped ==
  ASSUME DataOK, NEW who \in Who, NEW touches \in SUBSET Thing, Record(who, touches)
  PROVE  /\ rec' \in Recording \union {NoRec}
         /\ redo' \in Seq(Step)
         /\ guiList' \in {"empty", "live", "freed"}
<1>1. CASE rec # NoRec
  <2>1. rec \in Recording
    BY <1>1 DEF DataOK
  <2>2. rec.by \in Who /\ rec.hands \union {who} \in SUBSET Who
        /\ rec.before \in Content /\ rec.touched \union touches \in SUBSET Thing
    BY <2>1 DEF Recording
  <2>3. rec' \in Recording
    BY <1>1, <2>2 DEF Recording, Record
  <2>4. QED
    BY <1>1, <2>3 DEF Record, DataOK
<1>2. CASE rec = NoRec /\ active = "none"
  BY <1>2 DEF Record, DataOK
<1>3. CASE rec = NoRec /\ active # "none"
  <2>1. rec' \in Recording
    BY <1>3 DEF Record, DataOK, Recording, Who
  <2>2. redo' \in Seq(Step)
    BY <1>3 DEF Record, DataOK
  <2>3. guiList' \in {"empty", "live", "freed"}
    BY <1>3 DEF Record, DataOK
  <2>4. QED
    BY <2>1, <2>2, <2>3
<1>4. QED
  BY <1>1, <1>2, <1>3

LEMMA TurnedTyped ==
  ASSUME NEW s \in Step, content \in Content
  PROVE  Turned(s) \in Step
BY DEF Turned, Step

LEMMA UndoStepTyped ==
  ASSUME DataOK, UndoStep
  PROVE  content' \in Content /\ undo' \in Seq(Step) /\ redo' \in Seq(Step)
<1>1. Front(undo) \in Seq(Step) /\ Last(undo) \in Step
  BY FrontLast DEF DataOK, UndoStep, RedoStep
<1>2. Turned(Last(undo)) \in Step
  BY <1>1, TurnedTyped DEF DataOK
<1>3. Last(undo).before \in Content
  BY <1>1 DEF Step
<1>4. QED
  BY <1>1, <1>2, <1>3, AppendProperties DEF UndoStep, DataOK

LEMMA RedoStepTyped ==
  ASSUME DataOK, RedoStep
  PROVE  content' \in Content /\ undo' \in Seq(Step) /\ redo' \in Seq(Step)
<1>1. Front(redo) \in Seq(Step) /\ Last(redo) \in Step
  BY FrontLast DEF DataOK, UndoStep, RedoStep
<1>2. Turned(Last(redo)) \in Step
  BY <1>1, TurnedTyped DEF DataOK
<1>3. Last(redo).before \in Content
  BY <1>1 DEF Step
<1>4. QED
  BY <1>1, <1>2, <1>3, AppendProperties DEF RedoStep, DataOK

\* Committing what is recording.
LEMMA CommitTyped ==
  ASSUME DataOK, rec # NoRec, NEW ownMoves \in BOOLEAN, CommitRecording(ownMoves)
  PROVE  undo' \in Seq(Step) /\ rec' = NoRec
<1>1. rec \in Recording
  BY DEF DataOK
<1>2. StepOf(rec) \in Step
  BY <1>1, StepOfIsStep
<1>3. Append(undo, StepOf(rec)) \in Seq(Step) 
  BY <1>2, AppendProperties DEF DataOK
<1>4. QED
  BY <1>3 DEF CommitRecording

LEMMA FoundTyped ==
  ASSUME DataOK
  PROVE  Found \in Marks
<1>1. CASE rec = NoRec
  BY <1>1 DEF Found, Marks, DataOK
<1>2. CASE rec # NoRec
  <2>1. Append(undo, StepOf(rec)) \in Seq(Step)
    BY <1>2, StepOfIsStep, AppendProperties DEF DataOK
  <2>2. QED
    BY <1>2, <2>1 DEF Found, Marks, DataOK
<1>3. QED
  BY <1>1, <1>2

LEMMA SettleTyped ==
  ASSUME DataOK, NEW j \in Jobs, SettleBegins(j) \/ SettleFirst(j)
  PROVE  DataOK'
<1>1. CASE SettleBegins(j)
  BY <1>1, FoundTyped DEF DataOK, SettleBegins, Places
<1>2. CASE ~settleQueued /\ SettleFirst(j)
  BY <1>2 DEF DataOK, SettleFirst, After, Places, document, history
<1>3. QED
  BY <1>1, <1>2 DEF SettleFirst

LEMMA EndStepTyped ==
  ASSUME DataOK, NEW keep \in BOOLEAN, EndStep(keep)
  PROVE  /\ content' \in Content /\ undo' \in Seq(Step)
         /\ active' \in Who \union {"none"} /\ rec' \in Recording \union {NoRec}
<1>1. CASE ~stepOpen \/ rec = NoRec
  BY <1>1 DEF DataOK, EndStep
<1>2. CASE stepOpen /\ rec # NoRec
  <2>1. rec \in Recording /\ StepOf(rec) \in Step
    BY <1>2, StepOfIsStep DEF DataOK
  <2>2. Append(undo, StepOf(rec)) \in Seq(Step)
    BY <2>1, AppendProperties DEF DataOK
  <2>3. rec.before \in Content
    BY <2>1 DEF Recording
  <2>4. QED
    BY <1>2, <2>2, <2>3 DEF DataOK, EndStep
<1>3. QED
  BY <1>1, <1>2

------------------------------------------------------------------------------
\* No step takes a document or a unit out of its type.
LEMMA DataStep == DataOK /\ [Next]_vars => DataOK'
<1> SUFFICES ASSUME DataOK, [Next]_vars PROVE DataOK'
  OBVIOUS
<1> USE DEF document, history, session
<1>1. CASE UserMoves
  <2>1. CASE UndoCommitsFirst
    BY <2>1, CommitTyped DEF DataOK, UndoCommitsFirst, Places
  <2>2. ASSUME NEW gui \in BOOLEAN, Undo(gui) PROVE DataOK'
    BY <2>2, UndoStepTyped DEF DataOK, Undo, GuiUndoNotes, Places
  <2>3. ASSUME NEW gui \in BOOLEAN, Redo(gui) PROVE DataOK'
    BY <2>3, RedoStepTyped DEF DataOK, Redo, Places
  <2>4. QED
    BY <1>1, <2>1, <2>2, <2>3 DEF UserMoves
<1>2. CASE Others
  <2>1. CASE OtherOpens
    BY <2>1, CommitTyped DEF DataOK, OtherOpens, Places, Who
  <2>2. CASE OtherCommits
    BY <2>2, CommitTyped DEF DataOK, OtherCommits, Places
  <2>3. CASE OtherAborts
    BY <2>3 DEF DataOK, OtherAborts, Places, Recording
  <2>4. CASE OtherLeavesOpen
    BY <2>4 DEF DataOK, OtherLeavesOpen, Places
  <2>5. ASSUME NEW v \in Content, OtherWrites(v) PROVE DataOK'
    BY <2>5, RecordTyped DEF DataOK, OtherWrites, Who, Thing
  <2>6. ASSUME NEW touches \in SUBSET Thing, BareChange(touches) PROVE DataOK'
    BY <2>6, RecordTyped DEF DataOK, BareChange, Who
  <2>7. QED
    BY <1>2, <2>1, <2>2, <2>3, <2>4, <2>5, <2>6 DEF Others
<1>3. CASE Settling
  <2>1. CASE SettleTimer
    BY <2>1, SettleTyped DEF DataOK, SettleTimer, Jobs
  <2>2. CASE NothingToEmpty \/ RedoRefused
    BY <2>2 DEF DataOK, NothingToEmpty, RedoRefused, AfterEmptying, Places, Jobs
  <2>3. CASE EmptyByRedo
    BY <2>3, RedoStepTyped DEF DataOK, EmptyByRedo, Places
  <2>4. CASE TakeBack
    BY <2>4, UndoStepTyped DEF DataOK, TakeBack, AfterEmptying, Places, Jobs
  <2>5. CASE EmptyCommitsFirst
    BY <2>5, CommitTyped DEF DataOK, EmptyCommitsFirst
  <2>6. CASE EmptyByUndo
    BY <2>6, UndoStepTyped DEF DataOK, EmptyByUndo, GuiUndoNotes, Places
  <2>7. CASE PutBack
    BY <2>7, RedoStepTyped DEF DataOK, PutBack, AfterEmptying, Places, Jobs
  <2>8. CASE Reload
    BY <2>8 DEF DataOK, Reload, After, Places, Jobs
  <2>9. QED
    BY <1>3, <2>1, <2>2, <2>3, <2>4, <2>5, <2>6, <2>7, <2>8 DEF Settling
<1>4. CASE Editing
  <2>1. CASE Refuse \/ Accept
    BY <2>1 DEF DataOK, Refuse, Accept, Places, Jobs
  <2>2. CASE Begin
    <3>1. rec # NoRec => Append(undo, StepOf(rec)) \in Seq(Step)
      BY StepOfIsStep, AppendProperties DEF DataOK
    <3>2. QED
      BY <2>2, <3>1 DEF DataOK, Begin, Places, Jobs, Who
  <2>3. CASE WriteNothing \/ WriteRefused
    BY <2>3 DEF DataOK, WriteNothing, WriteRefused, AfterWrite, Places, Jobs
  <2>4. CASE End
    BY <2>4, EndStepTyped DEF DataOK, End, Places, Jobs
  <2>5. CASE Finish
    BY <2>5, EndStepTyped DEF DataOK, Finish, Places, Jobs
  <2>6. ASSUME NEW v \in Val, Write(v) \/ WriteRaises(v) \/ PaintRaises(v) PROVE DataOK'
    <3>1. Record("session", Thing)
      BY <2>6 DEF Write, WriteRaises, PaintRaises
    <3>2. QED
      BY <2>6, <3>1, RecordTyped
      DEF DataOK, Write, WriteRaises, PaintRaises, AfterWrite, Places, Jobs, Who, Thing, Content
  <2>7. QED
    BY <1>4, <2>1, <2>2, <2>3, <2>4, <2>5, <2>6 DEF Editing
<1>5. CASE UserEdits
  <2>1. CASE Edit
    BY <2>1, SettleTyped DEF DataOK, Edit, Jobs
  <2>2. CASE BeginDrag
    BY <2>2, SettleTyped DEF DataOK, BeginDrag, Jobs
  <2>3. CASE Close
    BY <2>3, SettleTyped DEF DataOK, Close, Jobs
  <2>4. CASE EndDrag
    BY <2>4, EndStepTyped DEF DataOK, EndDrag
  <2>5. ASSUME NEW v \in Val, DragTo(v) \/ DragRaises(v) PROVE DataOK'
    <3>1. Record("session", Thing)
      BY <2>5 DEF DragTo, DragRaises
    <3>2. QED
      BY <2>5, <3>1, RecordTyped DEF DataOK, DragTo, DragRaises, Who, Thing, Content
  <2>6. QED
    BY <1>5, <2>1, <2>2, <2>3, <2>4, <2>5 DEF UserEdits
<1>6. CASE UNCHANGED vars
  BY <1>6 DEF vars, DataOK
<1>7. QED
  BY <1>1, <1>2, <1>3, <1>4, <1>5, <1>6 DEF Next

\* Nor a flag out of BOOLEAN.
LEMMA FlagsStep == FlagsOK /\ [Next]_vars => FlagsOK'
<1> SUFFICES ASSUME FlagsOK, [Next]_vars PROVE FlagsOK'
  OBVIOUS
<1> USE DEF document, history, session, FlagsOK
<1>1. CASE UserMoves
  <2>1. CASE UndoCommitsFirst
    BY <2>1, Zenon DEF UndoCommitsFirst, CommitRecording, slotCommitTransaction
  <2>2. ASSUME NEW gui \in BOOLEAN, Undo(gui) \/ Redo(gui) PROVE FlagsOK'
    BY <2>2, Zenon DEF Undo, Redo, Moved
  <2>3. QED
    BY <1>1, <2>1, <2>2 DEF UserMoves
<1>2. CASE Others
  BY <1>2, ZenonT(40) DEF Others, OtherOpens, OtherCommits, OtherAborts, OtherLeavesOpen,
       OtherWrites, BareChange, CommitRecording, slotCommitTransaction
<1>3. CASE Settling
  BY <1>3, ZenonT(40) DEF Settling, SettleTimer, SettleBegins, NothingToEmpty, EmptyByRedo,
       TakeBack, RedoRefused, EmptyCommitsFirst, EmptyByUndo, PutBack, Reload, AfterEmptying,
       CommitRecording, slotCommitTransaction
<1>4. CASE Editing
  BY <1>4, ZenonT(40) DEF Editing, Refuse, Accept, Begin, WriteNothing, WriteRefused, End,
       Finish, EndStep, Write, WriteRaises, PaintRaises
<1>5. CASE UserEdits
  BY <1>5, ZenonT(40) DEF UserEdits, Edit, BeginDrag, EndDrag, Close, DragTo, DragRaises, SettleFirst,
       SettleBegins, EndStep
<1>6. CASE UNCHANGED vars
  BY <1>6, Zenon DEF vars
<1>7. QED
  BY <1>1, <1>2, <1>3, <1>4, <1>5, <1>6 DEF Next

\* Every variable keeps its type: whatever interferes, no step of the session,
\* of the user or of another command leaves the document's lists, the history
\* or the session in a state the code could not name.
THEOREM TypeCorrect == Spec => []TypeOK
<1>1. Init => TypeOK
  <2> SUFFICES ASSUME Init PROVE TypeOK
    OBVIOUS
  <2>2. undo \in Seq(Step) /\ redo \in Seq(Step)
    <3>1. \A c \in Content : OtherStep(c) \in Step
      BY DEF Step, Who, OtherStep
    <3>2. \A t \in Step : <<t>> \in Seq(Step)
      OBVIOUS
    <3>3. << >> \in Seq(Step)
      BY EmptySeq
    <3>4. QED
      BY <3>1, <3>2, <3>3 DEF Init, Content
  <2>3. content \in Content /\ unit \in Val
    BY DEF Init, Content
  <2>4. QED
    BY <2>2, <2>3 DEF Init, TypeOK, DataOK, FlagsOK, Places, Jobs
<1>2. TypeOK /\ [Next]_vars => TypeOK'
  BY DataStep, FlagsStep DEF TypeOK
<1>3. QED
  BY <1>1, <1>2, PTL DEF Spec

------------------------------------------------------------------------------
(* The session when nothing cuts across it but a Redo that does not run.   *)

LEMMA NotAllowed ==
  ASSUME Interference \subseteq {"redo_refused"}
  PROVE  /\ ~Allowed("edit_in_drag") /\ ~Allowed("command_in_drag")
         /\ ~Allowed("command_left_open") /\ ~Allowed("command_before_read_back")
         /\ ~Allowed("still_there") /\ ~Allowed("write_fails_late")
         /\ ~Allowed("drag_write_fails")
BY DEF Allowed

\* What a recorded change leaves: a recording that puts back what the first
\* change of the step found.
LEMMA RecordKeeps ==
  ASSUME DataOK, NEW who \in Who, NEW touches \in SUBSET Thing, Record(who, touches),
         rec # NoRec \/ active # "none"
  PROVE  /\ rec' # NoRec /\ touches \subseteq rec'.touched
         /\ rec'.before = IF rec = NoRec THEN content ELSE rec.before
<1>1. CASE rec # NoRec
  <2>1. rec \in Recording
    BY <1>1 DEF DataOK
  <2>2. rec' = [by |-> rec.by, hands |-> rec.hands \union {who},
                before |-> rec.before, touched |-> rec.touched \union touches]
    BY <1>1 DEF Record
  <2>3. rec'.by # "none"
    BY <2>1, <2>2 DEF Recording, Who
  <2>4. QED
    BY <1>1, <2>2, <2>3 DEF NoRec
<1>2. CASE rec = NoRec /\ active # "none"
  <2>2. rec' = [by |-> active, hands |-> {who}, before |-> content, touched |-> touches]
    BY <1>2 DEF Record
  <2>3. rec'.by # "none"
    BY <1>2, <2>2
  <2>4. QED
    BY <1>2, <2>2, <2>3 DEF NoRec
<1>3. QED
  BY <1>1, <1>2

\* The session's invariant is inductive, one step per action.
LEMMA SessionStep ==
  ASSUME Interference \subseteq {"redo_refused"}, TypeOK, SessionInv, [Next]_vars
  PROVE  SessionInv'
<1> USE NotAllowed DEF document, history, session, SessionInv, StepInv, TransactionInv,
                       ControlInv, CurrencyInv, Emptying
<1>1. CASE UndoCommitsFirst
  BY <1>1 DEF UndoCommitsFirst, CommitRecording, slotCommitTransaction
<1>2. ASSUME NEW gui \in BOOLEAN, Undo(gui) PROVE SessionInv'
  BY <1>2 DEF Undo, Moved
<1>3. ASSUME NEW gui \in BOOLEAN, Redo(gui) PROVE SessionInv'
  BY <1>3 DEF Redo, Moved
<1>4. CASE OtherOpens
  <2>1. CASE rec = NoRec
    BY <1>4, <2>1 DEF OtherOpens, Undisturbed
  <2>2. CASE rec # NoRec
    <3>1. stepOpen
      BY <1>4, <2>2 DEF OtherOpens
    <3>2. QED
      BY <1>4, <2>2, <3>1 DEF OtherOpens, CommitRecording, slotCommitTransaction
  <2>3. QED
    BY <2>1, <2>2
<1>5. CASE OtherCommits
  <2>1. CASE rec = NoRec
    BY <1>5, <2>1 DEF OtherCommits
  <2>2. CASE rec # NoRec
    <3>1. ~stepOpen /\ rec.touched # {}
      BY <1>5, <2>2 DEF OtherCommits
    <3>9. QED BY <1>5, <2>2, <3>1 DEF OtherCommits, CommitRecording, slotCommitTransaction
  <2>3. QED
    BY <2>1, <2>2
<1>6. CASE OtherAborts
  BY <1>6 DEF OtherAborts
<1>7. CASE OtherLeavesOpen
  BY <1>7 DEF OtherLeavesOpen
<1>8. ASSUME NEW v \in Content, OtherWrites(v) PROVE SessionInv'
  <2>1. rec' # NoRec /\ rec'.touched # {} /\ rec'.before = IF rec = NoRec THEN content ELSE rec.before
    BY <1>8, RecordKeeps DEF OtherWrites, TypeOK, Who, Thing
  <2>2. QED
    BY <1>8, <2>1 DEF OtherWrites
<1>9. ASSUME NEW t \in SUBSET Thing, BareChange(t) PROVE SessionInv'
  <2>1. FALSE
    BY <1>9 DEF BareChange, TypeOK, DataOK, Who
  <2>2. QED
    BY <2>1
<1>10. CASE SettleTimer
  BY <1>10 DEF SettleTimer, SettleBegins
<1>11. CASE NothingToEmpty \/ RedoRefused
  BY <1>11 DEF NothingToEmpty, RedoRefused, AfterEmptying
<1>12. CASE EmptyByRedo
  BY <1>12 DEF EmptyByRedo
<1>13. CASE TakeBack
  BY <1>13 DEF TakeBack, AfterEmptying
<1>14. CASE EmptyCommitsFirst
  BY <1>14 DEF EmptyCommitsFirst, CommitRecording, slotCommitTransaction
<1>15. CASE EmptyByUndo
  BY <1>15 DEF EmptyByUndo
<1>16. CASE PutBack
  BY <1>16 DEF PutBack, AfterEmptying
<1>17. CASE Reload
  <2>1. job \in {"timer", "edit", "press", "close"}
    BY <1>17 DEF Reload, TypeOK, DataOK, Jobs
  <2>2. CASE content \in Val
    BY <1>17, <2>1, <2>2 DEF Reload, After
  <2>3. CASE content \notin Val
    BY <1>17, <2>1, <2>3 DEF Reload, After
  <2>4. QED
    BY <2>2, <2>3
<1>18. CASE Refuse
  BY <1>18 DEF Refuse
<1>19. CASE Accept
  <2>1. CASE job = "press"
    BY <1>19, <2>1 DEF Accept
  <2>2. CASE job # "press"
    BY <1>19, <2>2 DEF Accept
  <2>3. QED
    BY <2>1, <2>2
<1>20. CASE Begin
  <2>1. rec = NoRec
    BY <1>20 DEF Begin
  <2>2. CASE job = "press"
    BY <1>20, <2>1, <2>2 DEF Begin
  <2>3. CASE job # "press"
    BY <1>20, <2>1, <2>3 DEF Begin
  <2>4. QED
    BY <2>2, <2>3
<1>21. CASE WriteNothing
  BY <1>21 DEF WriteNothing, AfterWrite
<1>22. CASE WriteRefused
  BY <1>22 DEF WriteRefused, AfterWrite
<1>23. CASE End
  BY <1>23 DEF End, EndStep
<1>24. CASE Finish
  <2>1. CASE finished
    BY <1>24, <2>1 DEF Finish
  <2>2. CASE ~finished /\ stepOpen
    BY <1>24, <2>2 DEF Finish, EndStep
  <2>3. CASE ~finished /\ ~stepOpen
    BY <1>24, <2>3 DEF Finish, EndStep
  <2>4. QED
    BY <2>1, <2>2, <2>3
<1>25. ASSUME NEW v \in Val, Write(v) PROVE SessionInv'
  <2>1. CASE stepOpen
    <3>1. rec' # NoRec /\ rec'.before = content
      BY <1>25, <2>1, RecordKeeps DEF Write, TypeOK, Who, Thing
    <3>2. QED
      BY <1>25, <2>1, <3>1 DEF Write, AfterWrite
  <2>2. CASE ~stepOpen
    <3>1. rec' = NoRec /\ finished
      BY <1>25, <2>2 DEF Write, Record, TypeOK, DataOK, Who
    <3>2. QED
      BY <1>25, <2>2, <3>1 DEF Write, AfterWrite
  <2>3. QED
    BY <2>1, <2>2
<1>26. ASSUME NEW v \in Val, WriteRaises(v) PROVE SessionInv'
  <2>1. CASE stepOpen
    <3>1. rec' # NoRec /\ rec'.before = content
      BY <1>26, <2>1, RecordKeeps DEF WriteRaises, TypeOK, Who, Thing
    <3>2. QED
      BY <1>26, <2>1, <3>1 DEF WriteRaises, AfterWrite
  <2>2. CASE ~stepOpen
    <3>1. rec' = NoRec /\ finished
      BY <1>26, <2>2 DEF WriteRaises, Record
    <3>2. QED
      BY <1>26, <2>2, <3>1 DEF WriteRaises, AfterWrite
  <2>3. QED
    BY <2>1, <2>2
<1>27. ASSUME NEW v \in Val, PaintRaises(v) PROVE SessionInv'
  BY <1>27 DEF PaintRaises
<1>28. CASE Edit
  BY <1>28 DEF Edit, SettleFirst, SettleBegins, After
<1>29. CASE BeginDrag
  BY <1>29 DEF BeginDrag, SettleFirst, SettleBegins, After
<1>30. CASE EndDrag
  BY <1>30 DEF EndDrag, EndStep
<1>31. CASE Close
  BY <1>31 DEF Close, SettleFirst, SettleBegins, After
<1>32. ASSUME NEW v \in Val, DragTo(v) PROVE SessionInv'
  BY <1>32 DEF DragTo, Record, Thing
<1>33. ASSUME NEW v \in Val, DragRaises(v) PROVE SessionInv'
  BY <1>33 DEF DragRaises
<1>34. CASE UNCHANGED vars
  BY <1>34 DEF vars
<1>35. QED
  BY <1>1, <1>2, <1>3, <1>4, <1>5, <1>6, <1>7, <1>8, <1>9, <1>10, <1>11, <1>12,
     <1>13, <1>14, <1>15, <1>16, <1>17, <1>18, <1>19, <1>20, <1>21, <1>22, <1>23,
     <1>24, <1>25, <1>26, <1>27, <1>28, <1>29, <1>30, <1>31, <1>32, <1>33, <1>34, Zenon
  DEF Next, UserMoves, Others, Settling, Editing, UserEdits

\* Who holds a transaction, when a drag is on and what the unit equals at each
\* point of a handler: the invariant the four theorems below read off.
THEOREM SessionCorrect ==
  ASSUME Interference \subseteq {"redo_refused"}
  PROVE  Spec => []SessionInv
<1>1. Init => SessionInv
  <2> SUFFICES ASSUME Init PROVE SessionInv
    OBVIOUS
  <2>1. StepInv
    BY DEF Init, StepInv
  <2>2. TransactionInv
    BY DEF Init, TransactionInv, Emptying
  <2>3. ControlInv
    BY DEF Init, ControlInv, Emptying
  <2>4. CurrencyInv
    BY DEF Init, CurrencyInv
  <2>5. QED
    BY <2>1, <2>2, <2>3, <2>4 DEF SessionInv
<1>2. TypeOK /\ SessionInv /\ [Next]_vars => SessionInv'
  BY SessionStep
<1>3. QED
  BY <1>1, <1>2, TypeCorrect, PTL DEF Spec

\* Between handlers, with no read-back queued, the unit shown is the document's.
THEOREM UnitCurrent ==
  ASSUME Interference \subseteq {"redo_refused"}
  PROVE  Spec => []UnitIsCurrent
<1>1. SessionInv => UnitIsCurrent
  BY DEF SessionInv, CurrencyInv, UnitIsCurrent
<1>2. QED
  BY <1>1, SessionCorrect, PTL

\* A drag that goes on holds its step open, and nothing waits to be read back.
THEOREM DragSafe ==
  ASSUME Interference \subseteq {"redo_refused"}
  PROVE  Spec => []DragHoldsItsStep
<1>1. SessionInv => DragHoldsItsStep
  BY DEF SessionInv, StepInv, DragHoldsItsStep
<1>2. QED
  BY <1>1, SessionCorrect, PTL

\* No transaction of the session's stays open behind an edit or a drag.
THEOREM NothingOpen ==
  ASSUME Interference \subseteq {"redo_refused"}
  PROVE  Spec => []NothingLeftOpen
<1>1. SessionInv => NothingLeftOpen
  BY DEF SessionInv, StepInv, TransactionInv, NothingLeftOpen
<1>2. QED
  BY <1>1, SessionCorrect, PTL

\* Every write of the session starts from the boards the document holds.
THEOREM WritesCurrent ==
  ASSUME Interference \subseteq {"redo_refused"}
  PROVE  Spec => WritesFromTheDocument
<1>1. TypeOK /\ SessionInv /\ [Next]_vars => [SessionWrites => unit = content]_vars
  <2> SUFFICES ASSUME TypeOK, SessionInv, SessionWrites PROVE unit = content
    OBVIOUS
  <2> USE NotAllowed
  <2>1. ASSUME NEW v \in Val, Write(v) \/ WriteRaises(v) \/ PaintRaises(v)
        PROVE  unit = content
    <3>1. pc = "write" /\ content \in Val
      BY <2>1, UnreadableAssumption DEF Write, WriteRaises, PaintRaises, Writable
    <3>2. QED
      BY <3>1 DEF SessionInv, CurrencyInv
  <2>2. ASSUME NEW v \in Val, DragTo(v) \/ DragRaises(v) PROVE unit = content
    BY <2>2 DEF DragTo, DragRaises, SessionInv, CurrencyInv, StepInv
  <2>3. QED
    BY <2>1, <2>2 DEF SessionWrites
<1>2. QED
  BY <1>1, TypeCorrect, SessionCorrect, PTL DEF Spec, WritesFromTheDocument

\* A refused edit costs the lists nothing and leaves the document the unit's.
THEOREM RefusalClean ==
  ASSUME Interference \subseteq {"redo_refused"}
  PROVE  Spec => RefusalLeavesNoStep
<1> DEFINE Clean == pc = "drop" => undo' = undo /\ redo' = redo /\ rec' = NoRec
                                   /\ content' = unit
<1>1. TypeOK /\ SessionInv /\ [Next]_vars => [Clean]_vars
  <2> SUFFICES ASSUME TypeOK, SessionInv, Next, pc = "drop"
               PROVE  undo' = undo /\ redo' = redo /\ rec' = NoRec /\ content' = unit
    OBVIOUS
  <2>1. End
    BY DEF Next, UserMoves, Others, Settling, Editing, UserEdits, UndoCommitsFirst, Undo,
       Redo, OtherOpens, OtherWrites, OtherCommits, OtherAborts, OtherLeavesOpen,
       BareChange, SettleTimer, NothingToEmpty, EmptyByRedo, TakeBack, RedoRefused,
       EmptyCommitsFirst, EmptyByUndo, PutBack, Reload, Refuse, Accept, Begin, Write,
       WriteNothing, WriteRefused, WriteRaises, PaintRaises, Finish, Edit, BeginDrag,
       DragTo, DragRaises, EndDrag, Close
  <2>2. stepOpen /\ unit = IF rec = NoRec THEN content ELSE rec.before
    BY DEF SessionInv, StepInv, CurrencyInv
  <2>3. QED
    BY <2>1, <2>2 DEF End, EndStep
<1>2. QED
  BY <1>1, TypeCorrect, SessionCorrect, PTL DEF Spec, RefusalLeavesNoStep
------------------------------------------------------------------------------
(* The line a list of steps draws.                                         *)

Befores(s) == [i \in DOMAIN s |-> s[i].before]

LEMMA BeforesTyped ==
  ASSUME NEW s \in Seq(Step)
  PROVE  Befores(s) \in Seq(Content) /\ Len(Befores(s)) = Len(s)
         /\ DOMAIN Befores(s) = 1..Len(s)
<1>1. DOMAIN s = 1..Len(s) /\ Len(s) \in Nat
  BY LenProperties
<1>2. ASSUME NEW i \in 1..Len(s) PROVE s[i].before \in Content
  <2>1. s[i] \in Step
    BY ElementOfSeq
  <2>2. QED
    BY <2>1 DEF Step
<1>3. Befores(s) \in [1..Len(s) -> Content]
  BY <1>1, <1>2 DEF Befores
<1>4. QED
  BY <1>1, <1>3, LenProperties, SeqDef

LEMMA BeforesAppend ==
  ASSUME NEW s \in Seq(Step), NEW t \in Step
  PROVE  Befores(Append(s, t)) = Append(Befores(s), t.before)
<1>1. Befores(s) \in Seq(Content) /\ Len(Befores(s)) = Len(s) /\ t.before \in Content
  BY BeforesTyped DEF Step
<1>2. Append(s, t) \in Seq(Step) /\ Len(Append(s, t)) = Len(s) + 1 /\ Len(s) \in Nat
      /\ DOMAIN Append(s, t) = 1..(Len(s) + 1) /\ DOMAIN s = 1..Len(s)
      /\ \A i \in 1..Len(s) : Append(s, t)[i] = s[i]
      /\ Append(s, t)[Len(s) + 1] = t
  BY AppendProperties, LenProperties
<1>3. Append(Befores(s), t.before) \in Seq(Content)
      /\ DOMAIN Append(Befores(s), t.before) = 1..(Len(s) + 1)
      /\ \A i \in 1..Len(s) : Append(Befores(s), t.before)[i] = Befores(s)[i]
      /\ Append(Befores(s), t.before)[Len(s) + 1] = t.before
  BY <1>1, AppendProperties, LenProperties
<1>4. \A i \in 1..(Len(s) + 1) :
        Befores(Append(s, t))[i] = Append(Befores(s), t.before)[i]
  BY <1>2, <1>3 DEF Befores
<1>5. Befores(Append(s, t)) \in Seq(Content) /\ Len(Befores(Append(s, t))) = Len(s) + 1
      /\ Len(Append(Befores(s), t.before)) = Len(s) + 1
  <2>1. Befores(Append(s, t)) \in Seq(Content)
        /\ Len(Befores(Append(s, t))) = Len(Append(s, t))
    BY <1>2, BeforesTyped
  <2>2. Len(Append(Befores(s), t.before)) = Len(Befores(s)) + 1
    BY <1>1, AppendProperties
  <2>3. QED
    BY <1>1, <1>2, <2>1, <2>2
<1>6. QED
  BY <1>3, <1>4, <1>5, SeqEqual

\* The rest of a sequence with its last element put back is the sequence.
LEMMA FrontAppend ==
  ASSUME NEW S, NEW s \in Seq(S), s # << >>
  PROVE  s = Append(Front(s), Last(s))
<1>1. Len(s) \in Nat /\ Len(s) >= 1 /\ DOMAIN s = 1..Len(s) /\ s \in [1..Len(s) -> S]
  BY EmptySeq, LenProperties
<1>2. Front(s) \in Seq(S) /\ Len(Front(s)) = Len(s) - 1
      /\ \A i \in 1..(Len(s) - 1) : Front(s)[i] = s[i]
  BY <1>1 DEF Front
<1>3. Last(s) = s[Len(s)] /\ Last(s) \in S
  BY <1>1 DEF Last
<1>4. Append(Front(s), Last(s)) \in Seq(S) /\ Len(Append(Front(s), Last(s))) = Len(s)
      /\ \A i \in 1..(Len(s) - 1) : Append(Front(s), Last(s))[i] = Front(s)[i]
      /\ Append(Front(s), Last(s))[Len(s)] = Last(s)
  <2>1. \A f \in Seq(S), e \in S :
          /\ Append(f, e) \in Seq(S) /\ Len(Append(f, e)) = Len(f) + 1
          /\ \A i \in 1..Len(f) : Append(f, e)[i] = f[i]
          /\ Append(f, e)[Len(f) + 1] = e
    BY AppendProperties, LenProperties
  <2>2. Len(Front(s)) + 1 = Len(s)
    BY <1>1, <1>2
  <2>3. /\ Append(Front(s), Last(s)) \in Seq(S)
        /\ Len(Append(Front(s), Last(s))) = Len(Front(s)) + 1
        /\ \A i \in 1..Len(Front(s)) : Append(Front(s), Last(s))[i] = Front(s)[i]
        /\ Append(Front(s), Last(s))[Len(Front(s)) + 1] = Last(s)
    BY <2>1, <1>2, <1>3, Zenon
  <2>4. QED
    BY <2>2, <2>3, <1>2
<1>5. \A i \in 1..Len(s) : s[i] = Append(Front(s), Last(s))[i]
  BY <1>1, <1>2, <1>3, <1>4
<1>6. QED
  BY <1>4, <1>5, SeqEqual

LEMMA AppendFront ==
  ASSUME NEW S, NEW s \in Seq(S), NEW e \in S
  PROVE  /\ Append(s, e) # << >>
         /\ Front(Append(s, e)) = s
         /\ Last(Append(s, e)) = e
<1>1. Append(s, e) \in Seq(S) /\ Len(Append(s, e)) = Len(s) + 1 /\ Len(s) \in Nat
      /\ \A i \in 1..Len(s) : Append(s, e)[i] = s[i]
      /\ Append(s, e)[Len(s) + 1] = e
  BY AppendProperties, LenProperties
<1>2. Front(Append(s, e)) = s
  BY <1>1, LenProperties DEF Front
<1>3. QED
  BY <1>1, <1>2, EmptySeq DEF Last

\* An undo takes the last state off the line and leaves the rest of it.
LEMMA BeforesFront ==
  ASSUME NEW s \in Seq(Step), s # << >>
  PROVE  /\ Befores(s) # << >>
         /\ Front(Befores(s)) = Befores(Front(s))
         /\ Last(Befores(s)) = Last(s).before
<1>1. Front(s) \in Seq(Step) /\ Last(s) \in Step /\ s = Append(Front(s), Last(s))
  BY FrontLast, FrontAppend
<1>2. Befores(s) = Append(Befores(Front(s)), Last(s).before)
  <2>1. Befores(Append(Front(s), Last(s))) = Append(Befores(Front(s)), Last(s).before)
    BY <1>1, BeforesAppend
  <2>2. QED
    BY <1>1, <2>1
<1>3. Befores(Front(s)) \in Seq(Content) /\ Last(s).before \in Content
  BY <1>1, BeforesTyped DEF Step
<1>4. QED
  BY <1>2, <1>3, AppendFront

------------------------------------------------------------------------------
(* How each kind of step moves on the line.                                *)

LineStep == [Line!Next]_(Line!historyVars)
Present == IF rec = NoRec THEN content ELSE rec.before

LEMMA LineMoves ==
  /\ \A v \in Content :
       Line!Do(v) <=> /\ Befores(undo)' = Append(Befores(undo), Present)
                      /\ Present' = v /\ Befores(redo)' = << >>
  /\ Line!Forget <=> Befores(redo)' = << >> /\ UNCHANGED <<Befores(undo), Present>>
  /\ Line!Undo <=> /\ Befores(undo) # << >>
                   /\ Befores(undo)' = Front(Befores(undo))
                   /\ Present' = Last(Befores(undo))
                   /\ Befores(redo)' = Append(Befores(redo), Present)
  /\ Line!Redo <=> /\ Befores(redo) # << >>
                   /\ Befores(redo)' = Front(Befores(redo))
                   /\ Present' = Last(Befores(redo))
                   /\ Befores(undo)' = Append(Befores(undo), Present)
<1>1. \A s : Line!Front(s) = Front(s) /\ Line!Last(s) = Last(s)
  BY DEF Line!Front, Line!Last, Front, Last
<1>2. \A v \in Content :
       Line!Do(v) <=> /\ Befores(undo)' = Append(Befores(undo), Present)
                      /\ Present' = v /\ Befores(redo)' = << >>
  BY DEF Line!Do, Befores, Present
<1>3. Line!Forget <=> Befores(redo)' = << >> /\ UNCHANGED <<Befores(undo), Present>>
  BY DEF Line!Forget, Befores, Present
<1>4. Line!Undo <=> /\ Befores(undo) # << >>
                    /\ Befores(undo)' = Front(Befores(undo))
                    /\ Present' = Last(Befores(undo))
                    /\ Befores(redo)' = Append(Befores(redo), Present)
  BY <1>1 DEF Line!Undo, Befores, Present
<1>5. Line!Redo <=> /\ Befores(redo) # << >>
                    /\ Befores(redo)' = Front(Befores(redo))
                    /\ Present' = Last(Befores(redo))
                    /\ Befores(undo)' = Append(Befores(undo), Present)
  BY <1>1 DEF Line!Redo, Befores, Present
<1>6. QED
  BY <1>2, <1>3, <1>4, <1>5

LEMMA LineStays ==
  ASSUME undo' = undo, redo' = redo, Present' = Present
  PROVE  LineStep
BY DEF LineStep, Line!historyVars, Befores, Present

\* Committing what is recorded is one edit.
LEMMA LineCommits ==
  ASSUME DataOK, rec # NoRec, redo = << >>, redo' = redo,
         undo' = Append(undo, StepOf(rec)), rec' = NoRec, content' = content
  PROVE  LineStep
<1>1. rec \in Recording /\ StepOf(rec) \in Step /\ StepOf(rec).before = rec.before
  BY StepOfIsStep DEF DataOK, StepOf
<1>2. Befores(undo)' = Append(Befores(undo), Present)
  <2>1. Befores(Append(undo, StepOf(rec))) = Append(Befores(undo), rec.before)
    BY <1>1, BeforesAppend DEF DataOK
  <2>2. QED
    BY <2>1 DEF Befores, Present
<1>3. Present' \in Content /\ Befores(redo)' = << >>
  BY DEF DataOK, Present, Befores
<1>4. QED
  BY <1>2, <1>3, LineMoves DEF LineStep, Line!Next

LEMMA LineUndoes ==
  ASSUME DataOK, rec = NoRec, rec' = rec, UndoStep
  PROVE  LineStep
<1>1. Last(undo) \in Step /\ Turned(Last(undo)) \in Step
      /\ Turned(Last(undo)).before = content
  BY FrontLast, TurnedTyped DEF DataOK, UndoStep, Turned
<1>2. /\ Befores(undo) # << >>
      /\ Front(Befores(undo)) = Befores(Front(undo))
      /\ Last(Befores(undo)) = Last(undo).before
  BY BeforesFront DEF DataOK, UndoStep
<1>3. Befores(Append(redo, Turned(Last(undo)))) = Append(Befores(redo), content)
  BY <1>1, BeforesAppend DEF DataOK
<1>4. /\ Befores(undo)' = Front(Befores(undo))
      /\ Present' = Last(Befores(undo))
      /\ Befores(redo)' = Append(Befores(redo), Present)
  BY <1>2, <1>3 DEF UndoStep, Present, Befores
<1>5. QED
  BY <1>2, <1>4, LineMoves DEF LineStep, Line!Next

LEMMA LineRedoes ==
  ASSUME DataOK, rec = NoRec, rec' = rec, RedoStep
  PROVE  LineStep
<1>1. Last(redo) \in Step /\ Turned(Last(redo)) \in Step
      /\ Turned(Last(redo)).before = content
  BY FrontLast, TurnedTyped DEF DataOK, RedoStep, Turned
<1>2. /\ Befores(redo) # << >>
      /\ Front(Befores(redo)) = Befores(Front(redo))
      /\ Last(Befores(redo)) = Last(redo).before
  BY BeforesFront DEF DataOK, RedoStep
<1>3. Befores(Append(undo, Turned(Last(redo)))) = Append(Befores(undo), content)
  BY <1>1, BeforesAppend DEF DataOK
<1>4. /\ Befores(redo)' = Front(Befores(redo))
      /\ Present' = Last(Befores(redo))
      /\ Befores(undo)' = Append(Befores(undo), Present)
  BY <1>2, <1>3 DEF RedoStep, Present, Befores
<1>5. QED
  BY <1>2, <1>4, LineMoves DEF LineStep, Line!Next

\* A recorded change moves nothing yet; the first of a step costs the states
\* ahead.
LEMMA LineRecords ==
  ASSUME DataOK, NEW who \in Who, NEW touches \in SUBSET Thing, Record(who, touches),
         rec # NoRec \/ active # "none", undo' = undo
  PROVE  LineStep
<1>1. Present' = Present
  BY RecordKeeps DEF Present
<1>2. redo' = redo \/ redo' = << >>
  BY DEF Record
<1>3. Befores(undo)' = Befores(undo)
  BY DEF Befores
<1>4. CASE redo' = redo
  BY <1>1, <1>4, LineStays
<1>5. CASE redo' = << >>
  <2>1. Befores(redo)' = << >>
    BY <1>5 DEF Befores
  <2>2. QED
    BY <1>1, <1>3, <2>1, LineMoves DEF LineStep, Line!Next
<1>6. QED
  BY <1>2, <1>4, <1>5

LEMMA LineEnds ==
  ASSUME DataOK, NEW keep \in BOOLEAN, EndStep(keep), redo' = redo,
         rec # NoRec => redo = << >>
  PROVE  LineStep
<1>1. CASE stepOpen /\ rec # NoRec /\ keep
  BY <1>1, LineCommits DEF EndStep
<1>2. CASE ~(stepOpen /\ rec # NoRec /\ keep)
  BY <1>2, LineStays DEF EndStep, Present
<1>3. QED
  BY <1>1, <1>2

------------------------------------------------------------------------------
(* What the refinement rests on.                                           *)

\* An open recording has no states ahead, and none is open while a step is
\* moved from one list to the other.
RecordingInv ==
  /\ rec # NoRec => redo = << >>
  /\ pc \in {"undo", "take_back", "put_back"} => rec = NoRec

\* A change is made where a transaction is there to record it, or where the
\* unit cannot be written.
RecordedInv ==
  /\ pc = "command" => active # "none"
  /\ drag /\ ~finished => pc \in {"idle", "begin"}
  /\ drag /\ ~finished /\ pc = "idle" => stepOpen /\ active # "none" /\ ~settleQueued
  /\ pc \in Emptying => ~finished
  /\ pc \in Emptying \union {"compute", "begin", "finish"} => ~settleQueued
  /\ pc = "begin" => ~finished /\ (drag => job = "press")
  /\ pc = "compute" /\ finished => content \notin Val
  /\ pc = "write" => active # "none" \/ content \notin Val

LEMMA RecordingStep == TypeOK /\ RecordingInv /\ [Next]_vars => RecordingInv'
<1> SUFFICES ASSUME TypeOK, RecordingInv, [Next]_vars PROVE RecordingInv'
  OBVIOUS
<1> USE DEF document, history, session, RecordingInv
<1>1. CASE UserMoves
  BY <1>1 DEF UserMoves, UndoCommitsFirst, CommitRecording, Undo, Redo, RedoStep
<1>2. CASE Others
  <2>1. CASE OtherOpens \/ OtherCommits \/ OtherAborts \/ OtherLeavesOpen
    BY <2>1 DEF OtherOpens, OtherCommits, OtherAborts, OtherLeavesOpen, CommitRecording
  <2>2. ASSUME NEW v \in Content, OtherWrites(v) PROVE RecordingInv'
    BY <2>2 DEF OtherWrites, Record
  <2>3. ASSUME NEW touches \in SUBSET Thing, BareChange(touches) PROVE RecordingInv'
    BY <2>3 DEF BareChange, Record
  <2>4. QED
    BY <1>2, <2>1, <2>2, <2>3 DEF Others
<1>3. CASE Settling
  BY <1>3 DEF Settling, SettleTimer, SettleBegins, NothingToEmpty, EmptyByRedo, TakeBack,
       RedoRefused, EmptyCommitsFirst, EmptyByUndo, PutBack, Reload, AfterEmptying, After,
       CommitRecording, UndoStep, RedoStep
<1>4. CASE Editing
  <2>1. CASE Refuse \/ Accept \/ Begin \/ WriteNothing \/ WriteRefused \/ End \/ Finish
    BY <2>1 DEF Refuse, Accept, Begin, WriteNothing, WriteRefused, AfterWrite, End, Finish,
         EndStep
  <2>2. ASSUME NEW v \in Val, Write(v) \/ WriteRaises(v) \/ PaintRaises(v)
        PROVE  RecordingInv'
    BY <2>2 DEF Write, WriteRaises, PaintRaises, AfterWrite, Record
  <2>3. QED
    BY <1>4, <2>1, <2>2 DEF Editing
<1>5. CASE UserEdits
  <2>1. CASE Edit \/ BeginDrag \/ Close \/ EndDrag
    BY <2>1 DEF Edit, BeginDrag, Close, EndDrag, SettleFirst, SettleBegins, After, EndStep
  <2>2. ASSUME NEW v \in Val, DragTo(v) \/ DragRaises(v) PROVE RecordingInv'
    BY <2>2 DEF DragTo, DragRaises, Record
  <2>3. QED
    BY <1>5, <2>1, <2>2 DEF UserEdits
<1>6. CASE UNCHANGED vars
  BY <1>6 DEF vars
<1>7. QED
  BY <1>1, <1>2, <1>3, <1>4, <1>5, <1>6 DEF Next

\* The interference that leaves every change recorded.
Recordable == Interference \intersect {"edit_in_drag", "command_in_drag", "still_there"} = {}

LEMMA RecordableMeans ==
  ASSUME Recordable
  PROVE  ~Allowed("edit_in_drag") /\ ~Allowed("command_in_drag") /\ ~Allowed("still_there")
BY DEF Recordable, Allowed

LEMMA RecordedStep ==
  ASSUME Recordable, TypeOK, RecordingInv, RecordedInv, [Next]_vars
  PROVE  RecordedInv'
<1> USE RecordableMeans DEF document, history, session, RecordingInv, RecordedInv, Emptying
<1>1. CASE UndoCommitsFirst
  BY <1>1 DEF UndoCommitsFirst, CommitRecording, slotCommitTransaction
<1>2. ASSUME NEW gui \in BOOLEAN, Undo(gui) \/ Redo(gui) PROVE RecordedInv'
  BY <1>2 DEF Undo, Redo, Moved
<1>3. CASE OtherOpens
  <2>1. CASE rec = NoRec
    BY <1>3, <2>1 DEF OtherOpens, Undisturbed
  <2>2. CASE rec # NoRec
    BY <1>3, <2>2 DEF OtherOpens, CommitRecording, slotCommitTransaction
  <2>3. QED
    BY <2>1, <2>2
<1>4. CASE OtherCommits
  <2>1. CASE rec = NoRec
    BY <1>4, <2>1 DEF OtherCommits
  <2>2. CASE rec # NoRec
    BY <1>4, <2>2 DEF OtherCommits, CommitRecording, slotCommitTransaction
  <2>3. QED
    BY <2>1, <2>2
<1>5. CASE OtherAborts \/ OtherLeavesOpen
  BY <1>5 DEF OtherAborts, OtherLeavesOpen
<1>6. ASSUME NEW v \in Content, OtherWrites(v) PROVE RecordedInv'
  BY <1>6 DEF OtherWrites
<1>7. ASSUME NEW touches \in SUBSET Thing, BareChange(touches) PROVE RecordedInv'
  BY <1>7 DEF BareChange
<1>8. CASE SettleTimer
  BY <1>8 DEF SettleTimer, SettleBegins
<1>9. CASE NothingToEmpty \/ RedoRefused
  BY <1>9 DEF NothingToEmpty, RedoRefused, AfterEmptying
<1>10. CASE EmptyByRedo \/ EmptyByUndo
  BY <1>10 DEF EmptyByRedo, EmptyByUndo
<1>11. CASE TakeBack \/ PutBack
  BY <1>11 DEF TakeBack, PutBack, AfterEmptying
<1>12. CASE EmptyCommitsFirst
  BY <1>12 DEF EmptyCommitsFirst, CommitRecording, slotCommitTransaction
<1>13. CASE Reload
  <2>1. CASE content \in Val
    BY <1>13, <2>1 DEF Reload, After
  <2>2. CASE content \notin Val
    BY <1>13, <2>2 DEF Reload, After
  <2>3. QED
    BY <2>1, <2>2
<1>14. CASE Refuse
  BY <1>14 DEF Refuse
<1>15. CASE Accept
  <2>1. CASE finished
    BY <1>15, <2>1 DEF Accept
  <2>2. CASE ~finished
    BY <1>15, <2>2 DEF Accept
  <2>3. QED
    BY <2>1, <2>2
<1>16. CASE Begin
  <2>1. CASE rec = NoRec
    BY <1>16, <2>1 DEF Begin
  <2>2. CASE rec # NoRec
    BY <1>16, <2>2 DEF Begin
  <2>3. QED
    BY <2>1, <2>2
<1>17. CASE WriteNothing \/ WriteRefused
  BY <1>17 DEF WriteNothing, WriteRefused, AfterWrite
<1>18. ASSUME NEW v \in Val, Write(v) \/ WriteRaises(v) \/ PaintRaises(v) PROVE RecordedInv'
  BY <1>18 DEF Write, WriteRaises, PaintRaises, AfterWrite
<1>19. CASE End
  BY <1>19 DEF End, EndStep
<1>20. CASE Finish
  BY <1>20 DEF Finish, EndStep
<1>21. CASE Edit
  BY <1>21 DEF Edit, SettleFirst, SettleBegins, After
<1>22. CASE BeginDrag
  BY <1>22 DEF BeginDrag, SettleFirst, SettleBegins, After
<1>23. CASE Close
  BY <1>23 DEF Close, SettleFirst, SettleBegins, After
<1>24. CASE EndDrag
  BY <1>24 DEF EndDrag, EndStep
<1>25. ASSUME NEW v \in Val, DragTo(v) \/ DragRaises(v) PROVE RecordedInv'
  BY <1>25 DEF DragTo, DragRaises
<1>26. CASE UNCHANGED vars
  BY <1>26 DEF vars
<1>27. QED
  BY <1>1, <1>2, <1>3, <1>4, <1>5, <1>6, <1>7, <1>8, <1>9, <1>10, <1>11, <1>12, <1>13,
     <1>14, <1>15, <1>16, <1>17, <1>18, <1>19, <1>20, <1>21, <1>22, <1>23, <1>24, <1>25,
     <1>26
  DEF Next, UserMoves, Others, Settling, Editing, UserEdits

LEMMA RecordingInit == Init => RecordingInv
BY DEF Init, RecordingInv

LEMMA RecordedInit == Init => RecordedInv
BY DEF Init, RecordedInv, Emptying

------------------------------------------------------------------------------
\* Every step of the session, of the user and of other commands is a step of
\* the line or leaves it as it is.
LEMMA LineFollows ==
  ASSUME Recordable, TypeOK, RecordingInv, RecordedInv, [Next]_vars
  PROVE  LineStep
<1> USE RecordableMeans DEF document, history, session, TypeOK
<1>1. CASE UserMoves
  <2>1. CASE UndoCommitsFirst
    BY <2>1, LineCommits DEF UndoCommitsFirst, CommitRecording, RecordingInv
  <2>2. ASSUME NEW gui \in BOOLEAN, Undo(gui) PROVE LineStep
    BY <2>2, LineUndoes DEF Undo, RecordingInv
  <2>3. ASSUME NEW gui \in BOOLEAN, Redo(gui) PROVE LineStep
    BY <2>3, LineRedoes DEF Redo
  <2>4. QED
    BY <1>1, <2>1, <2>2, <2>3 DEF UserMoves
<1>2. CASE Others
  <2>1. CASE OtherOpens \/ OtherCommits
    <3>1. CASE rec = NoRec
      BY <2>1, <3>1, LineStays DEF OtherOpens, OtherCommits, Present
    <3>2. CASE rec # NoRec
      BY <2>1, <3>2, LineCommits DEF OtherOpens, OtherCommits, CommitRecording, RecordingInv
    <3>3. QED
      BY <3>1, <3>2
  <2>2. CASE OtherAborts \/ OtherLeavesOpen
    BY <2>2, LineStays DEF OtherAborts, OtherLeavesOpen, Present
  <2>3. ASSUME NEW v \in Content, OtherWrites(v) PROVE LineStep
    BY <2>3, LineRecords DEF OtherWrites, RecordedInv, Who, Thing
  <2>4. ASSUME NEW touches \in SUBSET Thing, BareChange(touches) PROVE LineStep
    BY <2>4, LineRecords DEF BareChange, Who
  <2>5. QED
    BY <1>2, <2>1, <2>2, <2>3, <2>4 DEF Others
<1>3. CASE Settling
  <2>1. CASE SettleTimer \/ NothingToEmpty \/ RedoRefused \/ Reload
    BY <2>1, LineStays DEF SettleTimer, SettleBegins, NothingToEmpty, RedoRefused, Reload, Present
  <2>2. CASE EmptyByRedo
    BY <2>2, LineRedoes DEF EmptyByRedo, RedoStep, RecordingInv
  <2>3. CASE TakeBack
    BY <2>3, LineUndoes DEF TakeBack, RecordingInv
  <2>4. CASE EmptyCommitsFirst
    BY <2>4, LineCommits DEF EmptyCommitsFirst, CommitRecording
  <2>5. CASE EmptyByUndo
    BY <2>5, LineUndoes DEF EmptyByUndo
  <2>6. CASE PutBack
    BY <2>6, LineRedoes DEF PutBack, RecordingInv
  <2>7. QED
    BY <1>3, <2>1, <2>2, <2>3, <2>4, <2>5, <2>6 DEF Settling
<1>4. CASE Editing
  <2>1. CASE Refuse \/ Accept \/ WriteNothing \/ WriteRefused
    BY <2>1, LineStays DEF Refuse, Accept, WriteNothing, WriteRefused, Present
  <2>2. CASE Begin
    <3>1. CASE rec = NoRec
      BY <2>2, <3>1, LineStays DEF Begin, Present
    <3>2. CASE rec # NoRec
      BY <2>2, <3>2, LineCommits DEF Begin, RecordingInv
    <3>3. QED
      BY <3>1, <3>2
  <2>3. CASE End
    <3>1. EndStep(pc = "keep") /\ (pc = "keep") \in BOOLEAN /\ redo' = redo
      BY <2>3 DEF End
    <3>2. QED
      BY <3>1, LineEnds DEF RecordingInv
  <2>4. CASE Finish
    <3>1. CASE finished
      BY <2>4, <3>1, LineStays DEF Finish, Present
    <3>2. CASE ~finished
      BY <2>4, <3>2, LineEnds DEF Finish, RecordingInv
    <3>3. QED
      BY <3>1, <3>2
  <2>5. ASSUME NEW v \in Val, Write(v) \/ WriteRaises(v) \/ PaintRaises(v) PROVE LineStep
    <3>1. active # "none" /\ Record("session", Thing) /\ undo' = undo
      BY <2>5 DEF Write, WriteRaises, PaintRaises, Writable, RecordedInv
    <3>2. QED
      BY <3>1, LineRecords DEF Who, Thing
  <2>6. QED
    BY <1>4, <2>1, <2>2, <2>3, <2>4, <2>5 DEF Editing
<1>5. CASE UserEdits
  <2>1. CASE Edit \/ BeginDrag \/ Close
    BY <2>1, LineStays DEF Edit, BeginDrag, Close, SettleFirst, SettleBegins, Present
  <2>2. CASE EndDrag
    BY <2>2, LineEnds DEF EndDrag, RecordingInv
  <2>3. ASSUME NEW v \in Val, DragTo(v) \/ DragRaises(v) PROVE LineStep
    <3>1. active # "none" /\ Record("session", Thing) /\ undo' = undo
      BY <2>3 DEF DragTo, DragRaises, RecordedInv
    <3>2. QED
      BY <3>1, LineRecords DEF Who, Thing
  <2>4. QED
    BY <1>5, <2>1, <2>2, <2>3 DEF UserEdits
<1>6. CASE UNCHANGED vars
  BY <1>6, LineStays DEF vars, Present
<1>7. QED
  BY <1>1, <1>2, <1>3, <1>4, <1>5, <1>6 DEF Next

\* Whatever is refused, aborted, cut short or fails half-way, the document's
\* history stays a line of states: every drag, field edit and deletion of Edit
\* Unit (session.py) is one edit of LinearHistory or none.
THEOREM StepsMakeALine ==
  ASSUME Recordable
  PROVE  Spec => HistoryIsLinear
<1>1. Init => Line!Init
  <2> SUFFICES ASSUME Init PROVE Line!Init
    OBVIOUS
  <2>1. DataOK
    <3>1. \A c \in Content : OtherStep(c) \in Step
      BY DEF Step, Who, OtherStep
    <3>2. undo \in Seq(Step) /\ redo \in Seq(Step)
      <4>1. \A t \in Step : <<t>> \in Seq(Step)
        OBVIOUS
      <4>2. QED
        BY <3>1, <4>1, EmptySeq DEF Init, Content
    <3>3. QED
      BY <3>2 DEF Init, DataOK, Content, Places, Jobs
  <2>2. Befores(undo) \in Seq(Content) /\ Befores(redo) \in Seq(Content)
    BY <2>1, BeforesTyped DEF DataOK
  <2>3. Present \in Content
    BY DEF Init, Present, Content
  <2>4. QED
    BY <2>2, <2>3 DEF Line!Init, Befores, Present
<1>2. TypeOK /\ RecordingInv /\ RecordedInv /\ [Next]_vars => RecordingInv' /\ RecordedInv'
  BY RecordingStep, RecordedStep
<1>3. TypeOK /\ RecordingInv /\ RecordedInv /\ [Next]_vars
        => [Line!Next]_(Line!historyVars)
  BY LineFollows DEF LineStep
<1>4. Init => RecordingInv /\ RecordedInv
  BY RecordingInit, RecordedInit
<1>5. QED
  BY <1>1, <1>2, <1>3, <1>4, TypeCorrect, PTL DEF Spec, HistoryIsLinear

------------------------------------------------------------------------------
(* Emptying the Gui list moves the document and takes the move back.       *)

LEMMA StepIsItself ==
  ASSUME NEW s \in Step
  PROVE  [by |-> s.by, hands |-> s.hands, before |-> s.before] = s
BY DEF Step

LEMMA RedoTakenBack ==
  ASSUME DataOK, RedoStep
  PROVE  /\ undo' # << >> /\ Last(undo').before = content /\ Front(undo') = undo
         /\ Append(redo', [by |-> Last(undo').by, hands |-> Last(undo').hands,
                           before |-> content']) = redo
<1>1. Last(redo) \in Step /\ redo = Append(Front(redo), Last(redo))
  BY FrontLast, FrontAppend DEF DataOK, RedoStep
<1>2. Turned(Last(redo)) \in Step
  BY <1>1, TurnedTyped DEF DataOK
<1>3. undo' # << >> /\ Front(undo') = undo /\ Last(undo') = Turned(Last(redo))
  BY <1>2, AppendFront DEF DataOK, RedoStep
<1>4. [by |-> Last(undo').by, hands |-> Last(undo').hands, before |-> content'] = Last(redo)
  BY <1>1, <1>3, StepIsItself DEF Turned, RedoStep
<1>5. Last(undo').before = content
  BY <1>3 DEF Turned
<1>6. QED
  BY <1>1, <1>3, <1>4, <1>5 DEF RedoStep

LEMMA UndoPutBack ==
  ASSUME DataOK, UndoStep
  PROVE  /\ redo' # << >> /\ Last(redo').before = content /\ Front(redo') = redo
         /\ Append(undo', [by |-> Last(redo').by, hands |-> Last(redo').hands,
                           before |-> content']) = undo
<1>1. Last(undo) \in Step /\ undo = Append(Front(undo), Last(undo))
  BY FrontLast, FrontAppend DEF DataOK, UndoStep
<1>2. Turned(Last(undo)) \in Step
  BY <1>1, TurnedTyped DEF DataOK
<1>3. redo' # << >> /\ Front(redo') = redo /\ Last(redo') = Turned(Last(undo))
  BY <1>2, AppendFront DEF DataOK, UndoStep
<1>4. [by |-> Last(redo').by, hands |-> Last(redo').hands, before |-> content'] = Last(undo)
  BY <1>1, <1>3, StepIsItself DEF Turned, UndoStep
<1>5. Last(redo').before = content
  BY <1>3 DEF Turned
<1>6. QED
  BY <1>1, <1>3, <1>4, <1>5 DEF UndoStep

\* At each point of _empty_gui_list the document is one step from where settle
\* found it, or there already.
EmptyingInv ==
  /\ pc \in {"empty", "reload"} /\ job # "finish" => mark = Found
  /\ pc = "take_back" /\ job # "finish" =>
       mark = [content |-> Last(undo).before, redo |-> Append(redo, Turned(Last(undo))),
               steps |-> Front(undo)]
  /\ pc = "put_back" /\ job # "finish" =>
       mark = [content |-> Last(redo).before, redo |-> Front(redo),
               steps |-> Append(undo, Turned(Last(redo)))]
  /\ pc = "reload" => job # "finish"

LEMMA EmptyingStep == TypeOK /\ RecordingInv /\ EmptyingInv /\ [Next]_vars => EmptyingInv'
<1> SUFFICES ASSUME TypeOK, RecordingInv, EmptyingInv, [Next]_vars PROVE EmptyingInv'
  OBVIOUS
<1> USE DEF document, history, session
<1>1. CASE UserMoves \/ Others
  <2>1. pc' \notin {"empty", "reload", "take_back", "put_back"}
    BY <1>1 DEF UserMoves, Others, UndoCommitsFirst, Undo, Redo, OtherOpens, OtherWrites,
         OtherCommits, OtherAborts, OtherLeavesOpen, BareChange
  <2>2. QED
    BY <2>1 DEF EmptyingInv
<1>2. ASSUME NEW j \in {"timer", "edit", "press", "close"}, SettleBegins(j) PROVE EmptyingInv'
  <2>1. mark' = Found /\ Found' = Found /\ pc' = "empty"
    BY <1>2 DEF SettleBegins, Found
  <2>2. QED
    BY <2>1 DEF EmptyingInv
<1>3. CASE Settling
  <2>1. CASE SettleTimer
    BY <2>1, <1>2 DEF SettleTimer
  <2>2. CASE NothingToEmpty \/ RedoRefused
    <3>1. Found' = Found /\ mark' = mark /\ pc = "empty" /\ AfterEmptying
      BY <2>2 DEF NothingToEmpty, RedoRefused, Found
    <3>2. QED
      BY <3>1 DEF AfterEmptying, EmptyingInv
  <2>3. CASE EmptyByRedo
    <3>1. rec = NoRec /\ RedoStep /\ mark' = mark /\ pc = "empty" /\ pc' = "take_back"
          /\ job' = job
      BY <2>3 DEF EmptyByRedo, RedoStep, RecordingInv
    <3>2. job # "finish" => mark = [content |-> content, redo |-> redo, steps |-> undo]
      BY <3>1 DEF EmptyingInv, Found
    <3>3. Turned(Last(undo))' = [by |-> Last(undo').by, hands |-> Last(undo').hands,
                                 before |-> content']
          /\ Last(undo)' = Last(undo') /\ Front(undo)' = Front(undo')
      BY DEF Turned, Last, Front
    <3>4. QED
      BY <3>1, <3>2, <3>3, RedoTakenBack DEF TypeOK, EmptyingInv
  <2>4. CASE TakeBack
    <3>1. rec = NoRec /\ rec' = NoRec /\ UndoStep /\ mark' = mark /\ pc = "take_back"
          /\ AfterEmptying
      BY <2>4 DEF TakeBack, RecordingInv
    <3>2. job # "finish" => mark = Found'
      BY <3>1 DEF EmptyingInv, Found, UndoStep
    <3>3. QED
      BY <3>1, <3>2 DEF AfterEmptying, EmptyingInv
  <2>5. CASE EmptyCommitsFirst
    <3>1. Found' = Found
      BY <2>5 DEF EmptyCommitsFirst, CommitRecording, Found
    <3>2. QED
      BY <2>5, <3>1 DEF EmptyCommitsFirst, EmptyingInv
  <2>6. CASE EmptyByUndo
    <3>1. rec = NoRec /\ UndoStep /\ mark' = mark /\ pc = "empty" /\ pc' = "put_back"
          /\ job' = job
      BY <2>6 DEF EmptyByUndo
    <3>2. job # "finish" => mark = [content |-> content, redo |-> redo, steps |-> undo]
      BY <3>1 DEF EmptyingInv, Found
    <3>3. Turned(Last(redo))' = [by |-> Last(redo').by, hands |-> Last(redo').hands,
                                 before |-> content']
          /\ Last(redo)' = Last(redo') /\ Front(redo)' = Front(redo')
      BY DEF Turned, Last, Front
    <3>4. QED
      BY <3>1, <3>2, <3>3, UndoPutBack DEF TypeOK, EmptyingInv
  <2>7. CASE PutBack
    <3>1. rec = NoRec /\ rec' = NoRec /\ RedoStep /\ mark' = mark /\ pc = "put_back"
          /\ AfterEmptying
      BY <2>7 DEF PutBack, RecordingInv
    <3>2. job # "finish" => mark = Found'
      BY <3>1 DEF EmptyingInv, Found, RedoStep
    <3>3. QED
      BY <3>1, <3>2 DEF AfterEmptying, EmptyingInv
  <2>8. CASE Reload
    BY <2>8 DEF Reload, After, EmptyingInv
  <2>9. QED
    BY <1>3, <2>1, <2>2, <2>3, <2>4, <2>5, <2>6, <2>7, <2>8 DEF Settling
<1>4. CASE Editing
  <2>1. pc' \in {"idle", "begin", "write", "keep", "drop"} \/ (pc' = "empty" /\ job' = "finish")
    BY <1>4 DEF Editing, Refuse, Accept, Begin, WriteNothing, WriteRefused, End, Finish,
         Write, WriteRaises, PaintRaises, AfterWrite
  <2>2. QED
    BY <2>1 DEF EmptyingInv
<1>5. CASE UserEdits
  <2>1. CASE Edit \/ BeginDrag \/ Close
    <3>1. PICK j \in {"edit", "press", "close"} : SettleFirst(j)
      BY <2>1 DEF Edit, BeginDrag, Close
    <3>2. CASE SettleBegins(j)
      BY <3>2, <1>2
    <3>3. CASE ~SettleBegins(j)
      BY <3>1, <3>3 DEF SettleFirst, After, EmptyingInv
    <3>4. QED
      BY <3>2, <3>3
  <2>2. CASE EndDrag \/ \E v \in Val : DragTo(v) \/ DragRaises(v)
    BY <2>2 DEF EndDrag, DragTo, DragRaises, EmptyingInv
  <2>3. QED
    BY <1>5, <2>1, <2>2 DEF UserEdits
<1>6. CASE UNCHANGED vars
  BY <1>6 DEF vars, EmptyingInv, Found, Turned
<1>7. QED
  BY <1>1, <1>3, <1>4, <1>5, <1>6 DEF Next

\* Whatever interferes, a read-back finds the document where settle found it,
\* both lists included: emptying Gui Redo's list (history.py _empty_gui_list)
\* takes back exactly the move it made.
THEOREM EmptyingTakesItBack == Spec => []EmptyingMovesNothing
<1>1. Init => EmptyingInv
  BY DEF Init, EmptyingInv
<1>2. EmptyingInv => EmptyingMovesNothing
  BY DEF EmptyingInv, EmptyingMovesNothing
<1>3. QED
  BY <1>1, <1>2, EmptyingStep, RecordingStep, RecordingInit, TypeCorrect, PTL DEF Spec

------------------------------------------------------------------------------
(* Every step is one hand's.                                               *)

AllOneHand(s) == \A i \in DOMAIN s : OneHand(s[i])

LEMMA OneHandAppend ==
  ASSUME NEW s \in Seq(Step), NEW t \in Step, AllOneHand(s), OneHand(t)
  PROVE  AllOneHand(Append(s, t))
<1>1. DOMAIN Append(s, t) = 1..(Len(s) + 1) /\ DOMAIN s = 1..Len(s) /\ Len(s) \in Nat
      /\ \A i \in 1..Len(s) : Append(s, t)[i] = s[i]
      /\ Append(s, t)[Len(s) + 1] = t
  BY AppendProperties, LenProperties
<1>2. \A i \in 1..(Len(s) + 1) : i \in 1..Len(s) \/ i = Len(s) + 1
  BY <1>1
<1>3. QED
  BY <1>1, <1>2 DEF AllOneHand

LEMMA OneHandFront ==
  ASSUME NEW s \in Seq(Step), s # << >>, AllOneHand(s)
  PROVE  AllOneHand(Front(s)) /\ OneHand(Last(s)) /\ OneHand(Turned(Last(s)))
<1>1. Len(s) \in Nat /\ Len(s) >= 1 /\ DOMAIN s = 1..Len(s) /\ s \in [1..Len(s) -> Step]
  BY EmptySeq, LenProperties
<1>2. Front(s) \in Seq(Step) /\ Len(Front(s)) = Len(s) - 1
      /\ \A i \in 1..(Len(s) - 1) : Front(s)[i] = s[i]
  BY <1>1 DEF Front
<1>3. DOMAIN Front(s) = 1..(Len(s) - 1)
  BY <1>2, LenProperties
<1>4. AllOneHand(Front(s))
  BY <1>1, <1>2, <1>3 DEF AllOneHand
<1>5. OneHand(Last(s))
  BY <1>1 DEF AllOneHand, Last
<1>6. QED
  BY <1>4, <1>5 DEF OneHand, Turned

LEMMA OneHandMoves ==
  ASSUME DataOK, AllOneHand(undo), AllOneHand(redo), UndoStep \/ RedoStep
  PROVE  AllOneHand(undo') /\ AllOneHand(redo')
<1>1. CASE UndoStep
  <2>1. Last(undo) \in Step /\ Turned(Last(undo)) \in Step
    BY <1>1, FrontLast, TurnedTyped DEF DataOK, UndoStep
  <2>2. QED
    BY <1>1, <2>1, OneHandFront, OneHandAppend DEF DataOK, UndoStep
<1>2. CASE RedoStep
  <2>1. Last(redo) \in Step /\ Turned(Last(redo)) \in Step
    BY <1>2, FrontLast, TurnedTyped DEF DataOK, RedoStep
  <2>2. QED
    BY <1>2, <2>1, OneHandFront, OneHandAppend DEF DataOK, RedoStep
<1>3. QED
  BY <1>1, <1>2

\* A recording is its opener's: the session's while its step is open, and
\* otherwise the other command's.
HandInv ==
  /\ AllOneHand(undo) /\ AllOneHand(redo)
  /\ rec # NoRec => OneHand(rec) /\ (rec.by = IF stepOpen THEN "session" ELSE "other")

LEMMA OneHandCommits ==
  ASSUME DataOK, HandInv, rec # NoRec
  PROVE  AllOneHand(Append(undo, StepOf(rec)))
<1>1. StepOf(rec) \in Step
  BY StepOfIsStep DEF DataOK
<1>2. OneHand(StepOf(rec))
  BY DEF HandInv, OneHand, StepOf
<1>3. QED
  BY <1>1, <1>2, OneHandAppend DEF DataOK, HandInv

\* Ending the session's step leaves every step one hand's.
LEMMA OneHandEnds ==
  ASSUME DataOK, HandInv, NEW keep \in BOOLEAN, EndStep(keep), redo' = redo
  PROVE  HandInv'
<1>1. CASE ~stepOpen
  BY <1>1 DEF EndStep, HandInv
<1>2. CASE stepOpen
  <2>1. rec' = NoRec
    BY <1>2 DEF EndStep
  <2>2. undo' = undo \/ (rec # NoRec /\ undo' = Append(undo, StepOf(rec)))
    BY <1>2 DEF EndStep
  <2>3. AllOneHand(undo')
    BY <2>2, OneHandCommits DEF HandInv
  <2>4. QED
    BY <2>1, <2>3 DEF HandInv
<1>3. QED
  BY <1>1, <1>2

\* A change by the hand whose transaction is active stays that hand's.
LEMMA OneHandRecords ==
  ASSUME DataOK, HandInv, NEW who \in Who, NEW touches \in SUBSET Thing,
         Record(who, touches), stepOpen' = stepOpen, undo' = undo,
         who = IF stepOpen THEN "session" ELSE "other",
         rec = NoRec => active \in {who, "none"}
  PROVE  HandInv'
<1>1. CASE rec # NoRec
  <2>1. rec'.by = rec.by /\ rec'.hands = rec.hands \union {who} /\ redo' = redo
    BY <1>1 DEF Record
  <2>2. rec.hands = {rec.by} /\ rec.by = who
    BY <1>1 DEF HandInv, OneHand
  <2>3. QED
    BY <2>1, <2>2 DEF HandInv, OneHand
<1>2. CASE rec = NoRec /\ active = "none"
  BY <1>2 DEF Record, HandInv
<1>3. CASE rec = NoRec /\ active = who
  <2>1. rec' = [by |-> active, hands |-> {who}, before |-> content, touched |-> touches]
        /\ redo' = << >>
    BY <1>3 DEF Record, Who
  <2>2. rec'.by = who /\ rec'.hands = {who}
    BY <1>3, <2>1
  <2>3. QED
    BY <2>1, <2>2 DEF HandInv, OneHand, AllOneHand
<1>4. QED
  BY <1>1, <1>2, <1>3

LEMMA HandStep ==
  ASSUME Interference \subseteq {"redo_refused"}, TypeOK, SessionInv, HandInv, [Next]_vars
  PROVE  HandInv'
<1> USE NotAllowed DEF document, history, session, TypeOK
<1>1. CASE UserMoves
  <2>1. CASE UndoCommitsFirst
    BY <2>1, OneHandCommits DEF UndoCommitsFirst, CommitRecording, HandInv
  <2>2. ASSUME NEW gui \in BOOLEAN, Undo(gui) \/ Redo(gui) PROVE HandInv'
    <3>1. rec = NoRec /\ rec' = NoRec /\ (UndoStep \/ RedoStep)
      BY <2>2 DEF Undo, Redo, SessionInv, StepInv, TransactionInv
    <3>2. QED
      BY <3>1, OneHandMoves DEF HandInv
  <2>3. QED
    BY <1>1, <2>1, <2>2 DEF UserMoves
<1>2. CASE Others
  <2>1. CASE OtherOpens \/ OtherCommits
    <3>1. CASE rec = NoRec
      BY <2>1, <3>1 DEF OtherOpens, OtherCommits, HandInv
    <3>2. CASE rec # NoRec
      BY <2>1, <3>2, OneHandCommits DEF OtherOpens, OtherCommits, CommitRecording, HandInv
    <3>3. QED
      BY <3>1, <3>2
  <2>2. CASE OtherAborts \/ OtherLeavesOpen
    BY <2>2 DEF OtherAborts, OtherLeavesOpen, HandInv
  <2>3. ASSUME NEW v \in Content, OtherWrites(v) PROVE HandInv'
    <3>1. ~stepOpen /\ active = "other"
      BY <2>3 DEF OtherWrites, SessionInv, StepInv, TransactionInv
    <3>2. Record("other", Thing) /\ stepOpen' = stepOpen /\ undo' = undo
      BY <2>3 DEF OtherWrites
    <3>3. QED
      BY <3>1, <3>2, OneHandRecords DEF Who, Thing
  <2>4. ASSUME NEW touches \in SUBSET Thing, BareChange(touches) PROVE HandInv'
    BY <2>4 DEF BareChange, DataOK, Who, SessionInv, TransactionInv
  <2>5. QED
    BY <1>2, <2>1, <2>2, <2>3, <2>4 DEF Others
<1>3. CASE Settling
  <2>1. CASE SettleTimer \/ NothingToEmpty \/ RedoRefused \/ Reload
    BY <2>1 DEF SettleTimer, SettleBegins, NothingToEmpty, RedoRefused, Reload, HandInv
  <2>2. CASE EmptyByRedo \/ TakeBack \/ EmptyByUndo \/ PutBack
    <3>1. (UndoStep \/ RedoStep) /\ rec' = rec /\ stepOpen' = stepOpen
      BY <2>2 DEF EmptyByRedo, TakeBack, EmptyByUndo, PutBack
    <3>2. QED
      BY <3>1, OneHandMoves DEF HandInv
  <2>3. CASE EmptyCommitsFirst
    BY <2>3, OneHandCommits DEF EmptyCommitsFirst, CommitRecording, HandInv
  <2>4. QED
    BY <1>3, <2>1, <2>2, <2>3 DEF Settling
<1>4. CASE Editing
  <2>1. CASE Refuse \/ Accept \/ WriteNothing \/ WriteRefused
    BY <2>1 DEF Refuse, Accept, WriteNothing, WriteRefused, HandInv
  <2>2. CASE Begin
    <3>1. CASE rec = NoRec
      BY <2>2, <3>1 DEF Begin, HandInv
    <3>2. CASE rec # NoRec
      BY <2>2, <3>2, OneHandCommits DEF Begin, HandInv
    <3>3. QED
      BY <3>1, <3>2
  <2>3. CASE End \/ Finish
    <3>1. CASE End
      BY <3>1, OneHandEnds DEF End
    <3>2. CASE Finish
      <4>1. redo' = redo /\ (EndStep(TRUE) \/ UNCHANGED <<undo, rec, stepOpen>>)
        BY <3>2 DEF Finish
      <4>2. CASE EndStep(TRUE)
        BY <4>1, <4>2, OneHandEnds
      <4>3. CASE UNCHANGED <<undo, rec, stepOpen>>
        BY <4>1, <4>3 DEF HandInv
      <4>4. QED
        BY <4>1, <4>2, <4>3
    <3>3. QED
      BY <2>3, <3>1, <3>2
  <2>4. ASSUME NEW v \in Val, Write(v) \/ WriteRaises(v) \/ PaintRaises(v) PROVE HandInv'
    <3>1. Record("session", Thing) /\ stepOpen' = stepOpen /\ undo' = undo
      BY <2>4 DEF Write, WriteRaises, PaintRaises
    <3>2. pc = "write" /\ rec = NoRec
      BY <2>4 DEF Write, WriteRaises, PaintRaises, SessionInv, ControlInv
    <3>3. CASE stepOpen
      <4>1. active = "session"
        BY <3>3 DEF SessionInv, StepInv
      <4>2. QED
        BY <3>1, <3>3, <4>1, OneHandRecords DEF Who, Thing
    <3>4. CASE ~stepOpen
      <4>1. active # "session" /\ active # "other"
        BY <3>2, <3>4 DEF SessionInv, TransactionInv
      <4>2. active = "none"
        BY <4>1 DEF DataOK, Who
      <4>3. rec' = NoRec /\ redo' = redo
        BY <3>1, <3>2, <4>2 DEF Record
      <4>4. QED
        BY <3>1, <4>3 DEF HandInv
    <3>5. QED
      BY <3>3, <3>4
  <2>5. QED
    BY <1>4, <2>1, <2>2, <2>3, <2>4 DEF Editing
<1>5. CASE UserEdits
  <2>1. CASE Edit \/ BeginDrag \/ Close
    BY <2>1 DEF Edit, BeginDrag, Close, SettleFirst, SettleBegins, HandInv
  <2>2. CASE EndDrag
    BY <2>2, OneHandEnds DEF EndDrag
  <2>3. ASSUME NEW v \in Val, DragTo(v) \/ DragRaises(v) PROVE HandInv'
    <3>1. Record("session", Thing) /\ stepOpen' = stepOpen /\ undo' = undo
      BY <2>3 DEF DragTo, DragRaises
    <3>2. stepOpen /\ active = "session"
      BY <2>3 DEF DragTo, DragRaises, SessionInv, StepInv
    <3>3. QED
      BY <3>1, <3>2, OneHandRecords DEF Who, Thing
  <2>4. QED
    BY <1>5, <2>1, <2>2, <2>3 DEF UserEdits
<1>6. CASE UNCHANGED vars
  BY <1>6 DEF vars, HandInv
<1>7. QED
  BY <1>1, <1>2, <1>3, <1>4, <1>5, <1>6 DEF Next

\* What one Undo takes back is one hand's: a step of the session never holds
\* another command's change, nor another's step one of the session's
\* (history.py begin, end and _close_pending).
THEOREM OneUndoOneHand ==
  ASSUME Interference \subseteq {"redo_refused"}
  PROVE  Spec => []StepsAreOneHands
<1>1. Init => HandInv
  <2>1. \A c \in Content : OneHand(OtherStep(c))
    BY DEF OneHand, OtherStep
  <2>2. QED
    BY <2>1 DEF Init, HandInv, AllOneHand, Content
<1>2. TypeOK /\ SessionInv /\ HandInv /\ [Next]_vars => HandInv'
  BY HandStep
<1>3. HandInv => StepsAreOneHands
  BY DEF HandInv, StepsAreOneHands, AllOneHand
<1>4. QED
  BY <1>1, <1>2, <1>3, TypeCorrect, SessionCorrect, PTL DEF Spec

------------------------------------------------------------------------------
(* No freed list is walked.                                                *)

\* A list holding view providers is one the session knows of, with steps to
\* walk and a read-back on its way: queued, or emptying it.  Nothing records
\* while one is, so nothing drops the steps that keep the entries alive.
GuiInv ==
  ~finished =>
    /\ guiList # "freed"
    /\ guiList = "live" => /\ guiListFilled
                           /\ settleQueued \/ pc \in {"empty", "put_back"}
                           /\ undo # << >> \/ redo # << >>
    /\ pc = "command" => ~settleQueued

LEMMA AppendNotEmpty ==
  ASSUME NEW S, NEW s \in Seq(S), NEW t \in S
  PROVE  Append(s, t) # << >>
BY AppendProperties, EmptySeq, LenProperties

\* A move leaves steps to walk.
LEMMA MoveLeavesSteps ==
  ASSUME DataOK, UndoStep \/ RedoStep
  PROVE  undo' # << >> \/ redo' # << >>
<1>1. CASE UndoStep
  <2>1. Turned(Last(undo)) \in Step
    BY <1>1, FrontLast, TurnedTyped DEF DataOK, UndoStep
  <2>2. QED
    BY <1>1, <2>1, AppendNotEmpty DEF DataOK, UndoStep
<1>2. CASE RedoStep
  <2>1. Turned(Last(redo)) \in Step
    BY <1>2, FrontLast, TurnedTyped DEF DataOK, RedoStep
  <2>2. QED
    BY <1>2, <2>1, AppendNotEmpty DEF DataOK, RedoStep
<1>3. QED
  BY <1>1, <1>2

\* A change recorded while no live list waits frees nothing.
LEMMA RecordFreesNothing ==
  ASSUME NEW who, NEW touches, Record(who, touches), guiList # "live"
  PROVE  guiList' = guiList
BY DEF Record

LEMMA GuiStep ==
  ASSUME Interference = {}, TypeOK, SessionInv, GuiInv, [Next]_vars
  PROVE  GuiInv'
<1> USE NotAllowed DEF document, history, session, TypeOK
<1>0. ~Allowed("redo_refused")
  BY DEF Allowed
<1>1. CASE UserMoves
  <2>1. CASE UndoCommitsFirst
    <3>1. (stepOpen /\ ~settleQueued /\ guiList # "live") \/ finished
      BY <2>1 DEF UndoCommitsFirst, SessionInv, StepInv, TransactionInv, GuiInv
    <3>2. guiList' = guiList /\ finished' = finished /\ pc' = "undo"
      BY <2>1 DEF UndoCommitsFirst
    <3>3. QED
      BY <3>1, <3>2 DEF GuiInv
  <2>2. ASSUME NEW gui \in BOOLEAN, Undo(gui) PROVE GuiInv'
    <3>1. undo' # << >> \/ redo' # << >>
      BY <2>2, MoveLeavesSteps DEF Undo
    <3>2. finished' = finished /\ pc' = "idle" /\ (~finished => settleQueued' = TRUE)
      BY <2>2 DEF Undo, Moved
    <3>3. ~finished => /\ guiList # "freed" => guiList' # "freed"
                       /\ guiList' = "live" => guiListFilled' = TRUE
      BY <2>2 DEF Undo, GuiUndoNotes, GuiInv
    <3>4. QED
      BY <3>1, <3>2, <3>3 DEF GuiInv
  <2>3. ASSUME NEW gui \in BOOLEAN, Redo(gui) PROVE GuiInv'
    <3>1. undo' # << >> \/ redo' # << >>
      BY <2>3, MoveLeavesSteps DEF Redo
    <3>2. finished' = finished /\ pc' = "idle" /\ (~finished => settleQueued' = TRUE)
      BY <2>3 DEF Redo, Moved
    <3>3. ~finished => /\ guiList # "freed" => guiList' # "freed"
                       /\ guiList' = "live" => guiListFilled' = TRUE
      BY <2>3 DEF Redo, GuiInv
    <3>4. QED
      BY <3>1, <3>2, <3>3 DEF GuiInv
  <2>4. QED
    BY <1>1, <2>1, <2>2, <2>3 DEF UserMoves
<1>2. CASE Others
  <2>1. CASE OtherOpens
    <3>1. ~settleQueued
      BY <2>1, <1>0 DEF OtherOpens, Undisturbed, Allowed
    <3>2. rec # NoRec => stepOpen
      BY <2>1 DEF OtherOpens, SessionInv, TransactionInv
    <3>3. ~settleQueued'
      BY <2>1, <3>1, <3>2 DEF OtherOpens, CommitRecording, slotCommitTransaction
    <3>4. guiList' = guiList /\ finished' = finished /\ pc' = "command" /\ pc = "idle"
      BY <2>1 DEF OtherOpens
    <3>5. QED
      BY <3>1, <3>3, <3>4 DEF GuiInv
  <2>2. CASE OtherCommits
    <3>1. guiList' = guiList /\ finished' = finished /\ pc' = "idle" /\ pc = "command"
      BY <2>2 DEF OtherCommits
    <3>2. QED
      BY <3>1 DEF GuiInv
  <2>3. CASE OtherAborts
    <3>1. guiList' = guiList /\ finished' = finished /\ pc' = "idle" /\ pc = "command"
      BY <2>3 DEF OtherAborts
    <3>2. QED
      BY <3>1 DEF GuiInv
  <2>4. CASE OtherLeavesOpen
    BY <2>4 DEF OtherLeavesOpen
  <2>5. ASSUME NEW v \in Content, OtherWrites(v) PROVE GuiInv'
    <3>1. pc = "command" /\ pc' = pc /\ finished' = finished /\ settleQueued' = settleQueued
          /\ Record("other", Thing)
      BY <2>5 DEF OtherWrites
    <3>2. QED
      BY <3>1, RecordFreesNothing DEF GuiInv, Record
  <2>6. ASSUME NEW touches \in SUBSET Thing, BareChange(touches) PROVE GuiInv'
    <3>1. pc = "idle" /\ pc' = pc /\ finished' = finished /\ settleQueued' = settleQueued
          /\ Record("other", touches) /\ ~settleQueued
      BY <2>6 DEF BareChange
    <3>2. QED
      BY <3>1, RecordFreesNothing DEF GuiInv
  <2>7. QED
    BY <1>2, <2>1, <2>2, <2>3, <2>4, <2>5, <2>6 DEF Others
<1>3. CASE Settling
  <2>1. CASE SettleTimer
    BY <2>1 DEF SettleTimer, SettleBegins, GuiInv
  <2>2. CASE NothingToEmpty
    <3>1. guiList' = guiList
          /\ pc = "empty" /\ pc' \in {"idle", "reload"} /\ UNCHANGED <<undo, redo, settleQueued>>
      BY <2>2 DEF NothingToEmpty, AfterEmptying
    <3>2. ~finished' => ~finished
      BY <2>2 DEF NothingToEmpty, AfterEmptying
    <3>3. ~finished => guiList # "live"
      BY <2>2 DEF NothingToEmpty, GuiInv
    <3>4. QED
      BY <3>1, <3>2, <3>3 DEF GuiInv
  <2>3. CASE EmptyByRedo \/ PutBack
    <3>1. guiList' = "empty" /\ pc' # "command"
      BY <2>3 DEF EmptyByRedo, PutBack, AfterEmptying
    <3>2. QED
      BY <3>1 DEF GuiInv
  <2>4. CASE TakeBack
    <3>1. pc = "take_back" /\ guiList' = guiList /\ pc' # "command" /\ (~finished' => ~finished)
      BY <2>4 DEF TakeBack, AfterEmptying
    <3>2. ~settleQueued
      BY <3>1 DEF SessionInv, TransactionInv, Emptying
    <3>3. QED
      BY <3>1, <3>2 DEF GuiInv
  <2>5. CASE RedoRefused
    BY <2>5, <1>0 DEF RedoRefused
  <2>6. CASE EmptyCommitsFirst
    <3>1. pc = "empty" /\ rec # NoRec
      BY <2>6 DEF EmptyCommitsFirst
    <3>2. QED
      BY <3>1 DEF SessionInv, StepInv, TransactionInv
  <2>7. CASE EmptyByUndo
    <3>1. undo' # << >> \/ redo' # << >>
      BY <2>7, MoveLeavesSteps DEF EmptyByUndo
    <3>2. pc' = "put_back" /\ guiListFilled' = TRUE /\ finished' = finished
          /\ (guiList # "freed" => guiList' # "freed")
      BY <2>7 DEF EmptyByUndo, GuiUndoNotes
    <3>3. QED
      BY <3>1, <3>2 DEF GuiInv
  <2>8. CASE Reload
    <3>1. guiList' = guiList /\ pc = "reload" /\ pc' \in {"idle", "finish", "compute"}
          /\ (~finished' => ~finished) /\ UNCHANGED <<undo, redo, settleQueued, guiListFilled>>
      BY <2>8 DEF Reload, After
    <3>2. QED
      BY <3>1 DEF GuiInv
  <2>9. QED
    BY <1>3, <2>1, <2>2, <2>3, <2>4, <2>5, <2>6, <2>7, <2>8 DEF Settling
<1>4. CASE Editing
  <2>1. pc \in {"compute", "begin", "write", "keep", "drop", "finish"}
    BY <1>4 DEF Editing, Refuse, Accept, Begin, Write, WriteNothing, WriteRefused,
         WriteRaises, PaintRaises, End, Finish
  <2>2. ~finished => ~settleQueued
    BY <2>1 DEF SessionInv, StepInv, TransactionInv, Emptying
  <2>3. ~finished => guiList # "live" /\ guiList # "freed"
    BY <2>1, <2>2 DEF GuiInv
  <2>4. finished' = finished /\ pc' # "command"
    BY <1>4 DEF Editing, Refuse, Accept, Begin, Write, WriteNothing, WriteRefused,
         WriteRaises, PaintRaises, AfterWrite, End, Finish
  <2>5. guiList' = guiList \/ \E v \in Val : Write(v) \/ WriteRaises(v) \/ PaintRaises(v)
    BY <1>4 DEF Editing, Refuse, Accept, Begin, WriteNothing, WriteRefused, End, Finish
  <2>6. ~finished => guiList' = guiList
    BY <2>3, <2>5, RecordFreesNothing DEF Write, WriteRaises, PaintRaises
  <2>7. QED
    BY <2>3, <2>4, <2>6 DEF GuiInv
<1>5. CASE UserEdits
  <2>1. CASE Edit \/ BeginDrag \/ Close
    <3>1. PICK j \in {"edit", "press", "close"} : SettleFirst(j) /\ pc = "idle"
      BY <2>1 DEF Edit, BeginDrag, Close
    <3>2. CASE settleQueued
      BY <3>1, <3>2 DEF SettleFirst, SettleBegins, GuiInv
    <3>3. CASE ~settleQueued
      BY <3>1, <3>3 DEF SettleFirst, After, GuiInv
    <3>4. QED
      BY <3>2, <3>3
  <2>2. CASE EndDrag
    <3>1. ~finished /\ drag /\ pc = "idle" /\ guiList' = guiList /\ pc' = pc
          /\ finished' = finished
      BY <2>2 DEF EndDrag
    <3>2. ~settleQueued
      BY <3>1 DEF SessionInv, StepInv, TransactionInv
    <3>3. QED
      BY <3>1, <3>2 DEF GuiInv
  <2>3. ASSUME NEW v \in Val, DragTo(v) \/ DragRaises(v) PROVE GuiInv'
    <3>1. ~finished /\ drag /\ pc = "idle" /\ Record("session", Thing) /\ pc' = pc
          /\ finished' = finished
      BY <2>3 DEF DragTo, DragRaises
    <3>2. ~settleQueued
      BY <3>1 DEF SessionInv, StepInv, TransactionInv
    <3>3. QED
      BY <3>1, <3>2, RecordFreesNothing DEF GuiInv
  <2>4. QED
    BY <1>5, <2>1, <2>2, <2>3 DEF UserEdits
<1>6. CASE UNCHANGED vars
  BY <1>6 DEF vars, GuiInv
<1>7. QED
  BY <1>1, <1>2, <1>3, <1>4, <1>5, <1>6 DEF Next

\* While the session follows the document, Gui Redo never walks a freed view
\* provider: each read-back empties the list (history.py _empty_gui_list)
\* before an edit can drop the Redo steps that keep its entries alive.
THEOREM GuiAlive ==
  ASSUME Interference = {}
  PROVE  Spec => []GuiListIsAlive
<1>1. Init => GuiInv
  BY DEF Init, GuiInv
<1>2. TypeOK /\ SessionInv /\ GuiInv /\ [Next]_vars => GuiInv'
  BY GuiStep
<1>3. GuiInv => GuiListIsAlive
  BY DEF GuiInv, GuiListIsAlive
<1>4. Spec => []SessionInv
  BY SessionCorrect
<1>5. QED
  BY <1>1, <1>2, <1>3, <1>4, TypeCorrect, PTL DEF Spec

==============================================================================
