CONSTANTS
  Boards = {b1, b2}
  Shell = Shell
  Aside = Aside
  Nothing = Nothing
  MaxOpenings = 3
  MaxEvents = 5
  MaxWaiting = 1
SPECIFICATION Spec
CHECK_DEADLOCK FALSE
INVARIANTS
  TypeOK
  DrawingIsCurrent
  BoardsAreHeld
PROPERTIES
  TypedSizesLand
  PadlocksDoWhatTheyShow
  DeletesWhatIsDrawn
  EditorSettles
