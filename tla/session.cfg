\* One session alone with well-behaved commands, Undo and Redo, and what it owes.
SPECIFICATION FairSpec
CONSTANTS
  Val = {v1, v2}
  Unreadable = Unreadable
  MaxSteps = 3
  Interference = {}
INVARIANTS
  TypeOK
  UnitIsCurrent
  StepsAreOneHands
  NothingLeftOpen
  DragHoldsItsStep
  GuiListIsAlive
PROPERTIES
  WritesFromTheDocument
  SessionKeepsUp
