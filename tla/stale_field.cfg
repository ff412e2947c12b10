CONSTANTS
  Boards = {b1, b2}
  Shell = Shell
  Aside = Aside
  Nothing = Nothing
  MaxOpenings = 3
  MaxEvents = 5
  MaxWaiting = 0
SPECIFICATION Spec
CHECK_DEADLOCK FALSE
INVARIANT
  SelectionIsReal
