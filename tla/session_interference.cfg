\* Commands that cut across the session, and failures inside it.
SPECIFICATION Spec
CONSTANTS
  Val = {v1, v2}
  Unreadable = Unreadable
  MaxSteps = 2
  Interference = {"command_left_open", "command_before_read_back", "redo_refused", "write_fails_late", "drag_write_fails"}
INVARIANTS
  EmptyingMovesNothing
PROPERTIES
  HistoryIsLinear
