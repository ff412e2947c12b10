\* The Delete key pressed while a drag is on.
SPECIFICATION Spec
CONSTANTS
  Val = {v1, v2}
  Unreadable = Unreadable
  MaxSteps = 2
  Interference = {"edit_in_drag"}
INVARIANTS
  NothingLeftOpen
