CONSTANTS
  Ids <- MCIds
  StartUnits <- AllUnits
  MaxEdits = 2
  MaxSelected = 1
  Sizes <- MCSizes
  Thicknesses <- MCThicknesses
  UnitSizes <- MCUnitSizes
  LowFaces <- MCLowFaces
SPECIFICATION Spec
CHECK_DEADLOCK FALSE
INVARIANTS
  TypeOK
  RunsKeepOneUnlocked
  NoSameAxisNesting
PROPERTIES
  EditsMoveTheirOwn
  LocksHold
