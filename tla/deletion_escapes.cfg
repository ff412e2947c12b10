CONSTANTS
  Ids <- MCIds
  StartUnits <- AllUnits
  MaxEdits = 1
  MaxSelected = 2
  Sizes <- MCSizes
  Thicknesses <- MCThicknesses
  UnitSizes <- MCUnitSizes
  LowFaces <- MCLowFaces
SPECIFICATION Spec
CHECK_DEADLOCK FALSE
INVARIANT DeletionReturns
