CONSTANTS
  Ids <- MCScanIds
  StartUnits <- ColumnsOnly
  MaxEdits = 1
  MaxSelected = 1
  Sizes <- MCScanSizes
  Thicknesses <- MCScanThicknesses
  UnitSizes <- MCScanUnitSizes
  LowFaces <- MCScanLowFaces
  Snap <- MCSnap
  Clearance <- MCClearance
  NoBoard = NoBoard
  Slides <- MCSlides
  Stretches <- MCStretches
  Doors <- MCDoors
  Displaced <- MCNested
  MaxChanges = 1
SPECIFICATION RSpec
CHECK_DEADLOCK FALSE
PROPERTIES
  LocksMoveNoBoard
