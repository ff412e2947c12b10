CONSTANTS
  Ids <- MCScanIds
  StartUnits <- ScanUnits
  MaxEdits = 1
  MaxSelected = 1
  Sizes <- MCScanSizes
  Thicknesses <- MCScanThicknesses
  UnitSizes <- MCScanUnitSizes
  LowFaces <- MCScanLowFaces
  Snap <- MCSnap
  Clearance <- MCClearance
  NoBoard = NoBoard
  Slides <- MCSlides
  Stretches <- MCStretches
  Doors <- MCDoors
  Displaced <- MCNowhere
  MaxChanges = 1
SPECIFICATION RSpec
CHECK_DEADLOCK FALSE
INVARIANTS
  WindowsAreWhole
  MirrorTurnsFacing
PROPERTIES
  ReloadKeepsLayout
  GeometryWins
  IntentSurvives
