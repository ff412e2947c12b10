CONSTANTS
  Ids <- MCIds
  StartUnits <- HandUnits
  MaxEdits = 1
  MaxSelected = 2
  Sizes <- MCSizes
  Thicknesses <- MCThicknesses
  UnitSizes <- MCUnitSizes
  LowFaces <- MCLowFaces
  OuterRowMm <- MCOuterRowMm
  Offsets <- MCOffsets
SPECIFICATION Spec
CHECK_DEADLOCK FALSE
INVARIANTS
  GeometryEditsSolve
  MergeRestoresSplit
  FixedSidesStay
  DragsFollowTheArrow
  PadlockGivesArrow
  DimensionsAreTrue
