SPECIFICATION TreeSpec
CONSTANTS
  Blocks = {0, 1, 2, 3}
  SetCounts = {1, 2, 3}
  MaxReferences = 6
INVARIANTS
  DistanceIsReuse
  MissCurve
  TreeCountsMarkers
CHECK_DEADLOCK FALSE
