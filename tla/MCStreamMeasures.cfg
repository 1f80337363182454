SPECIFICATION Spec
CONSTANTS
  Blocks = {0, 1, 2, 4, 5, 6, 8}
  Streams <- MCStreams
  Geometries <- MCGeometries
  Parameters <- MCParameters
  StrideEntries = 1
  RegionShift = 3
INVARIANTS
  HeapHoldsResidents
  OptIsBest
  WindowsByDefinition
  IndexSpreads
  TrustNeedsTwoStrides
  RowHitIsRepeat
PROPERTIES
  EvictsFarthest
CHECK_DEADLOCK FALSE
