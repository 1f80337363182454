SPECIFICATION Spec
CONSTANTS
  Specs <- MCSpecs
  Blocks = {0, 1, 2}
  BlockSize = 4
  StrideEntries = 1
  RegionShift = 2
INVARIANTS
  SameAsReference
  DefaultAgrees
  MissClasses
  ChecksHold
  ResetIsSilent
  AmatIsMeasured
  DramTraffic
  PrefetchesAccounted
CHECK_DEADLOCK FALSE
