SPECIFICATION Spec
CONSTANTS
  Subjects <- MCBelowTwo
  BlockSize = 4
  StrideEntries = 1
  RegionShift = 2
INVARIANTS
  RecordedStreamExact
CHECK_DEADLOCK FALSE
