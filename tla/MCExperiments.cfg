SPECIFICATION Spec
CONSTANTS
  Subjects <- MCSubjects
  BlockSize = 4
  StrideEntries = 1
  RegionShift = 2
INVARIANTS
  StreamReplays
  PolicyBound
  SweepsMonotone
CHECK_DEADLOCK FALSE
