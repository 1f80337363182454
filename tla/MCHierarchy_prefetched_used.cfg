SPECIFICATION Spec
CONSTANTS
  None = None
  Blocks = {0, 1, 2}
  N = 2
  Sets = {0, 1}
  SetOf <- OneSet
  Ways <- W11
  Entries <- NoBuffers
  Inclusion <- AllNine
  WriteThrough <- Never
  WriteAllocate <- Always
  Prefetcher <- StrideAt2
  NextBlock <- NoSuccessor
INVARIANTS
  PrefetchedLeavesUnused
