SPECIFICATION Spec
CONSTANTS
  None = None
  Blocks = {b1, b2, b3}
  N = 2
  Sets = {0, 1}
  SetOf <- OneSet
  Ways <- W11
  Entries <- NoBuffers
  Inclusion <- NX
  WriteThrough <- Never
  WriteAllocate <- Always
  Prefetcher <- NoPrefetchers
  NextBlock <- NoSuccessor
SYMMETRY Interchangeable
INVARIANTS
  ExclusionHolds
