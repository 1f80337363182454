SPECIFICATION FairSpec
CONSTANTS
  None = None
  Blocks = {0, 1, 2, 3}
  N = 3
  Sets = {0, 1}
  SetOf <- TwoSetsInL1
  Ways <- W111
  Entries <- V001
  Inclusion <- NXI
  WriteThrough <- Third
  WriteAllocate <- Third
  Prefetcher <- StrideAt1NextLineAt3
  NextBlock <- Successor
INVARIANTS
  TypeOK
  StoresConserved
  ServedNewest
  NewestKept
  InclusionHolds
  ExclusionHolds
  WriteThroughClean
  SnapshotCurrent
  ReferencedBlockStays
PROPERTIES
  VictimHitDisplacesNothing
  CallsReturn
