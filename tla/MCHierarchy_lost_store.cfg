SPECIFICATION Spec
CONSTANTS
  None = None
  Blocks = {b1, b2, b3}
  N = 2
  Sets = {0, 1}
  SetOf <- OneSet
  Ways <- W11
  Entries <- V01
  Inclusion <- NX
  WriteThrough <- First
  WriteAllocate <- Always
  Prefetcher <- NoPrefetchers
  NextBlock <- NoSuccessor
SYMMETRY Interchangeable
INVARIANTS
  StoresConserved
