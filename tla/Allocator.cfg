SPECIFICATION Spec
CONSTANTS
  Reservation = {r1, r2}
  InitAllocated <- MCInitAllocated
  InitTotal = 3
  SliceElements = 2
  MaxTotal = 5
  UsingFvm = TRUE
  MaxRequest = 2
  FreesOwnAllocations = FALSE
INVARIANTS TypeOK NoElementTwice AccountingExact FirstFreeIsAccurate FindSucceeds
PROPERTY ImplementsPool
