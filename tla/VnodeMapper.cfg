SPECIFICATION Spec
CONSTANTS
  Direct = 1
  Indirect = 1
  DoublyIndirect = 1
  PerIndirect = 2
  Areas = {10, 20}
  MaxMoved = 1
  MaxCount = 3
INVARIANTS LookupIsMap StoredIsMap MapperAssertionsHold NeverReadsBack
