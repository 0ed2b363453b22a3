CONSTANTS
  Inputs <- SentinelPairs
  ManyContracts = 2
  MaxRows = 2
SPECIFICATION Spec
INVARIANTS
  FeeCountedOnce
