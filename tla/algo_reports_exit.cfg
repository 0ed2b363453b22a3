SPECIFICATION Spec
CONSTANTS
  Wallets = {w1}
  OptionSets <- UsualOptions
  DefaultLimit = 4
  Library = FALSE
  Faults = {"exit"}
  MaxRound = 3
INVARIANT NoneSkipped
CHECK_DEADLOCK FALSE
