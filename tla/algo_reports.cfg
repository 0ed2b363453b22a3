SPECIFICATION Spec
CONSTANTS
  Wallets = {w1, w2}
  OptionSets <- AllOptions
  DefaultLimit = 4
  Library = TRUE
  Faults = {"no_account", "cut", "raise", "export_raise", "exit"}
  MaxRound = 3
INVARIANTS TypeOK NoneSkippedIfSmooth ReportedOnce FullReport
CHECK_DEADLOCK FALSE
