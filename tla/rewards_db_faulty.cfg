SPECIFICATION FairSpec
CONSTANTS
  Addr = {a1}
  Writers = {w1, w2}
  Readers = {r1}
  MaxEpoch = 2
  NBlocks = 1
  Faults = {"write_error", "unprocessed_keys", "missed_block", "rpc_error"}
INVARIANT ReportLacksOnlyLost
PROPERTY RunCompletes
