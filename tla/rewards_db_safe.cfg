SPECIFICATION Spec
CONSTANTS
  Addr = {a1, a2}
  Writers = {w1}
  Readers = {r1}
  MaxEpoch = 3
  NBlocks = 2
  Faults = {}
INVARIANTS TypeOK MarkedEpochsComplete ReportExact MarksHaveNoGap
PROPERTIES RecordedRewardsKept ServiceSpec
