SPECIFICATION Spec
CONSTANTS
  Wallet = "w"
  StakeAccounts = {"s1", "s2"}
  TokenAccounts <- MCTokenAccounts
  Owned <- MCOwned
  Overrides <- MCOverrides
  Reports <- MCReports
  PageSize = 3
  MaxQueries = 3
  MaxFaults = 1
INVARIANTS AddsUp SeriesAddUp OnceEach OldestBefore
PROPERTY StakeAccountsToo
CHECK_DEADLOCK FALSE
