CONSTANTS
  Wallet = "w"
  Dust = 2
  LpTokens <- MCLpTokens
  Unknown = {"U"}
  Excluded = {"X"}
  Pera = "pera"
  Rewarders = {"gov"}
  LimitOrderApps = {"limit"}
  Histories <- MCHistories
  Escrows = {"mine"}
  Orders <- MCOrders
  PriceUnit = 120
  RateUnit = 2
  InitTxns = 2
  Banks <- MCBanks
  StorageV1 = "storage1"
  StorageV2 = "storage2"
  LockedAsset = "A"
  FolksTokens = {"fA"}
  Managers = {"algofiManager"}
  Staking = {"algofiStaking"}
  Governance = {"folksGov"}
SPECIFICATION Spec
INVARIANTS
  Balanced
  EachOnce
  NoRivals
  FirstInFirstOut
PROPERTY
  Processed
CHECK_DEADLOCK FALSE
