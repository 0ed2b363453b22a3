CONSTANTS
  Inputs <- MCInputs
  ManyContracts = 2
  MaxRows = 2
SPECIFICATION Spec
INVARIANTS
  FeeOnce
  NoFeeAfterReceipt
  MoneyConserved
  NoneMissing
  DepositsOnce
  ReportAddsUp
  LiquidityAddsUp
