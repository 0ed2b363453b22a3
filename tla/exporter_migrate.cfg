SPECIFICATION Spec
CONSTANTS
  Names <- MCNames
  Alloyed <- MCAlloyed
  TxIds <- MCTxIds
  Txs <- MigrateTxs
  MaxTxs = 2
  Times = {1, 2}
  LpTreatments = {"transfers"}
INVARIANT WaltioOutputsEveryLeg
CHECK_DEADLOCK FALSE
