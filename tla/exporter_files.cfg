SPECIFICATION Spec
CONSTANTS
  Names <- MCNames
  Alloyed <- MCAlloyed
  TxIds <- MCTxIds
  Txs <- UsualTxs
  MaxTxs = 2
  Times = {1, 2}
  LpTreatments = {"transfers", "omit", "trades"}
INVARIANTS FileAsIfAlone FilesConserve FeesShownOnce FilesInOrder DirectionsAgree EveryFormatWritten
PROPERTIES ReloadKeepsFile
CHECK_DEADLOCK FALSE
