CONSTANTS
  Tx = {t1, t2}
  Items = {1, 2}
  Consumable <- OneConsumable
  Records = {1, 2}
  RecordItem <- OwnRecord
  Operations = {"submit", "transfer"}
  MaxLines = 1
  Rows <- AssetRows
  Programs <- AssetPrograms
SYMMETRY TxSymmetry
SPECIFICATION Spec
INVARIANT NoLockCycle
CHECK_DEADLOCK FALSE
