CONSTANTS
  Tx = {t1, t2, t3}
  Items = {1, 2}
  Consumable <- OneConsumable
  Records = {1, 2}
  RecordItem <- OwnRecord
  Operations <- AllButMoves
  MaxLines = 1
  Rows <- AssetRows
  Programs <- AssetPrograms
  Projects = {q1, q2}
  Names = {"n"}
  Years = {1, 2}
  Files <- SomeFiles
  Requests = {r1, r2}
  Users = {u1}
  Editors = {w1}
  MaxRev = 2
  Tasks = {"x1", "x2", "x3", "x4"}
  PoolSize = 2
  Assets = {a1}
  Orders = {o1, o2}
  Codes = {c1, c2, c3}
  Handlers = {h1, h2, h3}
SPECIFICATION BusinessSpec
INVARIANTS
  NoLockCycle
  OneImportAtATime
  AnswersItself
  RepairHasOrder
PROPERTIES
  OverwritesWhatWasSeen
  TasksSettle
  RevokedForGood
CHECK_DEADLOCK FALSE
