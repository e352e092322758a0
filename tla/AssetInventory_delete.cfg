CONSTANTS
  Items = {1, 2}
  Reusable = FALSE
  QuotaLimit = 2
  InitialStock <- NoStock
  Types = {"STOCK_IN", "STOCK_CHANGE", "CONSUMABLE_REQUEST"}
  MaxRequests = 3
  MaxBatches = 3
  Orders <- OneItem
  MaxLine = 2
  Dates = {1}
  Deciders = {d1}
  Features = {"delete", "disable", "transfer"}
SPECIFICATION Spec
INVARIANT NothingAfterDeletion
CHECK_DEADLOCK FALSE
