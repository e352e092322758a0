CONSTANTS
  Items = {1, 2}
  Reusable = FALSE
  QuotaLimit = 2
  InitialStock <- Stock21
  Types = {"STOCK_IN", "STOCK_CHANGE", "CONSUMABLE_REQUEST"}
  MaxRequests = 2
  MaxBatches = 4
  Orders <- SomeOrders
  MaxLine = 1
  Dates = {1}
  Deciders = {d1}
  Features = {"transfer", "correct", "overdue", "disable"}
SPECIFICATION FairSpec
INVARIANTS
  StockSound
  QuotaKept
PROPERTY PendingEnds
