CONSTANTS
  Items = {1, 2}
  Reusable = TRUE
  QuotaLimit = 2
  InitialStock <- Stock30
  Types = {"CONSUMABLE_REQUEST", "AGENT_REQUEST", "RETURN", "WRITE_OFF", "AGENT_SETTLEMENT"}
  MaxRequests = 3
  MaxBatches = 3
  Orders <- LendOrders
  MaxLine = 1
  Dates = {1}
  Deciders = {d1}
  Features = {"transfer", "correct", "deactivate"}
SPECIFICATION Spec
INVARIANTS
  Returnable
  ActionsFit
  SettledWhole
  StockSound
