SPECIFICATION SeedSpec
CONSTANTS
  Users = {1, 2, 3, 4}
  Assets = {}
  Orders = {}
  Sessions = {s1, s2}
  Emails = {"a", "m", "t", "x"}
  Codes = {}
  Values = {"demo"}
  AssetFields = {}
  OrderFields = {}
  Requests <- Beside
  InitUsers <- NoUsers
  InitAssets <- NoAssets
  InitOrders <- NoOrders
  Null = Null
  Gone = Gone
  Environments = {"development", "production"}
  DemoEmail <- Addresses
SYMMETRY Interchangeable
INVARIANTS
  OneRoot
  TrailMatchesTables
PROPERTIES
  SeededWhole
  LookupsStayTrue
