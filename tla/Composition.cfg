SPECIFICATION Spec
CONSTANTS
  Users = {1, 2, 3}
  Assets = {a1, a2}
  Orders = {o1}
  Sessions = {s1, s2}
  Emails = {"e1", "e2", "e3"}
  Codes = {"c1"}
  Values = {"v", "w"}
  AssetFields = {"name"}
  OrderFields = {"title", "priority"}
  Null = Null
  Gone = Gone
  a1 = a1
  a2 = a2
  o1 = o1
  o2 = o2
  Requests <- TeamRequests
  InitUsers <- TeamUsers
  InitAssets <- AssetAssets
  InitOrders <- NoOrders
INVARIANTS
  Typed
  TrailMatchesTables
  NoLostUpdate
PROPERTIES
  Serializable
