SPECIFICATION Spec
CONSTANTS
  Users = {1, 2}
  Assets = {a1, a2}
  Orders = {o1, o2}
  Sessions = {s1, s2}
  Emails = {"e1", "e2"}
  Codes = {"c1"}
  Values = {"v"}
  AssetFields = {"name"}
  OrderFields = {"title", "priority"}
  Null = Null
  Gone = Gone
  a1 = a1
  a2 = a2
  o1 = o1
  o2 = o2
  Requests <- RetireRequests
  InitUsers <- AssetUsers
  InitAssets <- AssetAssets
  InitOrders <- NoOrders
INVARIANTS
  AssetInService
  ForeignKeyNeverFires
  WriterStaysAuthorized
