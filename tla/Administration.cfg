SPECIFICATION FairSpec
CONSTANTS
  Users = {1, 2, 3}
  Assets = {a1}
  Orders = {o1, o2}
  Sessions = {s1, s2}
  Emails = {"e1", "e2", "e3"}
  Codes = {"c1"}
  Values = {"v"}
  AssetFields = {"name"}
  OrderFields = {"title", "priority"}
  Null = Null
  Gone = Gone
  a1 = a1
  a2 = a2
  o1 = o1
  o2 = o2
  Requests <- AdminRequests
  InitUsers <- AdminUsers
  InitAssets <- AssignAssets
  InitOrders <- AdminOrders
INVARIANTS
  LastAdminIsDefensive
  NoDeadlock
  NoWaitCycle
PROPERTIES
  Drains
  AdministratorRemains
