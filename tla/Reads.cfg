SPECIFICATION Spec
CONSTANTS
  Users = {1, 2}
  Assets = {11, 12}
  Orders = {21, 22, 23}
  Sessions = {s1}
  AssetFields = {"name"}
  OrderFields = {"title"}
  Null = Null
  Gone = Gone
  Overlap = 3
  Requests <- Changes
  Queries <- Looks
  InitUsers <- Team
  InitAssets <- Plant
  InitOrders <- Backlog
INVARIANTS
  AnswersOneState
