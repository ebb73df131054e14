SPECIFICATION AuditSpec
CONSTANTS
  Sessions = {s1, s2}
  Null = Null
  Horizon = 1
  Ids <- Numbers
  Roster <- Readers
  Leavers = {"manager"}
  Author = "u1"
  WorkOrder = "o1"
  InitLog <- Older
  Queries <- Looks
  Overlap = 2
SYMMETRY Symmetry
INVARIANTS
  ListAnswersOneState
  WalksMissNothing
  WritersAreShown
  OnlyPublicFields
PROPERTIES
  UpdatedAtGrows
  ListedInRealTime
