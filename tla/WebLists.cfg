SPECIFICATION Spec
CONSTANTS
  Ids = {1, 2, 3}
  Values = {1, 2}
  Null = Null
  Rows <- ThreeRows
  Tables <- SomeTables
  Requests <- AllRequests
  Arguments <- MCArguments
  Depth <- MCDepth
  DefaultPageSize = 2
  MaxWrites = 1
  MayFail = TRUE
INVARIANTS PagesComplete CountFits
PROPERTIES PageMeansWhere
CHECK_DEADLOCK FALSE
