CONSTANTS
  None = None
  a = a
  b = b
  c = c
  d = d
  t = t
  Names = {a, b, c, d}
  Types = {t}
  HubRef = HubRef
  Recipes <- MCRecipes
  Opened <- MCOpened
  Notebooks <- MCNotebooks
  MaxSaves = 2
  MaxRuns = 1
  MaxDepth = 4
  MaxRecords = 2
SPECIFICATION MCSpec
INVARIANTS StagesResolve StreamReachesNextStage
PROPERTIES RunsEnd
CHECK_DEADLOCK FALSE
