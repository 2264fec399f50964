CONSTANTS
  None = None
  a = a
  b = b
  c = c
  d = d
  t = t
  Names = {a, b, c, d}
  Types = {t}
  HubRef = HubRef
  Recipes <- MCNested
  Opened <- MCOpened
  Notebooks <- MCNotebooks
  MaxSaves = 2
  MaxRuns = 1
  MaxDepth = 4
  MaxRecords = 2
SPECIFICATION Spec
INVARIANT StreamReachesNextStage
CHECK_DEADLOCK FALSE
