CONSTANTS
  None = None
  Current = Current
  list = list
  detail = detail
  x = x
  y = y
  p = p
  Parent = Parent
  Child = Child
  Statements <- MCStatements
  Recipes <- MCRecipes
  Servers <- MCServers
  Samples <- MCSamples
  MaxRequests = 9
  MaxRetries = 2
SPECIFICATION Spec
INVARIANTS SnapshotIsMeaning
PROPERTIES RunEnds StepsAreAtomic
CHECK_DEADLOCK FALSE
