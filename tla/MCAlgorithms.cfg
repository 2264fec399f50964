CONSTANTS
  None = None
  TicksPerUnit = 2
  RecordTypes = {"items", "pages"}
  MinHistory = 3
  PriorWindow = 7
  MaxAnchor = 7
  MaxEvery = 3
  MaxNow = 20
  Emits = {0, 63, 90}
  MaxRuns = 8
  Recipes = {r}
  Stores = {p, q}
  Deployments <- MCDeployments
  FieldValues <- MCFieldValues
  Writers = {w1, w2}
  NoCall = NoCall
  MaxStarts = 2
  MaxRecords = 2
SPECIFICATION Spec
INVARIANTS NextTickIsFirstAhead DriftIsAFall RecordsReadBack
SYMMETRY WriterSymmetry
CHECK_DEADLOCK FALSE
