CONSTANTS
  None = None
  TicksPerUnit = 1
  RecordTypes = {item}
  MinHistory = 1
  PriorWindow = 1
  Names = {n1}
  Outputs = {o1}
  DefaultOutput = o1
  Cadences <- MCCadences
  Modules = {m1}
  EmitCounts <- MCEmitOneTwo
  Callers = {c1, c2}
  Scheduler = None
  Deployers = {d1, d2}
  Clients = {k1}
  MaxTime = 2
  MaxVersion = 2
  MaxUlid = 4
SPECIFICATION MCSpec
INVARIANTS TypeOK PointerResolves RenameTargetFree HistoryAttributable HealthIsOfLatestRun
PROPERTIES DeploymentsAreALog NoResurrection
SYMMETRY MCSymmetry
