CONSTANTS
  None = None
  TicksPerUnit = 1
  RecordTypes = {item}
  MinHistory = 1
  PriorWindow = 1
  Names = {n1}
  Outputs = {o1}
  DefaultOutput = o1
  Cadences <- MCCadences
  Modules = {m1}
  EmitCounts <- MCEmitOne
  Callers = {c1, c2}
  Scheduler = None
  Deployers = {d1, d2}
  Clients = {}
  MaxTime = 1
  MaxVersion = 2
  MaxUlid = 3
SPECIFICATION MCSpec
PROPERTY PointerNeverRegresses
