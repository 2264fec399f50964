CONSTANTS
  None = None
  TicksPerUnit = 1
  RecordTypes = {item}
  MinHistory = 1
  PriorWindow = 1
  a = a
  b = b
  Names = {a, b}
  Rank <- MCRank
  Outputs = {o1}
  DefaultOutput = o1
  Cadences <- MCMixed
  Modules = {m1}
  EmitCounts <- MCEmitOne
  Callers = {sched, c1}
  Scheduler = sched
  Deployers = {d1}
  Clients = {}
  MaxTime = 2
  MaxVersion = 1
  MaxUlid = 20
  IdlePoll = 2
  MaxEdits = 3
SPECIFICATION MCSpec
INVARIANTS SleepsNoLongerThanDue NoDoubleFire
PROPERTIES DueRunsMoveOn CorruptCronSurfaces
CHECK_DEADLOCK FALSE
