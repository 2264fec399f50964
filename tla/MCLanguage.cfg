CONSTANTS
  None = None
  MaxItems = 2
  MaxCalls = 2
  MaxOpen = 9
  MaxForms = 1
  NoFile = NoFile
  Paths = {a, b}
  Sources <- MCSources
  HubTypes = {}
  Handlers = {h1, h2}
  MaxEvents = 3
SPECIFICATION MCSpec
INVARIANTS RefsResolve RecordsConform RunsAreClosed LexerAgrees NoGuess ShownIsCurrent
SYMMETRY HandlerSymmetry
CHECK_DEADLOCK FALSE
