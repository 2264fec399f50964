CONSTANTS
  None = None
  y = y
  f1 = f1
  c1 = c1
  r1 = r1
  r2 = r2
  Roots = {x, y}
  Commands = {c1, c2}
  Runs = {r1, r2}
  Files = {f1, f2}
  MaxSaves = 1
  MaxDaemons = 2
  MaxClicks = 2
SPECIFICATION MCSpec
INVARIANTS PairMatches NoDaemonLeaks SlotsOfLiveRuns
PROPERTIES CancelIsNotLost
CHECK_DEADLOCK FALSE
