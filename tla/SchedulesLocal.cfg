SPECIFICATION ScheduleSpec
CONSTANTS
  Sources = {s1}
  Runs = {r1, r2}
  Options = {fast, full}
  Clients = {c1}
  Runners = {p1}
  Workers = {w1}
  Runtime = "local"
  Marks <- NoMark
  MaxCrashes = 1
  None = None
  Cadences = {1}
  MaxTime = 1
  MaxEdits = 0
CHECK_DEADLOCK FALSE
SYMMETRY Symmetry
INVARIANTS
  ScheduleInv
  LockIsInUse
  OncePerOccurrence
  MissedIsNotRunning
