SPECIFICATION ScheduleSpec
CONSTANTS
  Sources = {s1}
  Runs = {r1, r2}
  Options = {fast}
  Clients = {}
  Runners = {p1, p2}
  Workers = {w1}
  Runtime = "docker"
  Marks <- NoMark
  MaxCrashes = 1
  None = None
  Cadences = {1}
  MaxTime = 1
  MaxEdits = 1
CHECK_DEADLOCK FALSE
SYMMETRY Symmetry
INVARIANTS
  RunnersInv
PROPERTIES
  OwnLockOnly
