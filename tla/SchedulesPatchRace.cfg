SPECIFICATION ScheduleSpec
CONSTANTS
  Sources = {s1}
  Runs = {r1, r2}
  Options = {fast}
  Clients = {}
  Runners = {p1}
  Workers = {w1}
  Runtime = "docker"
  Marks <- NoMark
  MaxCrashes = 0
  None = None
  Cadences = {1, 2}
  MaxTime = 2
  MaxEdits = 1
CHECK_DEADLOCK FALSE
INVARIANTS
  NextFollowsCadence
