SPECIFICATION ServedSpec
CONSTANTS
  Sources = {s1, s2}
  Runs = {r1, r2}
  Options = {fast, full}
  Clients = {c1}
  Runners = {p1}
  Workers = {}
  Runtime = "docker"
  Marks <- NoMark
  MaxCrashes = 1
  None = None
  Cadences = {1}
  MaxTime = 1
  MaxEdits = 0
CHECK_DEADLOCK FALSE
PROPERTIES
  DueIsServed
