SPECIFICATION FairSpec
CONSTANTS
  Sources = {s1}
  Runs = {r1, r2}
  Options = {fast}
  Clients = {c1, c2}
  Runners = {}
  Workers = {w1}
  Runtime = "docker"
  Marks <- NoMark
  MaxCrashes = 0
  None = None
CHECK_DEADLOCK FALSE
PROPERTIES
  EveryRunSettles
