SPECIFICATION Spec
CONSTANTS
  Sources = {s1}
  Runs = {r1}
  Options = {fast}
  Clients = {c1, c2}
  Runners = {}
  Workers = {w1}
  Runtime = "docker"
  Marks <- OneMark
  MaxCrashes = 0
  None = None
CHECK_DEADLOCK FALSE
PROPERTIES
  OnlyQueuedCancelled
