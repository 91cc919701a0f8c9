SPECIFICATION Spec
CONSTANTS
  Sources = {s1}
  Runs = {r1, r2}
  Options = {fast}
  Clients = {c1, c2}
  Runners = {}
  Workers = {w1, w2}
  Runtime = "docker"
  Marks <- OneMark
  MaxCrashes = 1
  None = None
CHECK_DEADLOCK FALSE
SYMMETRY Symmetry
INVARIANTS
  OneActivePerSource
  CrawledByOne
  SavedAtMostOnce
  LockedRunIsRunning
  QueuedIsCarried
PROPERTIES
  EndedByRequestOnly
  ImplementsLedger
