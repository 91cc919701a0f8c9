SPECIFICATION Spec
CONSTANTS
  Sources = {s1, s2}
  Runs = {r1, r2}
  Options = {fast}
  Clients = {c1, c2}
  Runners = {}
  Workers = {w1}
  Runtime = "local"
  Marks <- PipelineMarks
  MaxCrashes = 1
  None = None
CHECK_DEADLOCK FALSE
SYMMETRY Symmetry
INVARIANTS
  IndInv
  SavedIsOver
  RunningIsCrawled
PROPERTIES
  ProgressNeverRegresses
  ImplementsLedger
