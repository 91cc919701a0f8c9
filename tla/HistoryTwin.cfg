SPECIFICATION Spec
CONSTANTS
  Sources = {s1, s2}
  Payloads <- MCAll
  Preferences <- MCPreferences
  InitialPreferences <- MCInitial
  None = None
  MaxRuns <- MCTwo
  MaxDisturbances = 0
  s1 = s1
  s2 = s2
  c1 = c1
  c2 = c2
  f1 = f1
  a1 = a1
  a2 = a2
CHECK_DEADLOCK FALSE
INVARIANTS
  DistinctListingsAreSaved
