SPECIFICATION Spec
CONSTANTS
  Sources = {s1, s2}
  Payloads <- MCPayloads
  Preferences <- MCPreferences
  InitialPreferences <- MCInitial
  None = None
  MaxRuns <- MCMaxRuns
  MaxDisturbances = 1
  s1 = s1
  s2 = s2
  c1 = c1
  c2 = c2
  f1 = f1
  a1 = a1
  a2 = a2
CHECK_DEADLOCK FALSE
INVARIANTS
  HistoryInv
  ReplayMatchesStates
  NothingVanishes
  HistoryAddsUp
  NotificationOpens
  ComparedWithLastComplete
  ArticleKeepsGroup
PROPERTIES
  WatchSpec
  HistoryIsKept
