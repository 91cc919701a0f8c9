SPECIFICATION Spec
CONSTANTS
  Users = {ann, bob}
  Requests = {p, q}
  None = None
  LockAfter = 2
  MaxHashes = 2
  MaxSessions = 2
  MaxUnlocks = 1
SYMMETRY Alike
INVARIANTS
  AccountsInv
  SessionsFollowPassword
  InactiveHasNoSession
  NoFailureForgotten
  OnlyRemovalsDeadlock
PROPERTIES
  BootstrapIsFirst
  RemovalLeavesAnAdmin
