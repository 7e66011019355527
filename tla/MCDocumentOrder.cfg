SPECIFICATION Spec
CONSTANTS
  Device = {d1, d2}
  Note = {n1, n2}
  Body = {b1, b2}
  Origin = origin
  MaxWrites = 2
SYMMETRY Symmetry
CHECK_DEADLOCK FALSE
INVARIANTS
  QueueFollowsLog
  PendingWins
  DocIsHead
  Converged
PROPERTY NothingUnlearned
