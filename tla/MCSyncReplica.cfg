SPECIFICATION Spec
CONSTANTS
  Device = {d1, d2}
  Note = {n1}
  Body = {b1, b2}
  Origin = origin
  Asset = {}
  Refused = {}
  Oversized = {}
  NoArchive = none
  BatchLimit = 2
  MaxMade = 3
  MaxFaults = 1
  MaxEvents = 3
SYMMETRY Symmetry
CHECK_DEADLOCK FALSE
INVARIANTS
  QueueLogCursorAgree
  CheckpointIsLog
PROPERTY ImplementsOrder
