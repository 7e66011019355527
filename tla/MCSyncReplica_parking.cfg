SPECIFICATION Spec
CONSTANTS
  Device = {d1, d2}
  Note = {n1}
  Body = {b1, b2, b3}
  Origin = origin
  Asset = {a1}
  Refused = {b2}
  Oversized = {b3}
  NoArchive = none
  BatchLimit = 1
  MaxMade = 3
  MaxFaults = 1
  MaxEvents = 3
SYMMETRY Symmetry
CHECK_DEADLOCK FALSE
INVARIANTS
  OutboxAligned
  NothingLost
  QueueShowsDoc
  
