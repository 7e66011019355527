SPECIFICATION LiveSpec
CONSTANTS
  Device = {d1, d2}
  Note = {n1}
  Body = {b1}
  Origin = origin
  Asset = {}
  Refused = {}
  Oversized = {}
  NoArchive = none
  BatchLimit = 2
  MaxMade = 2
  MaxFaults = 1
  MaxEvents = 3
CHECK_DEADLOCK FALSE
PROPERTY EventuallyConverged
