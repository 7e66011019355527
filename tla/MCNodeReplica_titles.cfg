SPECIFICATION Spec
CONSTANTS
  f = f
  g = g
  Device = {d1, d2}
  Node = {f}
  Folder = {f}
  Fresh = {}
  Title = {t1, t2}
  Untitled = Untitled
  Time = {1}
  Root = Root
  Absent = Absent
  Home <- Nested
  MaxMade = 2
CHECK_DEADLOCK FALSE
INVARIANT RenamesConverge
