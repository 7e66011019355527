SPECIFICATION Spec
CONSTANTS
  f = f
  g = g
  Device = {d1, d2}
  Node = {f, g, n}
  Folder = {f, g}
  Fresh = {n}
  Title = {t1, t2}
  Untitled = Untitled
  Time = {1, 2}
  Root = Root
  Absent = Absent
  Home <- Nested
  MaxMade = 3
SYMMETRY Symmetry
CHECK_DEADLOCK FALSE
INVARIANTS
  TreeSound
  DisjointWorkConverges
