CONSTANTS
  a = a
  b = b
  m = m
  d = d
  Card = {a, b}
  Code = {m, d}
  Declarations = {d}
  Naming = {{}, {a, b}}
  Absent = Absent
  Broken = Broken
  Together = {{a, b, m}, {a, m, d}}
  MaxEdits = 2
  MaxFaults = 1
SPECIFICATION Spec
INVARIANTS
  RelationsPaired
  FreshIsIndexed
  RowsFollowFiles
  EdgesFollowRows
PROPERTY
  QueueDrains
CHECK_DEADLOCK FALSE
