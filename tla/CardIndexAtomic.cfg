CONSTANTS
  a = a
  b = b
  m = m
  Card = {a, b}
  Code = {m}
  Declarations = {}
  Naming = {{}, {a, b}}
  Absent = Absent
  Broken = Broken
  Together = {{a, b, m}}
  MaxEdits = 2
  MaxFaults = 1
SPECIFICATION Spec
INVARIANT
  FileUpdateIsAtomic
CHECK_DEADLOCK FALSE
