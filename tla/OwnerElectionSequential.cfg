CONSTANTS
  p1 = p1
  p2 = p2
  p3 = p3
  Pid = {p1, p2, p3}
  Absent = Absent
  Blank = Blank
  Overlap = FALSE
SPECIFICATION Safety
INVARIANTS
  SingleOwner
PROPERTY
  ImplementsLease
