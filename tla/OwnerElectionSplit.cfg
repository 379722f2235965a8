CONSTANTS
  p1 = p1
  p2 = p2
  Pid = {p1, p2}
  Absent = Absent
  Blank = Blank
  Overlap = TRUE
SPECIFICATION Safety
INVARIANT
  SingleOwner
