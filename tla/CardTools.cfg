CONSTANTS
  a = a
  b = b
  ab = ab
  slash = slash
  tail = tail
  f = f
  Key = {a, b, ab}
  Name <- Names
  Text <- Texts
  KeyOf <- KeysRead
  Code = {f}
  Extends <- Prefixes
  Request <- RequestsChecked
  Initially <- Starts
  c1 = c1
  c2 = c2
  Call = {c1, c2}
  None = None
  MaxCalls = 3
  MaxCrashes = 1
SPECIFICATION Spec
INVARIANTS
  ReferencesHold
  RenameLeavesNoTrace
PROPERTIES
  KeysAreSafe
  ReturnsInStep
CHECK_DEADLOCK FALSE
