CONSTANTS
  s1 = s1
  s2 = s2
  Slot = {s1, s2}
  MaxSpawns = 2
  Faults = {"throw"}
  NoWorker = NoWorker
  NumOfAttempts = 1
SPECIFICATION Spec
PROPERTIES
  DestroyStopsOccupants
  StartSettles
