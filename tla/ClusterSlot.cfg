CONSTANTS
  s1 = s1
  Slot = {s1}
  MaxSpawns = 4
  Faults = {"throw", "quit", "garble"}
  NoWorker = NoWorker
  NumOfAttempts = 2
SPECIFICATION Spec
INVARIANTS
  RevivingIsExact
  DeadOccupantIsNoticed
PROPERTIES
  OnlyExhaustionGivesUp
  EmptySlotIsFilled
