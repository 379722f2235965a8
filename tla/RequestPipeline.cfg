CONSTANTS
  UserStatus = {201, 204, 700}
  MaxItems = 2
SPECIFICATION Spec
INVARIANTS
  ErrorSurfaces
  RefusalIsFinal
PROPERTIES
  SentIsDelivered
  RequestIsAnswered
CHECK_DEADLOCK FALSE
