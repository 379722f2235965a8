CONSTANTS
  UserStatus = {201}
  MaxItems = 1
SPECIFICATION Spec
INVARIANT
  ExceptionProducesError
CHECK_DEADLOCK FALSE
