\* Violation: the application drops its pointer after shutdown() returned.
SPECIFICATION Spec
CONSTANTS
  Conn = {c1}
  MaxThreads = 1
  MaxFds = 1
  MaxHeld = 1
  KeepsPointer = FALSE
  MaxCalls = 1
INVARIANT FunctorFindsConnection
CHECK_DEADLOCK FALSE
