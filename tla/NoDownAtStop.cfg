\* Violation: the loop quits before it runs the connectDestroyed it was sent.
SPECIFICATION Spec
CONSTANTS
  Conn = {c1}
  MaxThreads = 1
  MaxFds = 1
  MaxHeld = 1
  KeepsPointer = TRUE
  MaxCalls = 1
INVARIANT AllTakenDown
CHECK_DEADLOCK FALSE
