\* Two clients, a pool of no, one or two threads, one descriptor or enough; the
\* application keeps its pointers long enough.  The model stops when the server
\* is gone.
SPECIFICATION FairSpec
CONSTANTS
  Conn = {c1, c2}
  MaxThreads = 2
  MaxFds = 2
  MaxHeld = 1
  KeepsPointer = TRUE
  MaxCalls = 1
INVARIANTS
  TypeOK
  RegisteredAlive
  IInv
PROPERTIES
  ImplementsLifecycle
  Released
  BacklogServed
  ServerStops
CHECK_DEADLOCK FALSE
