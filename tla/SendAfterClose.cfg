\* Violation: a message queued by another thread before the peer closed.
SPECIFICATION Spec
CONSTANTS
  User = {u1}
  m1 = m1
  m2 = m2
  f1 = f1
  Msg = {m1}
  File = {}
  Size <- MCSize
  HighWaterMark = 3
  MaxUnread = 0
  MaxSubmitted = 1
PROPERTY NothingSentAfterDisconnect
CHECK_DEADLOCK FALSE
