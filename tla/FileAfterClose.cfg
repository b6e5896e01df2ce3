\* Violation: the connection is closed with bytes in its output buffer while a
\* file waits to be sent.
SPECIFICATION TakingSpec
CONSTANTS
  User = {u1}
  m1 = m1
  m2 = m2
  f1 = f1
  Msg = {m1}
  File = {f1}
  Size <- MCSize
  HighWaterMark = 3
  MaxUnread = 0
  MaxSubmitted = 2
PROPERTY FileStopsWhenDown
CHECK_DEADLOCK FALSE
