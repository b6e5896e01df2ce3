\* Two messages and a file of up to two units, two of which are sent; one
\* other thread, a high water mark of three units, one unread delivery.
SPECIFICATION FairSpec
CONSTANTS
  User = {u1}
  m1 = m1
  m2 = m2
  f1 = f1
  Msg = {m1, m2}
  File = {f1}
  Size <- MCSize
  HighWaterMark = 3
  MaxUnread = 1
  MaxSubmitted = 2
INVARIANTS
  TypeOK
  WriteInterest
  StreamIntact
  FilesWhole
  FinAfterAccepted
PROPERTIES
  StreamKept
  ShutdownDone
  CloseNoticed
  FilesGivenUp
CHECK_DEADLOCK FALSE
