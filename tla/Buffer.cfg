\* Two byte values, one byte in front, room for two, and up to four unread.
SPECIFICATION Spec
CONSTANTS
  Byte = {0, 1}
  Zero = 0
  kCheapPrepend = 1
  InitialSize = 2
  ExtraSize = 2
  MaxReadable = 4
INVARIANT TypeOK
PROPERTIES
  ImplementsByteQueue
  GrowsOnlyWhenFull
