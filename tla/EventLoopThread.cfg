\* One thread and its owner, two tasks that either may submit.
SPECIFICATION FairThreadSpec
CONSTANTS
  Task = {t1, t2}
  Client = {main}
  IOChannel = {sock}
  WakeupChannel = wakeup
  Main = main
  EarlyDestruction = FALSE
INVARIANTS
  ThreadTypeOK
  PublishedLoopAlive
  JoinedBeforeFreed
  ThreadInv
PROPERTIES
  StartLoopReturns
  DestructorReturns
