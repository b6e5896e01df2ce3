SPECIFICATION TimeoutThreadSpec
CONSTANTS
  Task = {t1}
  Client = {main}
  IOChannel = {sock}
  WakeupChannel = wakeup
  Main = main
  EarlyDestruction = TRUE
PROPERTY DestructorReturns
