SPECIFICATION ThreadSpec
CONSTANTS
  Task = {t1}
  Client = {main}
  IOChannel = {sock}
  WakeupChannel = wakeup
  Main = main
  EarlyDestruction = FALSE
INVARIANT QuitTouchesLiveLoop
