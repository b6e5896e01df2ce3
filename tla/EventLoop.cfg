\* Three tasks and two client threads: a task can be pushed while another is
\* being swapped out and a third runs, with a quit from either client.
SPECIFICATION FairSpec
CONSTANTS
  Task = {t1, t2, t3}
  Client = {c1, c2}
  IOChannel = {sock}
  WakeupChannel = wakeup
INVARIANTS
  TypeOK
  NoLostWakeup
  NoSleepOnQuit
  IInv
PROPERTIES
  ImplementsTaskQueue
  TasksRun
  LateTasksRun
  QuitStops
  BatchOnlyShrinks
