\* Two channels on two descriptors, both reusable, and an event list of one
\* entry, so that one ready descriptor fills it and two overflow it.  The model
\* stops when a dead channel was used.
SPECIFICATION FairSpec
CONSTANTS
  Channel = {ch1, ch2}
  Fd = {fd1, fd2}
  None = none
  InitEventListSize = 1
INVARIANTS
  TypeOK
  KernelInSync
  NoDanglingRegistration
  MapInSync
  NoFatal
PROPERTY
  NoStarvation
CHECK_DEADLOCK FALSE
