SPECIFICATION FairSpec
CONSTANTS
  idle = idle
  a = a
  b = b
  c = c
  Boot = boot
  Idle = idle
  Threads <- MCThreads
  PriorityCount = 3
  IndexModulus = 6
  InitialPriority <- MCInitialPriority
  Client <- RepositoryCalls
  Disciplined = TRUE
  MaxQueued = 4
INVARIANTS
  TypeOK
  ThreadsAreKept
  NoPanic
PROPERTIES
  ImplementsLifecycle
  NoStarvation
  JoinReturns
