SPECIFICATION Spec
CONSTANTS
  idle = idle
  a = a
  b = b
  c = c
  Boot = boot
  Idle = idle
  Threads <- MCTwoThreads
  PriorityCount = 2
  IndexModulus = 3
  InitialPriority <- MCTwoPriorities
  Client <- AllCalls
  Disciplined = FALSE
  MaxQueued = 2
INVARIANTS
  LockDiscipline
