SPECIFICATION StructuresSpec
CONSTANTS
  Absent = Absent
  Spaces = {"kernel", "app1", "app2"}
  Base = "kernel"
  NumFrames = 13
  Tables = {"first"}
  NumPagingPages = 12
  KernelTables = 1
  Words = 26
  Sizes = {0, 1, 3, 4, 8}
  Threads = {"t1"}
  NumRam = 6
  NumReserved = 2
  DmaFrames = {1}
  DeviceFrames = {100}
  NumHeapPages = 4
  NumIoPages = 2
  PageSize = 2
  Nil = Nil
INVARIANTS
  
  FramesAccounted
  SpacesAreSeparate
  ServedWithinTwoRounds
  
  StringsAreMeant
CHECK_DEADLOCK FALSE
