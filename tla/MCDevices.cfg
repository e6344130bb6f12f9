SPECIFICATION DevicesSpec
CONSTANTS
  None = None
  Drivers = {"keyboard", "mouse", "rtc", "lan"}
  Line <- MCLine
  Guarded = {"rtc"}
  Removable = {"mouse"}
  Threads = {"t1"}
  Second = 4
  YieldInterval = 2
  Modulus = 18
  Delays = {1, 6}
  MaxTime = 22
  Dates <- MCDates
  Formats <- MCFormats
  Capacity = 2
INVARIANTS
  PluggedInIsReached
  
  
  TimeIsKept
  SuccessIsTransfer
  
  
  ReadsWhatIsStored
  DebuggerIsServed
CHECK_DEADLOCK FALSE
