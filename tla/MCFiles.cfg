SPECIFICATION Spec
INVARIANTS
  
  
  ReadsWhatWasWritten
  MountsWhatItMade
  
PROPERTIES
  ImplementsTree
  CwdKept
CHECK_DEADLOCK FALSE
