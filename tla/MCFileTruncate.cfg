SPECIFICATION Spec
PROPERTIES
  TruncatedOnOpen
CHECK_DEADLOCK FALSE
