SPECIFICATION FairSpec
CONSTANTS
  Receivers = {shell, app}
  Types = {key, mouse}
  TypeOf <- OneType
  None = None
  MaxEvents = 3
  MaxPublishers = 2

  
PROPERTIES
  UnsubscribeReturns
  
CHECK_DEADLOCK FALSE
