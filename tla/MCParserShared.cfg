SPECIFICATION Spec
CONSTANTS
  Setting = {"gyro_range"}
  Value = {0, 1}
  Request <- MCRequest
  Sent <- MCSent
  Verified <- MCVerified
  SavedBefore <- MCSavedBefore
  Default = 0
  Settles = TRUE
  MaxFaults = 0
  MaxInbox = 4
  MaxRx = 2
INVARIANT ParserNotShared
CHECK_DEADLOCK FALSE
