SPECIFICATION Spec
CONSTANTS
  Setting = {"gyro_range", "incl_range"}
  Value = {0, 1}
  Request <- MCRequest
  Sent <- MCSent
  Verified <- MCVerified
  SavedBefore <- MCSavedBefore
  Default = 0
  Settles = TRUE
  MaxFaults = 2
  MaxInbox = 5
  MaxRx = 2
INVARIANT TypeOK VerifiedMeansConfigured EvidenceIsCurrent
PROPERTY ConstructorReturns ShutdownCompletes LeavesConfig
CHECK_DEADLOCK FALSE
