SPECIFICATION Spec
CONSTANTS
  Launches <- MCLaunches
  MaxFaults = 1
INVARIANT TypeOK PublishesAsAsked FaultFreeApplies TopicsAreFed
CHECK_DEADLOCK FALSE
