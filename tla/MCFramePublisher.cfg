SPECIFICATION MonitoredSpec
CONSTANTS
  Kind = {"raw", "quaternion", "euler"}
  NativeTopic = {"raw", "euler"}
  StandardRos = TRUE
  COUNTERS = 3
  MaxSample = 5
INVARIANT TypeOK MissedAddsUp
PROPERTY NewerSample NeverSkipsTwice ImuPairs
CHECK_DEADLOCK FALSE
