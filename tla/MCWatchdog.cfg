SPECIFICATION Spec
CONSTANTS
  Timeout = 6
  TicksPerMs = 2
  Period = 5
  MaxBusy = 7
  Interval = 13
INVARIANT TypeOK HealthyStaysUp
PROPERTY DetectsSilence
CHECK_DEADLOCK FALSE
