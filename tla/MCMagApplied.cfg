SPECIFICATION Spec
CONSTANTS
  Orientation <- MCOrientation
  BiasRegister <- MCBiasRegister
  MagRegister <- MCMagRegister
  Modes = {"OPERATING", "CONFIG"}
  MaxRequests = 1
  MaxFaults = 0
INVARIANT AppliedMeansSaved
