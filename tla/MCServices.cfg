SPECIFICATION Spec
CONSTANTS
  Orientation <- MCOrientation
  BiasRegister <- MCBiasRegister
  MagRegister <- MCMagRegister
  Modes = {"OPERATING", "CONFIG"}
  MaxRequests = 3
  MaxFaults = 1
INVARIANT TypeOK CalibrationsDoNotOverlap SavedInConfig
PROPERTY QuietMessageExact CalibrationAvailableAgain CallbacksEnd
