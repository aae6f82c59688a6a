SPECIFICATION Spec
CONSTANTS
    NumCells = 12
    MaxIters = 128
    MaxResolution = 2
    NRuns = 4
    PageStamps = 3
    NsPerSec = 3
CHECK_DEADLOCK FALSE
INVARIANTS
  NoUseAfterRecycle
  OsCalibrationLosesNothing
  DistributionsAsCommented
