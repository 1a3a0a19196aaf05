\* Commands of clients and flight computers, one after another, with faults.
CONSTANTS
  MinFocus <- MCMinFocus
  MaxFocus = 2
  DefaultOffset <- MCDefaultOffset
  Positions <- MCPositions
  StepCounts <- MCStepCounts
  Exposures <- MCExposures
  MinExposure = 5
  MaxExposure = 100
  ClientCommands <- MCClientCommands
  HasListeners = TRUE
SPECIFICATION Spec
INVARIANTS TypeOK LensObeys ExposureFollows FailuresReported
