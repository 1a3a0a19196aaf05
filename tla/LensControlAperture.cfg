\* A comment says that the aperture moves again only on another command.
CONSTANTS
  MinFocus <- MCMinFocus
  MaxFocus = 2
  DefaultOffset <- MCDefaultOffset
  Positions <- MCPositions
  StepCounts <- MCStepCounts
  Exposures <- MCExposures
  MinExposure = 5
  MaxExposure = 100
  ClientCommands <- MCClientCommands
  HasListeners = FALSE
SPECIFICATION Spec
INVARIANT ApertureMovesOncePerCommand
