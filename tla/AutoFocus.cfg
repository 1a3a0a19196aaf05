\* The auto-focus run of one camera under lens faults and commands.
CONSTANTS
  MinFocus = 0
  MaxFocus = 4
  Margin = 1
  DefaultFocus = 2
  MaxTries = 2
  MaxCommands = 2
  Commanders = {c1}
  FirstFocus <- MCFirst
  Starts <- MCStarts
  Ends <- MCEnds
  Steps <- MCSteps
  Targets <- MCTargets
  Scores <- MCScores
SPECIFICATION Spec
INVARIANTS TypeOK FinishesAtBest BinningRestored ImagesInRange
PROPERTIES ImplementsFocusSearch
CHECK_DEADLOCK FALSE
