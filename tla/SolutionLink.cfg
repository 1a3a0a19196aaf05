\* Two flight computers over two cycles of the Astrometry thread.
CONSTANTS
  Computers = {fc1, fc2}
  MaxCycles = 2
SPECIFICATION FairSpec
INVARIANTS TypeOK FieldsNotNewerThanTime NoMorePacketsThanSolutions
PROPERTY SolutionsArrive
CHECK_DEADLOCK FALSE
