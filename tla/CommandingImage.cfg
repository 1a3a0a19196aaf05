\* Comments say that lens commands wait for the image being taken.
CONSTANTS
  Clients = {}
  Listeners = {l1}
  MaxFocusTries = 1
  Packets <- MCPackets
SPECIFICATION Spec
INVARIANT NoAdjustmentDuringImage
CHECK_DEADLOCK FALSE
