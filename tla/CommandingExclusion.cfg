\* Comments say that command_lock lets one client execute at a time.
CONSTANTS
  Clients = {c1, c2}
  Listeners = {}
  MaxFocusTries = 1
  Packets <- MCPackets
SPECIFICATION Spec
INVARIANT OneCommandAtATime
CHECK_DEADLOCK FALSE
