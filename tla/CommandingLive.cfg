SPECIFICATION FairSpec
CONSTANTS
  Clients = {}
  Listeners = {l1}
  MaxFocusTries = 2
  Packets <- MCPackets
INVARIANT LoneCommanderRespectsFocus
PROPERTIES CommandsComplete ShutdownStopsCamera AutoFocusEnds
