\* One flight computer and one TCP client, every interleaving.
SPECIFICATION Spec
CONSTANTS
  Clients = {c1}
  Listeners = {l1}
  MaxFocusTries = 1
  Packets <- MCPackets
INVARIANTS TypeOK LockNeverAbandoned FlagDownBetweenImages
PROPERTY OneImagePerTrigger
