\* One worker thread, two clients, one thing that goes wrong.
CONSTANTS
  MaxFaults = 1
  Workers = {worker1}
  Clients = {c1, c2}
  Nobody = nobody
SPECIFICATION Spec
INVARIANTS TypeOK ReadyMeansConfigured HeadersAreTrue CloseAfterThreads QueueEndsBeforeCamera ClosedOnce CameraClosedAtExit
PROPERTIES ShutdownEnds
CHECK_DEADLOCK FALSE
