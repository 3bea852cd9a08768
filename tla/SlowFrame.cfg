SPECIFICATION Spec
CONSTANTS
  ServerTimeout = 5  ClientTimeout = 2  ReadDeadline = 3
  MinDelay = 1  MaxDelay = 1  DataDelay = 4  MaxFlight = 1
INVARIANT SilentMeansDisconnected
