SPECIFICATION Spec
CONSTANTS
  ServerTimeout = 5  ClientTimeout = 2  ReadDeadline = 3
  MinDelay = 0  MaxDelay = 1  DataDelay = 1  MaxFlight = 1
INVARIANT LivePeerKept
