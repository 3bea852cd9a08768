SPECIFICATION Spec
CONSTANTS
  ServerTimeout = 10  ClientTimeout = 4  ReadDeadline = 6
  MinDelay = 1  MaxDelay = 1  DataDelay = 2  MaxFlight = 2
INVARIANT TypeOK
INVARIANT LivePeerKept
INVARIANT DeadPeerNoticed
