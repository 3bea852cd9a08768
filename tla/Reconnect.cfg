SPECIFICATION FairSpec
CONSTANTS
  x = x  g1 = g1  g2 = g2  k1 = k1  k2 = k2  k3 = k3
  Conns = {k1, k2, k3}  Names = {x, g1, g2}  CustomNames = {x}
  NoName = NoName  Nobody = Nobody  Rival = Rival
  MaxTunnelsPerIP = 2  MaxFaults = 2  MaxRequests = 1  MaxRivals = 1
  Faults = {"replyWrite"}
INVARIANT TypeOK
INVARIANT OpenIsRouted
PROPERTY KeepsItsName
PROPERTY TunnelComesBack
PROPERTY EndedClientsLeave
CHECK_DEADLOCK FALSE
