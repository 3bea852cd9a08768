SPECIFICATION Spec
CONSTANTS
  c1 = c1  c2 = c2  c3 = c3  ip1 = ip1  ip2 = ip2
  n1 = n1  n2 = n2  bad = bad  r1 = r1  r2 = r2  r3 = r3  t1 = t1  t2 = t2
  NoConn = NoConn  NoToken = NoToken  Zero = Zero
  Conns = {c1, c2}  Reuse = FALSE  Repeaters = {}
  IPs = {ip1}  ipOf <- MCOneIP  MaxTunnelsPerIP = 2  MaxArrays = 6
  Names = {n1}  ValidNames = {n1}  RandomIds = {r1, r2}
  TunnelIds = {n1, r1, r2}
  Tokens = {t1}  ApiKeysConfig <- MCManySlots  AuthEnabled = TRUE
  Requests <- MCGoodRequest  Faults = {"asyncClose"}
INVARIANT DrainPreventsPanics
