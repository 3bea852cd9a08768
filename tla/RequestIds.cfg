SPECIFICATION Spec
CONSTANTS
  r1 = r1  r2 = r2  r3 = r3  i1 = i1  i2 = i2
  Reqs = {r1, r2}  Ids = {i1, i2}  NoId = NoId  NoReq = NoReq
  Results = {"response"}
  Events = {"idCollision"}
INVARIANT WaitingIdsUnique
CHECK_DEADLOCK FALSE
