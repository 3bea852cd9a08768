SPECIFICATION FairSpec
CONSTANTS
  r1 = r1  r2 = r2  r3 = r3  i1 = i1  i2 = i2
  Reqs = {r1}  Ids = {i1, i2}  NoId = NoId  NoReq = NoReq
  Results = {"response"}
  Events = {"clientQuits"}
PROPERTY ClosingCancelsRequests
CHECK_DEADLOCK FALSE
