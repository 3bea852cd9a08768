SPECIFICATION FairSpec
CONSTANTS
  r1 = r1  r2 = r2  r3 = r3  i1 = i1  i2 = i2
  Reqs = {r1, r2}  Ids = {i1, i2}  NoId = NoId  NoReq = NoReq
  Results = {"response", "badHead", "cutBody"}
  Events = {"userLeaves", "chunkTimeout"}
PROPERTY EveryRequestAnswered
PROPERTY RespondersEnd
CHECK_DEADLOCK FALSE
