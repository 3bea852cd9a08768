SPECIFICATION FairSpec
CONSTANTS
  w1 = w1  w2 = w2  Writers = {w1, w2}  Nobody = Nobody
  Version = 4  OtherVersions = {3, 5}  LastType = 19
  Messages <- MCMessages  OtherMessages <- MCOtherMessages  MaxMessages = 3
INVARIANT TypeOK
INVARIANT InStep
PROPERTY IsChannel
PROPERTY AllArrive
CHECK_DEADLOCK FALSE
