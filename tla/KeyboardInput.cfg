SPECIFICATION FairSpec
CONSTANTS
  BufSize = 5
  MaxKeys = 4
INVARIANTS LineTerminated EchoedIsDelivered KeysOnceInOrder
PROPERTIES EnterEndsRead
