CONSTANTS
  Sender = {"n1"}
  Msg = {"a", "b"}
  From <- MCFrom
  Slices <- MCSlices
  SET_SIZE = 1
  tryNum = 2
  MaxSend = 3
SPECIFICATION FairSpec
INVARIANTS
  AckedIsDelivered
  BuffersAccounted
PROPERTIES
  ImplementsChannel
  SenderGetsIdle
CHECK_DEADLOCK FALSE
