CONSTANTS
  RoleID = {"sub1", "erot1", "rrot1", "rot1", "rot2"}
  Lines <- MCLines
SPECIFICATION FairSpec
INVARIANTS
  PredecessorsExact
  TableExact
PROPERTY TableGetsDone
CHECK_DEADLOCK FALSE
