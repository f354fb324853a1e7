CONSTANTS
  Sub = {"sub1", "sub2"}
  ERot = {"erot1", "erot2"}
  Rot = {}
  RRot = {"RRot-1"}
  Home <- MCHome
  PubHome = "erot1"
  CD <- MCCD
  Prefixes <- MCPrefixes
  Rendezvous <- MCRendezvous
  MaxLink = 1
  MaxDup = 1
  MaxLose = 1
SPECIFICATION Spec
INVARIANTS
  DueReceive
  GroupsAccounted
  GroupsUnrelated
