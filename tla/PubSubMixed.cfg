CONSTANTS
  Sub = {"sub1", "sub2"}
  ERot = {"erot1"}
  Rot = {"rot1"}
  RRot = {"RRot-1", "RRot-2"}
  Home <- MCHomeMixed
  PubHome = "rot1"
  CD <- MCCD
  Prefixes <- MCPrefixes
  Rendezvous <- MCRendezvousSplit
  MaxLink = 1
  MaxDup = 0
  MaxLose = 1
SPECIFICATION FairSpec
INVARIANT DueReceive
PROPERTY EventuallyServed
