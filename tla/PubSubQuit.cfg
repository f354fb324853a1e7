CONSTANTS
  Sub = {"sub1", "sub2"}
  ERot = {"erot1", "erot2"}
  Rot = {}
  RRot = {"RRot-1"}
  Home <- MCHome
  PubHome = "erot1"
  CD <- MCCD
  Prefixes <- MCPrefixes
  Rendezvous <- MCRendezvous
  MaxLink = 1
  MaxDup = 0
  MaxLose = 0
SPECIFICATION Spec
INVARIANT QuitTakesEffect
