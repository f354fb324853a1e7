SPECIFICATION FairSpec
CONSTANTS
  Node = {"s", "p", "a", "b"}
  RoleOf <- MCRoleOf
  NodeSet <- FourNodes
  Adjacent <- FourAdjacent
  Doubles = {"SubListRequest", "SubListDownload"}
  Loses = {"SubListUpload", "SubListDownload"}
  MaxFaults = 1
  Garbage = Garbage
  a = 109
  b = 57
  Word = 256
  NameID <- MCNameID
  RotID <- MCRotID
  ExOr <- MCExOr
  First <- MCFirst
  Name <- MCName
  MaxLink = 1
INVARIANTS
  TablesOwn
  EachHopNearer
  RendezvousAgree
PROPERTIES
  AllRun
  NamesArrive
