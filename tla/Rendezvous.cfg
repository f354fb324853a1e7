CONSTANTS
  CD <- MCCD
  edge1 = edge1
  edge2 = edge2
  other = other
  Face = {edge1, edge2, other}
  Prefixes <- MCPrefixes
  Length <- MCLength
  MD5ID <- MCMD5ID
  HashCode <- MCHashCode
  Word = 65536
  CBFLENGTH = 15
  RRot = {"RRot-1", "RRot-2", "RRot-3"}
  Me = "RRot-1"
  EdgeFace = {edge1, edge2}
  FIB <- MCFIB
SYMMETRY EdgeRouters
SPECIFICATION RSpec
CHECK_DEADLOCK FALSE
INVARIANTS
  RTypeOK
  MemberCountExact
  QuitListsAgree
  QuitPairsMatch
  PublishReachesFaces
