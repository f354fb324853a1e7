CONSTANTS
  CD <- MCCD
  Face = {0, 1}
  Prefixes <- MCPrefixes
  Length <- MCLength
  MD5ID <- MCMD5ID
  HashCode <- MCHashCode
  Word = 65536
  CBFLENGTH = 15
SPECIFICATION Spec
INVARIANTS
  TypeOK
  BitmapExact
  ListsMinimal
  NoFalseNegative
  RequestsReachUpstream
  UpstreamAskedOnce
PROPERTIES
  ImplementsService
