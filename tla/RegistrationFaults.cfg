SPECIFICATION RSpec
CONSTANTS
  s = s
  t = t
  u = u
  p = p
  a = a
  b = b
  Node = {s, t, u, a}
  RoleOf <- MCRoleOf
  NodeSet <- ThreeNodes
  Adjacent <- ThreeAdjacent
  Doubles = {"Regist", "IDAssigned", "AdjacentTable", "RouterTable"}
  Loses = {"Regist", "IDAssigned", "AdjacentTable", "RouterTable"}
  MaxFaults = 2
  Garbage = Garbage
SYMMETRY Subscribers
CHECK_DEADLOCK FALSE
INVARIANTS
  IdentifiersUnique
  TablesGoToOwners
