SPECIFICATION RSpec
CONSTANTS
  s = s
  t = t
  u = u
  p = p
  a = a
  b = b
  Node = {s, p, a, b}
  RoleOf <- MCRoleOf
  NodeSet <- FourNodes
  Adjacent <- FourAdjacent
  Doubles = {"Regist"}
  Loses = {}
  MaxFaults = 1
  Garbage = Garbage
INVARIANT TablesToTheirNodes
