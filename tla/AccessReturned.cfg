CONSTANTS
  Clients = {c1, c2}
  Users <- AllUsers
  Roles <- MCRoles
  System = {"admin"}
  Asks <- FirstAsks
  Starts <- AllStarts
  MaxRequests = 4
SYMMETRY Symmetry
SPECIFICATION MCSpec
INVARIANTS
  NoSecondAdmin
CHECK_DEADLOCK FALSE
