CONSTANTS
  Clients = {c1, c2}
  Users <- AllUsers
  Roles <- MCRoles
  System = {"admin"}
  Asks <- AllAsks
  Starts <- AllStarts
  MaxRequests = 6
SYMMETRY Symmetry
SPECIFICATION MCSpec
INVARIANTS
  ResolvedIsClosed
  RevocationsNeedAReason
  OneBootstrappedAdmin
  AnsweredChangesHold
  MenusOpenDoors
CHECK_DEADLOCK FALSE
