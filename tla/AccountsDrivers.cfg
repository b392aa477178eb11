CONSTANTS
  Clients = {c1, c2}
  Companies = {"acme", "beta"}
  Emails = {"ana", "bob", "eve"}
  RoleNames = {"admin", "seller"}
  Cpfs = {"111", "222"}
  Asks <- MCAsks
  Starts <- MCStarts
  MaxRequests = 3
  MaxCuts = 1
SYMMETRY Symmetry
SPECIFICATION Spec
INVARIANTS
  OnlyOwnDriversAreRefused
CHECK_DEADLOCK FALSE
