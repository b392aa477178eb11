CONSTANTS
  Requests = {r1, r2, r3}
  Nobody = nobody
  Stored = {cola}
  drinks = drinks
  sweets = sweets
  Shelved = {drinks, sweets}
  Columns = {"name", "price"}
  Names = {"Bebidas", "BEBIDAS", "Bebidas 1", "Doces"}
  Base <- MCBase
  FirstName <- MCFirstName
  Jobs <- MCJobs
SYMMETRY Symmetry
SPECIFICATION Spec
INVARIANTS
  AnsweredCreatesAreWhole
  AnsweredUpdatesHold
  LinksAreOfOneRequest
  RemovedRowsStayRemoved
  FailuresHaveACause
CHECK_DEADLOCK FALSE
