CONSTANTS
  Requests = {r1, r2}
  Workload = "orders"
  ProductOf <- Product
  Vehicles = {"truck", "van"}
  RowIds <- MCRowIds
  RowCell <- MCRowCell
  InitialRows <- MCInitialRows
  InitialQty <- MCInitialQty
  Bodies <- MCBodies
  Catalogue = {"p", "v"}
SPECIFICATION Spec
INVARIANT NothingIsSoldTwice
CHECK_DEADLOCK FALSE
