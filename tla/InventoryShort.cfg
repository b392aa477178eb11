CONSTANTS
  Requests = {r1}
  Workload = "orders"
  ProductOf <- Product
  Vehicles = {"truck", "van"}
  RowIds <- MCRowIds
  RowCell <- MCRowCell
  InitialRows <- MCInitialRows
  InitialQty <- MCInitialQty
  Bodies <- MCBodies
  Catalogue = {"p", "v"}
SPECIFICATION Spec
INVARIANT ShortOrdersAreRefused
CHECK_DEADLOCK FALSE
