CONSTANTS
  Requests = {r1, r2}
  Workload = "all"
  ProductOf <- Product
  Vehicles = {"truck", "van"}
  RowIds <- MCRowIds
  RowCell <- MCRowCell
  InitialRows <- MCInitialRows
  InitialQty <- MCInitialQty
  Bodies <- MCBodies
  Catalogue = {"p", "v"}
SPECIFICATION FairSpec
INVARIANT TypeOK
INVARIANT StockNonNegative
INVARIANT LedgerExplainsStock
INVARIANT OneRowPerVehicleVariant
INVARIANT SerialRequestsDoNotDrift
PROPERTY RequestsFinish
CHECK_DEADLOCK FALSE
