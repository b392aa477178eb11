CONSTANTS
  Workers = {w1, w2}
  Orders = {"o"}
  Deliveries = {"d1", "d2", "d3"}
  Drivers = {"ana", "bob"}
  UserOf <- MCUserOf
  Requests <- MCRequests
  MaxRequests = 4
  DriverRequired = FALSE
  Workload = "all"
SPECIFICATION Spec
INVARIANT TypeOK
INVARIANT OneDeliveryPerOrder
INVARIANT CreditsAreEarned
INVARIANT SerialSavesDoNotRevert
INVARIANT SerialOrdersInRouteHaveADelivery
CHECK_DEADLOCK FALSE
