CONSTANTS
  Workers = {w1, w2}
  Orders = {"o"}
  Deliveries = {"d1", "d2", "d3"}
  Drivers = {"ana", "bob"}
  UserOf <- MCUserOf
  Requests <- MCRequests
  MaxRequests = 3
  DriverRequired = TRUE
  Workload = "busy"
SPECIFICATION Spec
PROPERTY DispatchFromAcceptedOrAssigned
CHECK_DEADLOCK FALSE
