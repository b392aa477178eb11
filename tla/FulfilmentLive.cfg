CONSTANTS
  Workers = {w1, w2}
  Orders = {"o"}
  Deliveries = {"d1", "d2", "d3"}
  Drivers = {"ana", "bob"}
  UserOf <- MCUserOf
  Requests <- MCRequests
  MaxRequests = 4
  DriverRequired = TRUE
  Workload = "busy"
SPECIFICATION FairSpec
PROPERTY RequestsFinish
CHECK_DEADLOCK FALSE
