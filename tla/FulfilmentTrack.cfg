CONSTANTS
  Workers = {w1}
  Orders = {"o"}
  Deliveries = {"d1", "d2", "d3"}
  Drivers = {"ana", "bob"}
  UserOf <- MCUserOf
  Requests <- MCRequests
  MaxRequests = 3
  DriverRequired = TRUE
  Workload = "all"
SPECIFICATION Spec
PROPERTY AssignedDriverMayTrack
CHECK_DEADLOCK FALSE
