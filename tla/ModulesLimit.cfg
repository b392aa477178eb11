CONSTANTS
  Workers = {"w1", "w2"}
  Modules = {"fleet_management", "inventory", "ecommerce", "erp"}
  CanonicalOf <- MCCanonicalOf
  Essential = {"erp"}
  Suggested = {"fleet_management", "inventory", "ecommerce"}
  Limit = 1
  InitialTables <- MCInitialTables
  MaxRows = 5
  Requests <- MCRequests
  MaxRequests = 3
  MayFail = FALSE
  Workload = "modules"
  Start = "empty"

SPECIFICATION Spec
INVARIANT PlanLimitHolds
CHECK_DEADLOCK FALSE
