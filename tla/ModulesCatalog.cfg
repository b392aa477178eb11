CONSTANTS
  Workers = {"w1"}
  Modules = {"fleet_management", "inventory", "ecommerce", "erp"}
  CanonicalOf <- MCCanonicalOf
  Essential = {"erp"}
  Suggested = {"fleet_management", "inventory", "ecommerce"}
  Limit = 1
  InitialTables <- MCInitialTables
  MaxRows = 5
  Requests <- MCRequests
  MaxRequests = 4
  MayFail = FALSE
  Workload = "all"
  Start = "all"

SPECIFICATION Spec
PROPERTY ImplementsCatalog
CHECK_DEADLOCK FALSE
