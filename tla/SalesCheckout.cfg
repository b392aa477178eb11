CONSTANTS
  Clients = {c1, c2}
  PoolSize = 2
  Carts = {full, empty, broken}
  EmptyCarts = {empty}
  BrokenCarts = {broken}
  Deliveries = {d1}
  Emails = {e1}
  None = none
  MaxRequests = 3
  MaxFailures = 1
  MaxRestarts = 1
SPECIFICATION Spec
PROPERTIES
  CheckoutsPlaceOrders
CHECK_DEADLOCK FALSE
