CONSTANTS
  Clients = {c1, c2}
  Companies = {old, new}
  NewCompany = new
  Modules = {"order_management", "ecommerce"}
  None = none
  MaxRequests = 3
SPECIFICATION Spec
INVARIANTS
  TypeOK
  RequestsKeepToTheirCompany
  HandlersAreEntitled
  NewCompaniesGetTheirUser
SYMMETRY Symmetry
CHECK_DEADLOCK FALSE
