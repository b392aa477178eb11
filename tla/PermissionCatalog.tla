-------------------------- MODULE PermissionCatalog --------------------------
(***************************************************************************)
(* The permissions that seed.ts writes, each with its module and the       *)
(* permissions it depends on, and the doors of the API: for each handler   *)
(* of a controller the module its class requires and the permission the    *)
(* handler requires.  Permissions are granted by slug, doors name them by  *)
(* the constants of permissions.ts, and nothing ties the two together.     *)
(***************************************************************************)
EXTENDS FiniteSets

\* The permissions of a module m that depend on the permissions deps.
Needing(m, deps, slugs) == {[slug |-> p, module |-> m, deps |-> deps] : p \in slugs}
Free(m, slugs) == Needing(m, {}, slugs)

CommercePermissions ==
  LET E == "ecommerce" IN
  Free(E, {"can_create_product", "can_read_product",
           "can_create_category", "can_read_category"})
  \cup Needing(E, {"can_read_product"}, {"can_update_product"})
  \cup Needing(E, {"can_read_product", "can_update_product"},
               {"can_delete_product", "can_publish_product"})
  \cup Needing(E, {"can_read_category"}, {"can_update_category", "can_delete_category"})

\* A slip in the list: completing an order needs the right to update it only.
OrderPermissionsUnclosed ==
  Needing("order_management", {"can_update_order"}, {"can_complete_order"})
  \cup Free("order_management", {"can_create_order", "can_read_order"})
  \cup Needing("order_management", {"can_read_order"},
               {"can_update_order", "can_cancel_order", "can_approve_order"})
  \cup Needing("order_management", {"can_read_order", "can_read_driver"},
               {"can_assign_driver"})

OrderPermissions ==
  LET O == "order_management" IN
  Free(O, {"can_create_order", "can_read_order"})
  \cup Needing(O, {"can_read_order"},
               {"can_update_order", "can_cancel_order", "can_approve_order"})
  \cup Needing(O, {"can_read_order", "can_read_driver"}, {"can_assign_driver"})
  \cup Needing(O, {"can_read_order", "can_update_order"}, {"can_complete_order"})

SupplierPermissions ==
  Free("multi_organization", {"can_create_supplier", "can_read_supplier"})
  \cup Needing("multi_organization", {"can_read_supplier"},
               {"can_update_supplier", "can_delete_supplier",
                "can_approve_supplier", "can_block_supplier"})

FleetPermissions ==
  LET F == "fleet_management" IN
  Free(F, {"can_create_vehicle", "can_read_vehicle"})
  \cup Needing(F, {"can_read_vehicle"},
               {"can_update_vehicle", "can_delete_vehicle", "can_approve_vehicle"})
  \cup Needing(F, {"can_read_vehicle", "can_update_vehicle"}, {"can_set_maintenance"})

DriverPermissions ==
  Free("drivers_management", {"can_create_driver", "can_read_driver"})
  \cup Needing("drivers_management", {"can_read_driver"},
               {"can_update_driver", "can_delete_driver",
                "can_approve_driver", "can_block_driver"})

FinancialPermissions ==
  Free("financial", {"can_read_financial"})
  \cup Needing("financial", {"can_read_financial"},
               {"can_create_payment", "can_approve_payment", "can_cancel_payment",
                "can_view_balance", "can_export_financial"})

TeamPermissions ==
  Free("user", {"can_create_user", "can_read_user"})
  \cup Needing("user", {"can_read_user"}, {"can_update_user", "can_delete_user"})
  \cup Free("team_permissions", {"can_manage_roles", "can_manage_permissions"})

ReportPermissions ==
  Free("advanced_reports", {"can_read_report"})
  \cup Needing("advanced_reports", {"can_read_report"},
               {"can_export_report", "can_create_custom_report", "can_schedule_report"})

\* A slip in the list: the customers with the orders, not with the shop.
CustomerPermissionsApart ==
  Free("order_management", {"can_create_customer", "can_read_customer"})
  \cup Needing("order_management", {"can_read_customer"},
               {"can_update_customer", "can_delete_customer"})

CustomerPermissions ==
  Free("ecommerce", {"can_create_customer", "can_read_customer"})
  \cup Needing("ecommerce", {"can_read_customer"},
               {"can_update_customer", "can_delete_customer"})

StockPermissions ==
  Free("inventory", {"can_transfer_inventory", "can_read_inventory"})
  \cup Needing("inventory", {"can_read_inventory"}, {"can_adjust_inventory"})

DeliveryPermissions ==
  Free("delivery", {"can_create_delivery", "can_read_delivery"})
  \cup Needing("delivery", {"can_read_delivery"},
               {"can_update_delivery", "can_complete_delivery"})

DocumentPermissions ==
  Free("document", {"can_create_document", "can_read_document"})
  \cup Needing("document", {"can_read_document"}, {"can_delete_document"})

TenantPermissions ==
  Free("activity_log", {"can_read_activity_log"})
  \cup Free("tenant", {"can_create_tenant", "can_read_tenant"})
  \cup Needing("tenant", {"can_read_tenant"}, {"can_update_tenant", "can_manage_modules"})

Listed ==
  CommercePermissions \cup OrderPermissions \cup SupplierPermissions
  \cup FleetPermissions \cup DriverPermissions \cup FinancialPermissions
  \cup TeamPermissions \cup ReportPermissions \cup CustomerPermissions
  \cup StockPermissions \cup DeliveryPermissions \cup DocumentPermissions
  \cup TenantPermissions

\* Permissions are found by their slug.
Slugs == {e.slug : e \in Listed}
Catalog == [p \in Slugs |-> CHOOSE e \in Listed : e.slug = p]

-----------------------------------------------------------------------------
(* The doors: [module, handler, needs], needs being the slug or None.       *)

None == "none"
Doors(m, needs) ==
  {[module |-> m, handler |-> h, needs |-> needs[h]] : h \in DOMAIN needs}

ProductDoors == Doors("ecommerce",
  [create |-> "can_create_product", findAll |-> "can_read_product",
   findOne |-> "can_read_product", update |-> "can_update_product",
   remove |-> "can_delete_product", publish |-> "can_publish_product"])

CategoryDoors == Doors("ecommerce",
  [create |-> "can_create_category", findAll |-> "can_read_category",
   findOne |-> "can_read_category", update |-> "can_update_category",
   remove |-> "can_delete_category"])

CustomerDoors == Doors("ecommerce",
  [create |-> "can_create_customer", findAll |-> "can_read_customer",
   findOne |-> "can_read_customer", update |-> "can_update_customer",
   remove |-> "can_delete_customer"])

OrderDoors == Doors("order_management",
  [create |-> "can_create_order", findAll |-> "can_read_order",
   findOne |-> "can_read_order", update |-> "can_update_order",
   cancel |-> "can_cancel_order", approve |-> "can_approve_order",
   assignResources |-> "can_assign_driver", complete |-> "can_complete_order",
   dispatch |-> "can_update_order"])

DeliveryDoors == Doors("delivery",
  [trackByCode |-> "can_read_delivery", findAll |-> "can_read_delivery",
   createIndependent |-> "can_create_delivery", create |-> "can_create_delivery",
   findOne |-> "can_read_delivery", update |-> "can_update_delivery",
   updateStatus |-> "can_update_delivery", start |-> "can_update_delivery",
   updateLocation |-> "can_update_delivery", uploadDocument |-> "can_update_delivery",
   complete |-> "can_complete_delivery"])

StockDoors == Doors("inventory",
  [transfer |-> "can_transfer_inventory", adjust |-> "can_adjust_inventory",
   getMovements |-> "can_read_inventory"])

DriverDoors == Doors("drivers_management",
  [create |-> "can_create_driver", findAll |-> "can_read_driver",
   findOne |-> "can_read_driver", update |-> "can_update_driver",
   remove |-> "can_delete_driver", approve |-> "can_approve_driver",
   block |-> "can_block_driver", invite |-> "can_create_driver"])

VehicleDoors == Doors("fleet_management",
  [create |-> "can_create_vehicle", findAll |-> "can_read_vehicle",
   findOne |-> "can_read_vehicle", update |-> "can_update_vehicle",
   remove |-> "can_delete_vehicle", approve |-> "can_approve_vehicle",
   setMaintenance |-> "can_set_maintenance"])

OrganizationDoors == Doors("multi_organization",
  [create |-> "can_create_supplier", findAll |-> "can_read_supplier",
   findOne |-> "can_read_supplier", update |-> "can_update_supplier",
   remove |-> "can_delete_supplier", approve |-> "can_approve_supplier",
   block |-> "can_block_supplier"])

TransactionDoors == Doors("financial",
  [create |-> "can_create_payment", findAll |-> "can_read_financial",
   findOne |-> "can_read_financial", approve |-> "can_approve_payment",
   cancel |-> "can_cancel_payment"])
BankAccountDoors == Doors("financial",
  [create |-> "can_create_payment", findAll |-> "can_read_financial"])
KpiDoors == Doors("financial", [getKPIs |-> "can_read_financial"])

DocumentDoors == Doors("document",
  [findAll |-> "can_read_document", findOne |-> "can_read_document",
   create |-> "can_create_document", uploadFile |-> "can_create_document",
   download |-> "can_read_document", remove |-> "can_delete_document"])

ReportDoors == Doors("advanced_reports",
  [getSalesReport |-> "can_read_report", getFleetStatus |-> "can_read_report"])

ActivityDoors == Doors("activity_log",
  [findAll |-> "can_read_activity_log", findOne |-> "can_read_activity_log"])

UserDoors == Doors("user",
  [invite |-> "can_create_user", create |-> "can_create_user",
   findAll |-> "can_read_user", findOne |-> "can_read_user",
   update |-> "can_update_user", remove |-> "can_delete_user",
   addRole |-> "can_manage_roles", removeRole |-> "can_manage_roles",
   grantPermission |-> "can_manage_permissions",
   revokePermission |-> "can_manage_permissions"])

RoleDoors == Doors("team_permissions",
  [create |-> "can_manage_roles", findAll |-> "can_manage_roles",
   findOne |-> "can_manage_roles", update |-> "can_manage_roles",
   remove |-> "can_manage_roles", addPermissions |-> "can_manage_permissions",
   removePermissions |-> "can_manage_permissions"])

\* No module is required for the list of permissions and for the tenant itself.
PermissionDoors == Doors(None, [findAll |-> "can_manage_permissions"])
TenantDoors == Doors(None,
  [create |-> "can_create_tenant", findMyTenant |-> "can_read_tenant",
   findOne |-> "can_read_tenant", updateConfig |-> "can_update_tenant"])

ModuleDoors == Doors("tenant-module",
  [findAll |-> None, getUsage |-> None,
   activate |-> "can_manage_modules", deactivate |-> "can_manage_modules"])

AllDoors ==
  ProductDoors \cup CategoryDoors \cup CustomerDoors \cup OrderDoors
  \cup DeliveryDoors \cup StockDoors \cup DriverDoors \cup VehicleDoors
  \cup OrganizationDoors \cup TransactionDoors \cup BankAccountDoors \cup KpiDoors
  \cup DocumentDoors \cup ReportDoors \cup ActivityDoors \cup UserDoors
  \cup RoleDoors \cup PermissionDoors \cup TenantDoors \cup ModuleDoors

=============================================================================
