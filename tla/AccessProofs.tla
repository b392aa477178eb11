----------------------------- MODULE AccessProofs -----------------------------
(***************************************************************************)
(* What a user may do follows from the rows, for any users, roles and      *)
(* requests.                                                               *)
(*                                                                         *)
(* The catalogue comes first: three facts about every permission of the    *)
(* seed and every door of the API, each from its list.  The inductive      *)
(* invariant has a part for the rows (they refer to rows that exist, and   *)
(* a bootstrapped administrator is the oldest of the users that have never *)
(* been away), and a part for each client, which depends on its own        *)
(* request and on the users.                                               *)
(***************************************************************************)
EXTENDS Access, TLAPS

\* Where a lookup can be, and where it has found what there is to find.
Looking == {"module", "roles", "belongs", "count", "first", "adminRole", "boot",
            "sole", "direct", "menu", "isAdmin"}
Settled(c) == Lookup(c) /\ pc[c] \in {"menu", "isAdmin", "idle"}

Rows ==
  /\ users \subseteq Users /\ roles \subseteq Roles
  /\ adminNamed \in roles \cup {None} /\ adminAlike \in roles \cup {None}
  /\ userRoles \subseteq users \X roles
  /\ rolePerms \subseteq roles \X Slugs
  /\ DOMAIN direct \subseteq users \X Slugs
  /\ active \cap Essential = {}
  /\ newest \in Nat /\ \A u \in users : u <= newest

Functions ==
  /\ DOMAIN pc = Clients /\ DOMAIN ask = Clients /\ DOMAIN got = Clients
  /\ DOMAIN left = Clients /\ DOMAIN answer = Clients /\ DOMAIN denied = Clients

\* The request of a client and how far it is.
Formed(c) ==
  /\ ask[c] \in Asks \cup {NoAsk} /\ (Busy(c) => ask[c] \in Asks)
  /\ left[c] \in Seq(STRING \cup Roles)
  /\ pc[c] \in Looking => Lookup(c)
  /\ Busy(c) /\ Lookup(c) => pc[c] \in Looking
  /\ pc[c] \in {"insertUser", "saveUser"} => ask[c].user \in Users
  /\ pc[c] = "loadUser" => ask[c].kind \in {"update", "leave"}
  /\ pc[c] = "loadRole" => ask[c].kind \in {"addPerms", "dropPerms", "rename", "delete"}
  /\ pc[c] = "saveRole" => ask[c].role \in Roles
  /\ pc[c] \in {"saveDirect", "insertDirect"} => ask[c].slugs[1] \in Slugs
  /\ pc[c] = "insertPerm" => left[c] # <<>> /\ Head(left[c]) \in Slugs
  /\ pc[c] = "saveGrants" => got[c] \subseteq Slugs

\* Who is about to become administrator is older than all other users who have not been
\* put back, and stays so: users that are created are younger, and a save only puts back
\* a user who was there when it was loaded.
FirstStays(c) ==
  /\ pc[c] \in {"adminRole", "boot", "saveUser"} => ask[c].user \in Nat /\ ask[c].user <= newest
  /\ pc[c] \in {"adminRole", "boot"} => \A w \in users \ returned : ask[c].user <= w

\* What a lookup has found: with its dependencies, and without what was revoked.
Closed(c) == \A p \in got[c] \ {Star} : Star \in got[c] \/ Catalog[p].deps \subseteq got[c]
Reasoned(c) ==
  Star \in got[c] \/ \A p \in denied[c] \cap got[c] :
                        \E q \in got[c] \ denied[c] : p \in Catalog[q].deps
Honest(c) ==
  /\ Lookup(c) => got[c] \subseteq Slugs \cup {Star}
  /\ pc[c] \in Looking /\ ~Settled(c) => denied[c] = {}
  /\ pc[c] = "module" => got[c] = {}
  /\ Settled(c) => Reasoned(c)
  /\ Settled(c) /\ (Busy(c) \/ answer[c] \in {"ok", "forbidden"}) => Closed(c)

Client(c) == Formed(c) /\ FirstStays(c) /\ Honest(c)

\* Whom a first request made administrator is the oldest of the users who have not been
\* put back.
Oldest ==
  /\ booted \subseteq userRoles
  /\ \A k \in booted, w \in users \ returned : k[1] <= w

IInv == Rows /\ Functions /\ (\A c \in Clients : Client(c)) /\ Oldest

-----------------------------------------------------------------------------
(* What answered requests promised                                         *)

\* Which requests come to a statement.
Routed(c) ==
  LET k == ask[c].kind IN
  /\ pc[c] \in {"findRole", "insertRole"} => k = "addRole"
  /\ pc[c] = "dropRole" => k = "removeRole"
  /\ pc[c] \in {"findDirect", "saveDirect", "insertDirect"} => k \in {"grant", "revoke"}
  /\ pc[c] \in {"eachPerm", "insertPerm"} => k = "addPerms"
  /\ pc[c] = "dropPerm" => k = "dropPerms"
  /\ pc[c] = "saveRole" => k \in {"newRole", "rename"}
  /\ pc[c] = "removeRole" => k = "delete"
  /\ pc[c] \in {"switchOn", "findAdmin", "readGrants", "saveGrants"} => k = "activate"
  /\ pc[c] = "switchOff" => k = "deactivate"
  /\ pc[c] = "insertUser" => k = "join"
  /\ pc[c] = "loadUser" => k \in {"update", "leave"}
  /\ pc[c] = "saveUser" => k = "update"
  /\ pc[c] = "removeUser" => k = "leave"

Wants(c) == {ask[c].slugs[i] : i \in DOMAIN ask[c].slugs}
Pending(c) == {left[c][i] : i \in DOMAIN left[c]}

\* What a request still has to write is something it asked for.
Sound(c) ==
  /\ Routed(c)
  /\ pc[c] = "loadRole" => left[c] = ask[c].slugs
  /\ pc[c] \in {"eachPerm", "insertPerm", "dropPerm"} => Pending(c) \subseteq Wants(c)
  /\ pc[c] \in {"readGrants", "saveGrants"} => left[c][1] \in Roles /\ OfModule(ask[c].word) # {}
  /\ pc[c] = "saveGrants" => got[c] \subseteq OfModule(ask[c].word)

\* As long as no other request is about the same rows, what was written stays, and
\* what was read is as it was read.
Progress(c) ==
  c \notin contested =>
    /\ pc[c] \in {"eachPerm", "insertPerm"} =>
         \A p \in Wants(c) \ Pending(c) : p \in Slugs => <<ask[c].role, p>> \in rolePerms
    /\ pc[c] = "dropPerm" =>
         \A p \in Wants(c) \ Pending(c) : <<ask[c].role, p>> \notin rolePerms
    /\ pc[c] \in {"readGrants", "saveGrants"} => left[c][1] = adminNamed
    /\ pc[c] = "saveGrants" =>
         \A p \in OfModule(ask[c].word) : p \in got[c] <=> <<left[c][1], p>> \notin rolePerms

Disputes ==
  \A c, d \in Clients : c # d /\ Busy(c) /\ Busy(d) /\ Keys(ask[c]) \cap Keys(ask[d]) # {} =>
    c \in contested

\* A row is a table with the two columns of its key.
Triple(k) == k = <<k[1], k[2], k[3]>> /\ k[1] \in {"role", "perm", "direct"}
Unclaimed ==
  \A w \in promised :
    Triple(w[1]) /\ \A c \in Clients : Busy(c) => w[1] \notin Keys(ask[c])

PInv == (\A c \in Clients : Sound(c) /\ Progress(c)) /\ Disputes /\ Unclaimed /\ AnsweredChangesHold

-----------------------------------------------------------------------------
(* Lemmas about the catalogue                                              *)

\* Permissions that others depend on: some that depend on nothing,
Basic == {"can_read_product", "can_read_category", "can_read_order", "can_read_driver",
          "can_read_supplier", "can_read_vehicle", "can_read_financial", "can_read_user",
          "can_read_report", "can_read_customer", "can_read_inventory",
          "can_read_delivery", "can_read_document", "can_read_tenant"}
\* and three that depend on one of those.
Update == [can_update_product |-> "can_read_product", can_update_order |-> "can_read_order",
           can_update_vehicle |-> "can_read_vehicle"]
Updates == {"can_update_product", "can_update_order", "can_update_vehicle"}

\* What can be said of an entry without the others.
Ordered(e) ==
  /\ e.deps \subseteq Basic \cup Updates
  /\ \A u \in Updates \cap e.deps : Update[u] \in e.deps
  /\ e.slug \in Basic => e.deps = {}
  /\ e.slug \in Updates => e.deps = {Update[e.slug]}

LEMMA EveryEntryIsOrdered == \A e \in Listed : Ordered(e)
<1> USE DEF Ordered, Basic, Update, Updates, Needing, Free
<1>1. \A e \in CommercePermissions : Ordered(e)
  BY DEF CommercePermissions
<1>2. \A e \in OrderPermissions : Ordered(e)
  BY DEF OrderPermissions
<1>3. \A e \in SupplierPermissions : Ordered(e)
  BY DEF SupplierPermissions
<1>4. \A e \in FleetPermissions : Ordered(e)
  BY DEF FleetPermissions
<1>5. \A e \in DriverPermissions : Ordered(e)
  BY DEF DriverPermissions
<1>6. \A e \in FinancialPermissions : Ordered(e)
  BY DEF FinancialPermissions
<1>7. \A e \in TeamPermissions : Ordered(e)
  BY DEF TeamPermissions
<1>8. \A e \in ReportPermissions : Ordered(e)
  BY DEF ReportPermissions
<1>9. \A e \in CustomerPermissions : Ordered(e)
  BY DEF CustomerPermissions
<1>10. \A e \in StockPermissions : Ordered(e)
  BY DEF StockPermissions
<1>11. \A e \in DeliveryPermissions : Ordered(e)
  BY DEF DeliveryPermissions
<1>12. \A e \in DocumentPermissions : Ordered(e)
  BY DEF DocumentPermissions
<1>13. \A e \in TenantPermissions : Ordered(e)
  BY DEF TenantPermissions
<1> HIDE DEF Ordered
<1> QED  BY <1>1, <1>2, <1>3, <1>4, <1>5, <1>6, <1>7, <1>8, <1>9, <1>10, <1>11, <1>12,
            <1>13 DEF Listed

\* The slugs of a list.
Of(list) == {e.slug : e \in list}

LEMMA OfUnion ==
  ASSUME NEW a, NEW b
  PROVE  Of(a \cup b) = Of(a) \cup Of(b)
BY DEF Of

LEMMA OfNeeding ==
  ASSUME NEW m, NEW deps, NEW slugs
  PROVE  Of(Needing(m, deps, slugs)) = slugs
<1> DEFINE Entry(p) == [slug |-> p, module |-> m, deps |-> deps]
<1>1. \A p : Entry(p).slug = p
  OBVIOUS
<1> HIDE DEF Entry
<1>2. Of({Entry(p) : p \in slugs}) = slugs
  BY <1>1 DEF Of
<1> QED  BY <1>2 DEF Needing, Entry

LEMMA DependenciesAreListed == Basic \cup Updates \subseteq Slugs
<1> USE OfUnion, OfNeeding DEF Free
<1>1. {"can_read_product", "can_read_category", "can_update_product"} \subseteq Of(CommercePermissions)
  BY DEF CommercePermissions
<1>2. {"can_read_order", "can_update_order"} \subseteq Of(OrderPermissions)
  BY DEF OrderPermissions
<1>3. {"can_read_supplier"} \subseteq Of(SupplierPermissions)
  BY DEF SupplierPermissions
<1>4. {"can_read_vehicle", "can_update_vehicle"} \subseteq Of(FleetPermissions)
  BY DEF FleetPermissions
<1>5. {"can_read_driver"} \subseteq Of(DriverPermissions)
  BY DEF DriverPermissions
<1>6. {"can_read_financial"} \subseteq Of(FinancialPermissions)
  BY DEF FinancialPermissions
<1>7. {"can_read_user"} \subseteq Of(TeamPermissions)
  BY DEF TeamPermissions
<1>8. {"can_read_report"} \subseteq Of(ReportPermissions)
  BY DEF ReportPermissions
<1>9. {"can_read_customer"} \subseteq Of(CustomerPermissions)
  BY DEF CustomerPermissions
<1>10. {"can_read_inventory"} \subseteq Of(StockPermissions)
  BY DEF StockPermissions
<1>11. {"can_read_delivery"} \subseteq Of(DeliveryPermissions)
  BY DEF DeliveryPermissions
<1>12. {"can_read_document"} \subseteq Of(DocumentPermissions)
  BY DEF DocumentPermissions
<1>13. {"can_read_tenant"} \subseteq Of(TenantPermissions)
  BY DEF TenantPermissions
<1> QED  BY <1>1, <1>2, <1>3, <1>4, <1>5, <1>6, <1>7, <1>8, <1>9, <1>10, <1>11, <1>12, <1>13
         DEF Basic, Updates, Slugs, Listed, Of

\* A permission of the catalogue is an entry of the list.
LEMMA EntryOf ==
  ASSUME NEW p \in Slugs
  PROVE  Catalog[p] \in Listed /\ Catalog[p].slug = p
BY DEF Slugs, Catalog

\* Dependencies are permissions, and what they depend on is among them already
\* (the list of seed.ts:77-629): one level of dependencies is all there is.
LEMMA OneLevelIsEnough ==
  ASSUME NEW p \in Slugs
  PROVE  /\ Catalog[p].deps \subseteq Slugs
         /\ \A q \in Catalog[p].deps : Catalog[q].deps \subseteq Catalog[p].deps
<1>1. Catalog[p] \in Listed /\ Ordered(Catalog[p])
  BY EntryOf, EveryEntryIsOrdered
<1>2. Catalog[p].deps \subseteq Basic \cup Updates
  BY <1>1 DEF Ordered
<1>3. ASSUME NEW q \in Catalog[p].deps
      PROVE  Catalog[q].deps \subseteq Catalog[p].deps
  <2>1. q \in Slugs
    BY <1>2, DependenciesAreListed
  <2>2. Catalog[q].slug = q /\ Ordered(Catalog[q])
    BY <2>1, EntryOf, EveryEntryIsOrdered
  <2>3. CASE q \in Basic
    BY <2>2, <2>3 DEF Ordered
  <2>4. CASE q \in Updates
    BY <1>1, <2>2, <2>4 DEF Ordered
  <2> QED  BY <1>2, <2>3, <2>4
<1> QED  BY <1>2, <1>3, DependenciesAreListed

\* The permissions that the doors of a module need.
Needed ==
  [ecommerce |-> {"can_create_product", "can_read_product", "can_update_product",
                  "can_delete_product", "can_publish_product", "can_create_category",
                  "can_read_category", "can_update_category", "can_delete_category",
                  "can_create_customer", "can_read_customer", "can_update_customer",
                  "can_delete_customer"},
   order_management |-> {"can_create_order", "can_read_order", "can_update_order",
                         "can_cancel_order", "can_approve_order", "can_assign_driver",
                         "can_complete_order"},
   delivery |-> {"can_create_delivery", "can_read_delivery", "can_update_delivery",
                 "can_complete_delivery"},
   inventory |-> {"can_transfer_inventory", "can_adjust_inventory", "can_read_inventory"},
   drivers_management |-> {"can_create_driver", "can_read_driver", "can_update_driver",
                           "can_delete_driver", "can_approve_driver", "can_block_driver"},
   fleet_management |-> {"can_create_vehicle", "can_read_vehicle", "can_update_vehicle",
                         "can_delete_vehicle", "can_approve_vehicle",
                         "can_set_maintenance"},
   multi_organization |-> {"can_create_supplier", "can_read_supplier",
                           "can_update_supplier", "can_delete_supplier",
                           "can_approve_supplier", "can_block_supplier"},
   financial |-> {"can_create_payment", "can_read_financial", "can_approve_payment",
                  "can_cancel_payment"},
   document |-> {"can_read_document", "can_create_document", "can_delete_document"},
   advanced_reports |-> {"can_read_report"},
   activity_log |-> {"can_read_activity_log"},
   team_permissions |-> {"can_manage_roles", "can_manage_permissions"}]
Hung(d) ==
  \/ d.module \in Essential \cup {None}
  \/ d.module \in DOMAIN Needed /\ d.needs \in Needed[d.module]
Filed(e) == \A m \in DOMAIN Needed : e.slug \in Needed[m] => e.module = m

LEMMA ModuleOfDoors ==
  ASSUME NEW m, NEW needs, NEW d \in Doors(m, needs)
  PROVE  d.module = m
BY DEF Doors

LEMMA EveryDoorIsHung == \A d \in AllDoors : Hung(d)
<1> USE DEF Hung, Needed, Essential, None
<1>1. \A d \in ProductDoors : Hung(d)
  BY DEF ProductDoors, Doors
<1>2. \A d \in CategoryDoors : Hung(d)
  BY DEF CategoryDoors, Doors
<1>3. \A d \in CustomerDoors : Hung(d)
  BY DEF CustomerDoors, Doors
<1>4. \A d \in OrderDoors : Hung(d)
  BY DEF OrderDoors, Doors
<1>5. \A d \in DeliveryDoors : Hung(d)
  BY DEF DeliveryDoors, Doors
<1>6. \A d \in StockDoors : Hung(d)
  BY DEF StockDoors, Doors
<1>7. \A d \in DriverDoors : Hung(d)
  BY DEF DriverDoors, Doors
<1>8. \A d \in VehicleDoors : Hung(d)
  BY DEF VehicleDoors, Doors
<1>9. \A d \in OrganizationDoors : Hung(d)
  BY DEF OrganizationDoors, Doors
<1>10. \A d \in TransactionDoors : Hung(d)
  BY DEF TransactionDoors, Doors
<1>11. \A d \in BankAccountDoors : Hung(d)
  BY DEF BankAccountDoors, Doors
<1>12. \A d \in KpiDoors : Hung(d)
  BY DEF KpiDoors, Doors
<1>13. \A d \in DocumentDoors : Hung(d)
  BY DEF DocumentDoors, Doors
<1>14. \A d \in ReportDoors : Hung(d)
  BY DEF ReportDoors, Doors
<1>15. \A d \in ActivityDoors : Hung(d)
  BY DEF ActivityDoors, Doors
<1>16. \A d \in UserDoors : Hung(d)
  BY ModuleOfDoors DEF UserDoors
<1>17. \A d \in RoleDoors : Hung(d)
  BY DEF RoleDoors, Doors
<1>18. \A d \in PermissionDoors : Hung(d)
  BY ModuleOfDoors DEF PermissionDoors
<1>19. \A d \in TenantDoors : Hung(d)
  BY ModuleOfDoors DEF TenantDoors
<1>20. \A d \in ModuleDoors : Hung(d)
  BY ModuleOfDoors DEF ModuleDoors
<1> HIDE DEF Hung
<1> QED  BY <1>1, <1>2, <1>3, <1>4, <1>5, <1>6, <1>7, <1>8, <1>9, <1>10, <1>11, <1>12, <1>13, <1>14, <1>15, <1>16, <1>17, <1>18, <1>19, <1>20 DEF AllDoors

LEMMA EveryEntryIsFiled == \A e \in Listed : Filed(e)
<1> USE DEF Filed, Needed, Needing, Free
<1>1. \A e \in CommercePermissions : Filed(e)
  BY DEF CommercePermissions
<1>2. \A e \in OrderPermissions : Filed(e)
  BY DEF OrderPermissions
<1>3. \A e \in SupplierPermissions : Filed(e)
  BY DEF SupplierPermissions
<1>4. \A e \in FleetPermissions : Filed(e)
  BY DEF FleetPermissions
<1>5. \A e \in DriverPermissions : Filed(e)
  BY DEF DriverPermissions
<1>6. \A e \in FinancialPermissions : Filed(e)
  BY DEF FinancialPermissions
<1>7. \A e \in TeamPermissions : Filed(e)
  BY DEF TeamPermissions
<1>8. \A e \in ReportPermissions : Filed(e)
  BY DEF ReportPermissions
<1>9. \A e \in CustomerPermissions : Filed(e)
  BY DEF CustomerPermissions
<1>10. \A e \in StockPermissions : Filed(e)
  BY DEF StockPermissions
<1>11. \A e \in DeliveryPermissions : Filed(e)
  BY DEF DeliveryPermissions
<1>12. \A e \in DocumentPermissions : Filed(e)
  BY DEF DocumentPermissions
<1>13. \A e \in TenantPermissions : Filed(e)
  BY DEF TenantPermissions
<1> HIDE DEF Filed
<1> QED  BY <1>1, <1>2, <1>3, <1>4, <1>5, <1>6, <1>7, <1>8, <1>9, <1>10, <1>11, <1>12, <1>13 DEF Listed

\* A door's permission belongs to the module that the door requires, if it requires one
\* that may be off (the classes of the controllers, and the list of seed.ts:77-629).
LEMMA DoorsMatchPermissions ==
  ASSUME NEW d \in AllDoors, d.needs \in Slugs
  PROVE  d.module \in Essential \cup {None, Catalog[d.needs].module}
<1>1. Hung(d)
  BY EveryDoorIsHung
<1>2. Catalog[d.needs].slug = d.needs /\ Filed(Catalog[d.needs])
  BY EntryOf, EveryEntryIsFiled
<1> QED  BY <1>1, <1>2 DEF Hung, Filed

LEMMA ByItsModule ==
  ASSUME NEW m, NEW p \in OfModule(m)
  PROVE  p \in Slugs /\ Catalog[p].module = m
BY DEF OfModule, ByModule

LEMMA MenuOpensDoors == MenusOpenDoors
<1> SUFFICES ASSUME NEW d \in AllDoors, d.needs \in Menu
             PROVE  d.module \in active \cup Essential \cup {None}
  BY DEF MenusOpenDoors
<1>1. PICK m \in active \cup Essential : d.needs \in OfModule(m)
  BY DEF Menu
<1>2. d.needs \in Slugs /\ Catalog[d.needs].module = m
  BY <1>1, ByItsModule
<1> QED  BY <1>2, DoorsMatchPermissions

-----------------------------------------------------------------------------
(* Lemmas about steps                                                      *)

LEMMA FirstSteps ==
  ASSUME NEW k \in Kinds
  PROVE  /\ FirstStep[k] # "idle"
         /\ k \in {"me", "enter"} <=> FirstStep[k] \in Looking
         /\ FirstStep[k] \in Looking => FirstStep[k] \in {"module", "roles"}
         /\ FirstStep[k] \notin {"saveDirect", "insertDirect", "insertPerm", "saveGrants"}
         /\ FirstStep[k] = "insertUser" => k = "join"
         /\ FirstStep[k] = "saveRole" => k = "newRole"
         /\ FirstStep[k] = "loadRole" => k \in {"addPerms", "dropPerms", "rename", "delete"}
         /\ FirstStep[k] = "loadUser" => k \in {"update", "leave"}
         /\ FirstStep[k] # "saveUser"
BY DEF Kinds, FirstStep, Looking

Same(d) ==
  /\ pc'[d] = pc[d] /\ ask'[d] = ask[d] /\ got'[d] = got[d]
  /\ left'[d] = left[d] /\ answer'[d] = answer[d] /\ denied'[d] = denied[d]
Moves(c) == Begin(c) \/ Resolve(c) \/ Administer(c)
OnlyIt(c) == Functions' /\ \A d \in Clients \ {c} : Same(d)

\* Users are removed or put back, or a younger one is created.
UsersChange ==
  /\ newest' \in Nat /\ newest <= newest'
  /\ \A w \in users' \ returned' : w \in users \ returned \/ newest < w

LEMMA OneMoves ==
  ASSUME Functions, NEW c \in Clients, Moves(c)
  PROVE  OnlyIt(c)
<1> USE DEF Functions, OnlyIt, Same, Leave, Goto, Stay, ctl
<1>1. CASE Begin(c)
  BY <1>1 DEF Begin
<1>2. CASE Resolve(c)
  <2> USE DEF Found
  <2>1. CASE CheckModule(c) \/ ReadRoles(c) \/ CheckBelongs(c) \/ CountAssignments(c)
    BY <2>1 DEF CheckModule, ReadRoles, CheckBelongs, CountAssignments
  <2>2. CASE FindFirst(c) \/ FindAdminRole(c) \/ CountUsers(c)
    BY <2>2 DEF FindFirst, FindAdminRole, CountUsers
  <2>3. CASE Bootstrap(c)
    BY <2>3 DEF Bootstrap
  <2>4. CASE ReadDirect(c) \/ ShowMenu(c) \/ IsTenantAdmin(c)
    BY <2>4 DEF ReadDirect, ShowMenu, IsTenantAdmin
  <2> QED  BY <1>2, <2>1, <2>2, <2>3, <2>4 DEF Resolve
<1>3. CASE Administer(c)
  <2>1. CASE FindRole(c) \/ InsertRole(c) \/ DropRole(c) \/ FindDirect(c)
    BY <2>1 DEF FindRole, InsertRole, DropRole, FindDirect
  <2>2. CASE SaveDirect(c) \/ InsertDirect(c) \/ LoadRole(c)
    BY <2>2 DEF SaveDirect, InsertDirect, LoadRole
  <2>3. CASE EachPerm(c) \/ InsertPerm(c) \/ DropPerm(c)
    BY <2>3 DEF EachPerm, InsertPerm, DropPerm, Reread
  <2>4. CASE SaveRole(c) \/ RemoveRole(c) \/ SwitchOn(c) \/ FindAdmin(c)
    BY <2>4 DEF SaveRole, RemoveRole, SwitchOn, FindAdmin
  <2>5. CASE ReadGrants(c) \/ SaveGrants(c) \/ SwitchOff(c)
    BY <2>5 DEF ReadGrants, SaveGrants, SwitchOff
  <2>6. CASE InsertUser(c) \/ LoadUser(c) \/ SaveUser(c) \/ RemoveUser(c)
    BY <2>6 DEF InsertUser, LoadUser, SaveUser, RemoveUser
  <2> QED  BY <1>3, <2>1, <2>2, <2>3, <2>4, <2>5, <2>6 DEF Administer
<1> QED  BY <1>1, <1>2, <1>3 DEF Moves

LEMMA OthersKeep ==
  ASSUME Rows, Rows', UsersChange, NEW d \in Clients, Client(d), Same(d)
  PROVE  Client(d)'
<1>1. Formed(d)'
  BY DEF Client, Formed, Same, Busy, Lookup
<1>2. FirstStays(d)'
  <2>1. ASSUME pc[d] \in {"adminRole", "boot", "saveUser"}
        PROVE  ask[d].user \in Nat /\ ask[d].user <= newest /\ ask[d].user <= newest'
    BY <2>1 DEF Client, FirstStays, Rows, UsersChange
  <2>2. ASSUME pc[d] \in {"adminRole", "boot"}, NEW w \in users' \ returned'
        PROVE  ask[d].user <= w
    <3>1. w \in Nat /\ newest \in Nat
      BY AccessAssumption DEF Rows
    <3>2. w \in users \ returned \/ newest < w
      BY DEF UsersChange
    <3> QED  BY <2>1, <2>2, <3>1, <3>2 DEF Client, FirstStays
  <2> QED  BY <2>1, <2>2 DEF FirstStays, Same
<1>3. Honest(d)'
  BY DEF Client, Honest, Same, Lookup, Settled, Closed, Reasoned, Busy
<1> QED  BY <1>1, <1>2, <1>3 DEF Client

\* What a lookup resolves is listed, closed, and gives a revoked permission only because
\* of another one.
LEMMA ResolvedFacts ==
  ASSUME NEW F \in SUBSET (Slugs \cup {Star}), NEW G \in SUBSET Slugs, NEW R,
         NEW n, n = Resolved(F, G, R)
  PROVE  /\ n \subseteq Slugs \cup {Star}
         /\ \A p \in n \ {Star} : Catalog[p].deps \subseteq n
         /\ \A p \in R \cap n : \E q \in n \ R : p \in Catalog[q].deps
<1> DEFINE names == (F \cup G) \ R
           added == UNION {Catalog[p].deps : p \in names \ {Star}}
<1>1. n = names \cup added
  BY DEF Resolved
<1>2. names \ {Star} \subseteq Slugs
  OBVIOUS
<1>3. \A p \in added : \E q \in names \ {Star} : p \in Catalog[q].deps
  OBVIOUS
<1>4. \A q \in names \ {Star} : Catalog[q].deps \subseteq added
  OBVIOUS
<1>5. names \cap R = {}
  OBVIOUS
<1> HIDE DEF names, added
<1>6. added \subseteq Slugs
  BY <1>2, <1>3, OneLevelIsEnough
<1>7. ASSUME NEW p \in n \ {Star}
      PROVE  Catalog[p].deps \subseteq n
  <2>1. CASE p \in names
    BY <1>1, <1>4, <1>7, <2>1
  <2>2. CASE p \in added
    <3>1. PICK q \in names \ {Star} : p \in Catalog[q].deps
      BY <1>3, <2>2
    <3>2. Catalog[p].deps \subseteq Catalog[q].deps
      BY <1>2, <3>1, OneLevelIsEnough
    <3> QED  BY <1>1, <1>4, <3>1, <3>2
  <2> QED  BY <1>1, <2>1, <2>2
<1>8. ASSUME NEW p \in R \cap n
      PROVE  \E q \in n \ R : p \in Catalog[q].deps
  <2>1. PICK q \in names \ {Star} : p \in Catalog[q].deps
    BY <1>1, <1>3, <1>5
  <2> QED  BY <1>1, <1>5, <2>1
<1> QED  BY <1>1, <1>2, <1>6, <1>7, <1>8

\* A request that begins.
LEMMA BeginsWell ==
  ASSUME Rows, Functions, NEW c \in Clients, Client(c), Begin(c)
  PROVE  Client(c)'
<1>1. PICK a \in Asks : /\ ask' = [ask EXCEPT ![c] = a]
                        /\ pc' = [pc EXCEPT ![c] = FirstStep[a.kind]]
                        /\ left' = [left EXCEPT ![c] = a.slugs]
  BY DEF Begin
<1>2. /\ ask'[c] = a /\ pc'[c] = FirstStep[a.kind] /\ left'[c] = a.slugs
      /\ got'[c] = {} /\ denied'[c] = {}
  BY <1>1 DEF Begin, Functions
<1>3. /\ a.kind \in Kinds /\ a.slugs \in Seq(STRING)
      /\ a.kind = "join" => a.user \in Users
      /\ a.kind = "newRole" => a.role \in Roles
  BY AccessAssumption
<1>4. /\ pc'[c] # "idle"
      /\ a.kind \in {"me", "enter"} <=> pc'[c] \in Looking
      /\ pc'[c] \in Looking => pc'[c] \in {"module", "roles"}
      /\ pc'[c] \notin {"saveDirect", "insertDirect", "insertPerm", "saveGrants"}
      /\ pc'[c] = "insertUser" => a.kind = "join"
      /\ pc'[c] = "saveRole" => a.kind = "newRole"
      /\ pc'[c] = "loadRole" => a.kind \in {"addPerms", "dropPerms", "rename", "delete"}
      /\ pc'[c] = "loadUser" => a.kind \in {"update", "leave"}
      /\ pc'[c] # "saveUser"
  BY <1>2, <1>3, FirstSteps
<1>5. a.slugs \in Seq(STRING \cup Roles)
  BY <1>3
<1>6. Formed(c)'
  BY <1>2, <1>3, <1>4, <1>5 DEF Formed, Lookup
<1>7. FirstStays(c)'
  BY <1>4 DEF FirstStays, Looking
<1>8. Honest(c)'
  BY <1>2, <1>4 DEF Honest, Settled, Looking
<1> QED  BY <1>6, <1>7, <1>8 DEF Client

\* How a lookup goes on: its request stays the same, and so do what it holds.
LEMMA LooksWell ==
  ASSUME Rows, Functions, NEW c \in Clients, Client(c), Resolve(c)
  PROVE  Client(c)'
<1>0. /\ ask' = ask /\ Lookup(c) /\ Busy(c) /\ pc[c] \in Looking
      /\ left[c] \in Seq(STRING \cup Roles) /\ ask[c] \in Asks
      /\ got[c] \subseteq Slugs \cup {Star}
  <2>1. pc[c] \in Looking
    BY DEF Resolve, CheckModule, ReadRoles, CheckBelongs, CountAssignments, FindFirst,
           FindAdminRole, Bootstrap, CountUsers, ReadDirect, ShowMenu, IsTenantAdmin,
           Looking
  <2>2. ask' = ask
    BY DEF Resolve, CheckModule, ReadRoles, CheckBelongs, CountAssignments, FindFirst,
           FindAdminRole, Bootstrap, CountUsers, ReadDirect, ShowMenu, IsTenantAdmin, ctl
  <2> QED  BY <2>1, <2>2 DEF Client, Formed, Honest, Looking, Busy
<1> DEFINE Ends == pc'[c] \in {"menu", "isAdmin", "idle"}
\* It is enough that the client stays typed, and honest at the end.
<1>1. ASSUME pc'[c] \in Looking \cup {"idle"}, left'[c] \in Seq(STRING \cup Roles),
             got'[c] \subseteq Slugs \cup {Star}, FirstStays(c)',
             ~Ends => denied'[c] = {} /\ pc'[c] # "module",
             Ends => Reasoned(c)',
             Ends /\ (Busy(c)' \/ answer'[c] \in {"ok", "forbidden"}) => Closed(c)'
      PROVE  Client(c)'
  <2>1. Lookup(c)'
    BY <1>0 DEF Lookup
  <2>2. Formed(c)'
    BY <1>0, <1>1, <2>1 DEF Formed, Looking, Busy
  <2>3. Honest(c)'
    BY <1>1, <2>1 DEF Honest, Settled, Looking
  <2> QED  BY <1>1, <2>2, <2>3 DEF Client
<1>2. got'[c] = {Star} => Reasoned(c)' /\ Closed(c)' /\ got'[c] \subseteq Slugs \cup {Star}
  BY DEF Reasoned, Closed
<1>3. denied'[c] = {} => Reasoned(c)'
  BY DEF Reasoned
<1>4. got'[c] = {} => Reasoned(c)' /\ Closed(c)'
  BY DEF Reasoned, Closed
<1>5. ASSUME pc[c] \in Looking \ {"menu", "isAdmin"}
      PROVE  denied[c] = {}
  BY <1>5 DEF Client, Honest, Settled, Looking
<1> USE DEF Functions
\* A step that finds something.
<1>6. ASSUME NEW names, Found(c, names), left'[c] = left[c] \/ left' = left
      PROVE  /\ got'[c] = names /\ left'[c] = left[c]
             /\ pc'[c] \in {"menu", "isAdmin", "idle"}
  BY <1>6 DEF Found, Leave, Goto, Judge
<1>7. CASE CheckModule(c)
  <2>1. got'[c] = got[c] /\ denied'[c] = denied[c] /\ left'[c] = left[c]
    BY <1>7 DEF CheckModule
  <2>2. pc'[c] \in {"idle", "roles"}
    BY <1>7 DEF CheckModule, Leave, Goto
  <2>3. got[c] = {} /\ denied[c] = {}
    BY <1>5, <1>7 DEF CheckModule, Client, Honest, Looking
  <2> QED  BY <1>0, <1>1, <1>3, <1>4, <2>1, <2>2, <2>3 DEF Looking, FirstStays
<1>8. CASE ReadRoles(c)
  <2>1. /\ denied'[c] = denied[c] /\ left'[c] = left[c]
        /\ got'[c] = FromRoles(ask[c].user) /\ pc'[c] \in {"belongs", "direct"}
    BY <1>8 DEF ReadRoles, Goto
  <2>2. FromRoles(ask[c].user) \subseteq Slugs \cup {Star}
    BY DEF FromRoles
  <2> QED  BY <1>0, <1>1, <1>5, <1>8, <2>1, <2>2 DEF Looking, FirstStays, ReadRoles
<1>9. CASE CheckBelongs(c) \/ CountAssignments(c)
  <2>1. /\ denied'[c] = denied[c] /\ left'[c] = left[c] /\ got'[c] = got[c]
        /\ pc'[c] \in {"count", "direct", "first", "sole"}
        /\ pc[c] \in {"belongs", "count"}
    BY <1>9 DEF CheckBelongs, CountAssignments, Goto
  <2> QED  BY <1>0, <1>1, <1>5, <2>1 DEF Looking, FirstStays
<1>10. CASE FindFirst(c)
  <2>1. /\ denied'[c] = denied[c] /\ left'[c] = left[c] /\ got'[c] = got[c]
        /\ pc'[c] = IF IsFirst(ask[c].user) THEN "adminRole" ELSE "sole"
        /\ pc[c] = "first" /\ users' = users /\ newest' = newest
    BY <1>10 DEF FindFirst, Goto, db
  <2>2. FirstStays(c)'
    BY <1>0, <2>1, AccessAssumption DEF FirstStays, IsFirst, Rows
  <2> QED  BY <1>0, <1>1, <1>5, <2>1, <2>2 DEF Looking
<1>11. CASE FindAdminRole(c)
  <2>1. CASE adminNamed = None
    <3>1. Found(c, {Star}) /\ left' = left
      BY <1>11, <2>1 DEF FindAdminRole
    <3> QED  BY <1>0, <1>1, <1>2, <1>6, <3>1 DEF Looking, FirstStays
  <2>2. CASE adminNamed # None
    <3>1. /\ denied'[c] = denied[c] /\ left'[c] = <<adminNamed>> /\ got'[c] = got[c]
          /\ pc'[c] = "boot" /\ pc[c] = "adminRole" /\ users' = users /\ newest' = newest
          /\ returned' = returned
      BY <1>11, <2>2 DEF FindAdminRole, Goto, db, boots
    <3>2. adminNamed \in Roles
      BY <2>2 DEF Rows
    <3>3. FirstStays(c)'
      BY <1>0, <3>1 DEF FirstStays, Client
    <3> QED  BY <1>0, <1>1, <1>5, <3>1, <3>2, <3>3 DEF Looking
  <2> QED  BY <2>1, <2>2
<1>12. CASE Bootstrap(c)
  <2>1. left'[c] = left[c] /\ denied'[c] = denied[c] /\ denied[c] = {}
    BY <1>5, <1>12 DEF Bootstrap, Looking
  <2>2. CASE Found(c, {Star})
    BY <1>0, <1>1, <1>2, <1>6, <2>1, <2>2 DEF Looking, FirstStays
  <2>3. CASE ~Found(c, {Star})
    <3>1. PICK v \in {"conflict", "badReference"} : Leave(c, v) /\ got' = got
      BY <1>12, <2>3 DEF Bootstrap, Verdict
    <3>2. pc'[c] = "idle" /\ answer'[c] \in {"conflict", "badReference"} /\ got'[c] = got[c]
      BY <3>1 DEF Leave, Goto
    <3> QED  BY <1>0, <1>1, <1>3, <2>1, <3>2 DEF Looking, FirstStays, Busy
  <2> QED  BY <2>2, <2>3
<1>13. CASE CountUsers(c)
  <2>1. CASE Cardinality(users) <= 1
    <3>1. Found(c, {Star}) /\ left' = left
      BY <1>13, <2>1 DEF CountUsers
    <3> QED  BY <1>0, <1>1, <1>2, <1>6, <3>1 DEF Looking, FirstStays
  <2>2. CASE ~(Cardinality(users) <= 1)
    <3>1. /\ denied'[c] = denied[c] /\ left'[c] = left[c] /\ got'[c] = got[c]
          /\ pc'[c] = "direct" /\ pc[c] = "sole"
      BY <1>13, <2>2 DEF CountUsers, Goto
    <3> QED  BY <1>0, <1>1, <1>5, <3>1 DEF Looking, FirstStays
  <2> QED  BY <2>1, <2>2
<1>14. CASE ReadDirect(c)
  <2>1. PICK G, R : /\ G = {k[2] : k \in {k \in DOMAIN direct :
                                            k[1] = ask[c].user /\ direct[k] = TRUE}}
                    /\ R = {k[2] : k \in {k \in DOMAIN direct :
                                            k[1] = ask[c].user /\ direct[k] = FALSE}}
    OBVIOUS
  <2>2. G \in SUBSET Slugs
    BY <2>1 DEF Rows
  <2>3. PICK n : n = Resolved(got[c], G, R)
    OBVIOUS
  <2>4. Found(c, n) /\ left' = left /\ denied'[c] = R
    BY <1>14, <2>1, <2>3 DEF ReadDirect
  <2>5. /\ n \subseteq Slugs \cup {Star}
        /\ \A p \in n \ {Star} : Catalog[p].deps \subseteq n
        /\ \A p \in R \cap n : \E q \in n \ R : p \in Catalog[q].deps
    BY <1>0, <2>2, <2>3, ResolvedFacts
  <2>6. got'[c] = n /\ left'[c] = left[c] /\ pc'[c] \in {"menu", "isAdmin", "idle"}
    BY <1>6, <2>4
  <2>7. Reasoned(c)' /\ Closed(c)'
    BY <2>4, <2>5, <2>6 DEF Reasoned, Closed
  <2> QED  BY <1>0, <1>1, <2>5, <2>6, <2>7 DEF Looking, FirstStays
<1>15. CASE ShowMenu(c) \/ IsTenantAdmin(c)
  <2>1. /\ denied'[c] = denied[c] /\ left'[c] = left[c] /\ got'[c] = got[c]
        /\ pc'[c] = "idle" /\ pc[c] \in {"menu", "isAdmin"}
    BY <1>15 DEF ShowMenu, IsTenantAdmin, Leave, Goto
  <2>2. Reasoned(c) /\ Closed(c)
    BY <1>0, <2>1 DEF Client, Honest, Settled
  <2>3. Reasoned(c)' /\ Closed(c)'
    BY <2>1, <2>2 DEF Reasoned, Closed
  <2> QED  BY <1>0, <1>1, <2>1, <2>3 DEF Looking, FirstStays
<1> QED  BY <1>7, <1>8, <1>9, <1>10, <1>11, <1>12, <1>13, <1>14, <1>15 DEF Resolve

\* How the other requests go on.
LEMMA AdministersWell ==
  ASSUME Rows, Functions, NEW c \in Clients, Client(c), Administer(c)
  PROVE  Client(c)'
<1> USE DEF Functions
<1>0. /\ ask' = ask /\ ~Lookup(c) /\ Busy(c) /\ pc[c] \notin Looking
      /\ left[c] \in Seq(STRING \cup Roles) /\ ask[c] \in Asks
  <2>1. pc[c] \notin Looking /\ Busy(c) /\ ask' = ask
    BY DEF Administer, FindRole, InsertRole, DropRole, FindDirect, SaveDirect,
           InsertDirect, LoadRole, EachPerm, InsertPerm, DropPerm, SaveRole, RemoveRole,
           SwitchOn, FindAdmin, ReadGrants, SaveGrants, SwitchOff, InsertUser, LoadUser,
           SaveUser, RemoveUser, Looking, Busy, ctl
  <2> QED  BY <2>1 DEF Client, Formed
<1> DEFINE Plain == {"idle", "insertRole", "eachPerm", "dropPerm", "removeRole",
                     "findAdmin", "readGrants", "removeUser"}
\* It is enough to look at what the next statement needs.
<1>1. ASSUME left'[c] \in Seq(STRING \cup Roles),
             \/ pc'[c] \in Plain
             \/ pc'[c] = "saveRole" /\ ask[c].role \in Roles
             \/ pc'[c] \in {"saveDirect", "insertDirect"} /\ ask[c].slugs[1] \in Slugs
             \/ pc'[c] = "insertPerm" /\ left'[c] # <<>> /\ Head(left'[c]) \in Slugs
             \/ pc'[c] = "saveGrants" /\ got'[c] \subseteq Slugs
             \/ /\ pc'[c] = "saveUser" /\ ask[c].user \in Users
                /\ ask[c].user \in Nat /\ ask[c].user <= newest'
      PROVE  Client(c)'
  <2>1. ~Lookup(c)' /\ pc'[c] \notin Looking
    BY <1>0, <1>1 DEF Lookup, Looking
  <2>2. Formed(c)'
    BY <1>0, <1>1, <2>1 DEF Formed, Looking
  <2>3. FirstStays(c)' /\ Honest(c)'
    BY <1>0, <1>1, <2>1 DEF FirstStays, Honest, Settled, Looking
  <2> QED  BY <2>2, <2>3 DEF Client
<1>2. CASE FindRole(c) \/ InsertRole(c) \/ DropRole(c)
  <2>1. left'[c] = left[c] /\ pc'[c] \in {"idle", "insertRole"}
    BY <1>2 DEF FindRole, InsertRole, DropRole, Leave, Goto
  <2> QED  BY <1>0, <1>1, <2>1
<1>3. CASE FindDirect(c)
  <2>1. /\ left'[c] = left[c]
        /\ \/ pc'[c] = "idle"
           \/ pc'[c] \in {"saveDirect", "insertDirect"} /\ ask[c].slugs[1] \in Slugs
    BY <1>3 DEF FindDirect, Leave, Goto
  <2> QED  BY <1>0, <1>1, <2>1
<1>4. CASE SaveDirect(c) \/ InsertDirect(c) \/ SaveRole(c) \/ RemoveRole(c)
  <2>1. left'[c] = left[c] /\ pc'[c] = "idle"
    BY <1>4 DEF SaveDirect, InsertDirect, SaveRole, RemoveRole, Leave, Goto
  <2> QED  BY <1>0, <1>1, <2>1
<1>5. CASE LoadRole(c)
  <2>1. ask[c].kind \in {"addPerms", "dropPerms", "rename", "delete"}
    BY <1>5 DEF LoadRole, Client, Formed
  <2>2. /\ left'[c] = left[c]
        /\ pc'[c] # "idle" =>
             /\ pc'[c] \in {"eachPerm", "dropPerm", "saveRole", "removeRole"}
             /\ ask[c].role \in roles
    BY <1>5, <2>1 DEF LoadRole, Leave, Goto
  <2> QED  BY <1>0, <1>1, <2>2 DEF Rows
<1>6. CASE EachPerm(c)
  <2>1. CASE left[c] = <<>>
    BY <1>0, <1>1, <1>6, <2>1 DEF EachPerm, Reread, Leave, Goto
  <2>2. CASE left[c] # <<>>
    <3>1. Tail(left[c]) \in Seq(STRING \cup Roles)
      BY <1>0, <2>2
    <3>2. \/ left'[c] = Tail(left[c]) /\ pc'[c] = "eachPerm"
          \/ left'[c] = left[c] /\ pc'[c] = "insertPerm" /\ Head(left[c]) \in Slugs
      BY <1>6, <2>2 DEF EachPerm, Goto
    <3> QED  BY <1>0, <1>1, <2>2, <3>1, <3>2
  <2> QED  BY <2>1, <2>2
<1>7. CASE InsertPerm(c) \/ DropPerm(c)
  <2>1. left[c] # <<>> => Tail(left[c]) \in Seq(STRING \cup Roles)
    BY <1>0
  <2>2. pc[c] = "insertPerm" => left[c] # <<>>
    BY DEF Client, Formed
  <2>3. /\ left'[c] = left[c] \/ (left'[c] = Tail(left[c]) /\ left[c] # <<>>)
        /\ pc'[c] \in {"idle", "eachPerm", "dropPerm"}
    BY <1>7, <2>2 DEF InsertPerm, DropPerm, Reread, Leave, Goto, Stay
  <2> QED  BY <1>0, <1>1, <2>1, <2>3
<1>8. CASE SwitchOn(c) \/ SwitchOff(c) \/ SaveGrants(c)
  <2>1. left'[c] = left[c] /\ pc'[c] \in {"idle", "findAdmin"}
    BY <1>8 DEF SwitchOn, SwitchOff, SaveGrants, Leave, Goto
  <2> QED  BY <1>0, <1>1, <2>1
<1>9. CASE FindAdmin(c)
  <2>1. CASE adminNamed = None
    <3>1. left'[c] = left[c] /\ pc'[c] = "idle"
      BY <1>9, <2>1 DEF FindAdmin, Leave, Goto
    <3> QED  BY <1>0, <1>1, <3>1
  <2>2. CASE adminNamed # None
    <3>1. adminNamed \in Roles
      BY <2>2 DEF Rows
    <3>2. <<adminNamed>> \in Seq(STRING \cup Roles)
      BY <3>1
    <3>3. /\ left'[c] = left[c] \/ left'[c] = <<adminNamed>>
          /\ pc'[c] \in {"idle", "readGrants"}
      BY <1>9 DEF FindAdmin, Leave, Goto
    <3> QED  BY <1>0, <1>1, <3>2, <3>3
  <2> QED  BY <2>1, <2>2
<1>10. CASE ReadGrants(c)
  <2>1. /\ left'[c] = left[c] /\ pc'[c] \in {"idle", "saveGrants"}
        /\ got'[c] = NewGrants(left[c][1], ask[c].word)
    BY <1>10 DEF ReadGrants, Leave, Goto
  <2>2. got'[c] \subseteq Slugs
    BY <2>1, ByItsModule DEF NewGrants
  <2> QED  BY <1>0, <1>1, <2>1, <2>2
<1>11. CASE InsertUser(c) \/ SaveUser(c) \/ RemoveUser(c)
  <2>1. left'[c] = left[c] /\ pc'[c] = "idle"
    BY <1>11 DEF InsertUser, SaveUser, RemoveUser, Leave, Goto
  <2> QED  BY <1>0, <1>1, <2>1
<1>12. CASE LoadUser(c)
  <2>1. ask[c].kind \in {"update", "leave"}
    BY <1>12 DEF LoadUser, Client, Formed
  <2>2. /\ left'[c] = left[c] /\ newest' = newest
        /\ \/ pc'[c] \in {"idle", "removeUser"}
           \/ pc'[c] = "saveUser" /\ ask[c].user \in users
    BY <1>12, <2>1 DEF LoadUser, Leave, Goto, db
  <2>3. ask[c].user \in users => /\ ask[c].user \in Users /\ ask[c].user \in Nat
                                 /\ ask[c].user <= newest
    BY AccessAssumption DEF Rows
  <2> QED  BY <1>0, <1>1, <2>2, <2>3
<1> QED  BY <1>2, <1>3, <1>4, <1>5, <1>6, <1>7, <1>8, <1>9, <1>10, <1>11, <1>12 DEF Administer

\* What the steps do to the rows.
LEMMA RowsStay ==
  ASSUME Rows, Functions, NEW c \in Clients, Client(c), Moves(c)
  PROVE  Rows' /\ UsersChange
<1> USE DEF Functions
<1>0. ASSUME users' \subseteq users, newest' = newest, returned' = returned
      PROVE  UsersChange
  BY <1>0 DEF UsersChange, Rows
<1>1. CASE UNCHANGED db /\ UNCHANGED returned
  BY <1>0, <1>1 DEF db, admins, Rows
<1>2. CASE Bootstrap(c) \/ InsertRole(c)
  <2>1. userRoles' = userRoles \/ \E k \in users \X roles : userRoles' = userRoles \cup {k}
    BY <1>2 DEF Bootstrap, InsertRole, Verdict
  <2>2. UNCHANGED <<users, newest, returned, roles, adminNamed, adminAlike, rolePerms,
                    direct, active>>
    BY <1>2 DEF Bootstrap, InsertRole, admins, boots
  <2> QED  BY <1>0, <2>1, <2>2 DEF Rows
<1>3. CASE DropRole(c)
  BY <1>0, <1>3 DEF DropRole, admins, Rows
<1>4. CASE SaveDirect(c) \/ InsertDirect(c)
  <2>1. ask[c].slugs[1] \in Slugs
    BY <1>4 DEF SaveDirect, InsertDirect, Client, Formed
  <2>2. direct' = direct \/ /\ direct' = WithDirect(DirectKey(c), Wanted(c))
                            /\ DirectKey(c)[1] \in users
    BY <1>4 DEF SaveDirect, InsertDirect, Verdict
  <2>3. DirectKey(c)[1] \in users => DirectKey(c) \in users \X Slugs
    BY <2>1 DEF DirectKey
  <2>4. DOMAIN direct' \subseteq users \X Slugs
    BY <2>2, <2>3 DEF WithDirect, Rows
  <2>5. UNCHANGED <<users, newest, returned, roles, adminNamed, adminAlike, userRoles,
                    rolePerms, active>>
    BY <1>4 DEF SaveDirect, InsertDirect, admins, boots
  <2> QED  BY <1>0, <2>4, <2>5 DEF Rows
<1>5. CASE InsertPerm(c)
  <2>1. Head(left[c]) \in Slugs
    BY <1>5 DEF InsertPerm, Client, Formed
  <2> QED  BY <1>0, <1>5, <2>1 DEF InsertPerm, Verdict, admins, boots, Rows
<1>6. CASE DropPerm(c)
  BY <1>0, <1>6 DEF DropPerm, admins, boots, Rows
<1>7. CASE SaveRole(c)
  <2>1. ask[c].role \in Roles
    BY <1>7 DEF SaveRole, Client, Formed
  <2> QED  BY <1>0, <1>7, <2>1 DEF SaveRole, Renamed, admins, boots, Rows
<1>8. CASE RemoveRole(c)
  <2>1. /\ userRoles' \subseteq users \X roles' /\ rolePerms' \subseteq roles' \X Slugs
    BY <1>8 DEF RemoveRole, Rows
  <2> QED  BY <1>0, <1>8, <2>1 DEF RemoveRole, Renamed, Rows
<1>9. CASE SwitchOn(c) \/ SwitchOff(c)
  BY <1>0, <1>9 DEF SwitchOn, SwitchOff, admins, boots, Rows
<1>10. CASE SaveGrants(c)
  <2>1. got[c] \subseteq Slugs
    BY <1>10 DEF SaveGrants, Client, Formed
  <2>2. rolePerms' = rolePerms \/ /\ rolePerms' = rolePerms \cup {<<left[c][1], p>> : p \in got[c]}
                                  /\ left[c][1] \in roles
    BY <1>10 DEF SaveGrants, Verdict
  <2>3. rolePerms' \subseteq roles \X Slugs
    BY <2>1, <2>2 DEF Rows
  <2> QED  BY <1>0, <1>10, <2>3 DEF SaveGrants, admins, boots, Rows
<1>11. CASE InsertUser(c)
  <2>1. ask[c].user \in Users /\ Users \subseteq Nat
    BY <1>11, AccessAssumption DEF InsertUser, Client, Formed
  <2>2. CASE newest < ask[c].user
    <3>1. users' = users \cup {ask[c].user} /\ newest' = ask[c].user
      BY <1>11, <2>2 DEF InsertUser
    <3>2. newest' \in Nat /\ \A u \in users' : u <= newest'
      <4>1. newest \in Nat /\ \A u \in users : u \in Nat /\ u <= newest
        BY <2>1 DEF Rows
      <4>2. PICK n \in Nat : n = ask[c].user
        BY <2>1
      <4>3. newest < n /\ users' = users \cup {n} /\ newest' = n
        BY <2>2, <3>1, <4>2
      <4>4. \A u \in users : u <= n
        BY <4>1, <4>3
      <4> QED  BY <4>3, <4>4
    <3>3. UNCHANGED <<roles, adminNamed, adminAlike, userRoles, rolePerms, direct, active,
                      returned>>
      BY <1>11 DEF InsertUser, admins, boots
    <3>4. Rows'
      BY <2>1, <3>1, <3>2, <3>3 DEF Rows
    <3>5. UsersChange
      BY <2>1, <2>2, <3>1, <3>2, <3>3 DEF Rows, UsersChange
    <3> QED  BY <3>4, <3>5
  <2>3. CASE ~(newest < ask[c].user)
    BY <1>0, <1>11, <2>3 DEF InsertUser, admins, boots, Rows
  <2> QED  BY <2>2, <2>3
<1>12. CASE RemoveUser(c)
  <2>1. userRoles' \subseteq users' \X roles /\ DOMAIN direct' \subseteq users' \X Slugs
    BY <1>12 DEF RemoveUser, Rows
  <2> QED  BY <1>12, <2>1 DEF RemoveUser, admins, Rows, UsersChange
<1>15. CASE SaveUser(c)
  <2>1. ask[c].user \in Users /\ ask[c].user \in Nat /\ ask[c].user <= newest
    BY <1>15 DEF SaveUser, Client, Formed, FirstStays
  <2>2. /\ UNCHANGED <<newest, roles, adminNamed, adminAlike, userRoles, rolePerms, direct,
                       active>>
        /\ \/ users' = users /\ returned' = returned
           \/ /\ users' = users \cup {ask[c].user}
              /\ returned' = returned \cup ({ask[c].user} \ users)
    BY <1>15 DEF SaveUser, admins
  <2>3. Rows'
    BY <2>1, <2>2 DEF Rows
  <2> QED  BY <2>2, <2>3 DEF UsersChange, Rows
<1>13. CASE Begin(c) \/ (Resolve(c) /\ ~Bootstrap(c))
  BY <1>1, <1>13 DEF Begin, Resolve, CheckModule, ReadRoles, CheckBelongs,
         CountAssignments, FindFirst, FindAdminRole, CountUsers, ReadDirect, ShowMenu,
         IsTenantAdmin, boots
<1>14. CASE FindRole(c) \/ FindDirect(c) \/ LoadRole(c) \/ EachPerm(c) \/ FindAdmin(c)
            \/ ReadGrants(c) \/ LoadUser(c)
  BY <1>1, <1>14 DEF FindRole, FindDirect, LoadRole, EachPerm, FindAdmin, ReadGrants,
                     LoadUser, boots
<1> QED  BY <1>2, <1>3, <1>4, <1>5, <1>6, <1>7, <1>8, <1>9, <1>10, <1>11, <1>12, <1>13,
            <1>14, <1>15 DEF Moves, Resolve, Administer

\* Who becomes administrator is the oldest, and stays the oldest until he is removed.
LEMMA OldestStays ==
  ASSUME Rows, Rows', Functions, NEW c \in Clients, Client(c), Oldest, Moves(c), UsersChange
  PROVE  Oldest'
<1>0. \A k \in booted : k[1] \in users
  BY DEF Oldest, Rows
<1>1. ASSUME booted' \subseteq booted, booted' \subseteq userRoles'
      PROVE  Oldest'
  <2> SUFFICES ASSUME NEW k \in booted, NEW w \in users' \ returned'
               PROVE  k[1] <= w
    BY <1>1 DEF Oldest
  <2>1. k[1] \in Nat /\ k[1] <= newest /\ newest \in Nat /\ w \in Nat
    BY <1>0, AccessAssumption DEF Rows
  <2>2. w \in users \ returned \/ newest < w
    BY DEF UsersChange
  <2> QED  BY <2>1, <2>2 DEF Oldest
<1>2. CASE Bootstrap(c)
  <2>1. ask[c].user \in Nat /\ \A w \in users \ returned : ask[c].user <= w
    BY <1>2 DEF Bootstrap, Client, FirstStays
  <2>2. CASE booted' = booted /\ userRoles' = userRoles
    BY <1>1, <2>2 DEF Oldest
  <2>3. CASE /\ booted' = booted \cup {<<ask[c].user, left[c][1]>>}
             /\ userRoles' = userRoles \cup {<<ask[c].user, left[c][1]>>}
    <3>1. users' = users /\ returned' = returned
      BY <1>2 DEF Bootstrap
    <3>2. PICK n \in Nat : n = ask[c].user
      BY <2>1
    <3>3. PICK r : r = left[c][1]
      OBVIOUS
    <3>4. booted' = booted \cup {<<n, r>>} /\ \A w \in users \ returned : n <= w
      BY <2>1, <2>3, <3>2, <3>3
    <3>5. \A k \in booted', w \in users \ returned : k[1] <= w
      BY <3>4 DEF Oldest
    <3> QED  BY <2>3, <3>1, <3>5 DEF Oldest
  <2> QED  BY <1>2, <2>2, <2>3 DEF Bootstrap
<1>3. CASE DropRole(c) \/ RemoveRole(c) \/ RemoveUser(c)
  BY <1>1, <1>3 DEF DropRole, RemoveRole, RemoveUser, Oldest
<1>4. CASE InsertRole(c)
  BY <1>1, <1>4 DEF InsertRole, boots, Oldest
<1>5. CASE booted' = booted /\ userRoles' = userRoles
  BY <1>1, <1>5 DEF Oldest
<1>6. CASE Begin(c) \/ CheckModule(c) \/ ReadRoles(c) \/ CheckBelongs(c)
           \/ CountAssignments(c) \/ FindFirst(c) \/ FindAdminRole(c) \/ CountUsers(c)
           \/ ReadDirect(c) \/ ShowMenu(c) \/ IsTenantAdmin(c)
  BY <1>5, <1>6 DEF Begin, CheckModule, ReadRoles, CheckBelongs, CountAssignments,
         FindFirst, FindAdminRole, CountUsers, ReadDirect, ShowMenu, IsTenantAdmin, db, boots
<1>7. CASE FindRole(c) \/ FindDirect(c) \/ SaveDirect(c) \/ InsertDirect(c) \/ LoadRole(c)
           \/ EachPerm(c) \/ InsertPerm(c) \/ DropPerm(c) \/ SaveRole(c) \/ SwitchOn(c)
  BY <1>5, <1>7 DEF FindRole, FindDirect, SaveDirect, InsertDirect, LoadRole, EachPerm,
         InsertPerm, DropPerm, SaveRole, SwitchOn, db, boots
<1>8. CASE FindAdmin(c) \/ ReadGrants(c) \/ SaveGrants(c) \/ SwitchOff(c) \/ InsertUser(c)
           \/ LoadUser(c) \/ SaveUser(c)
  BY <1>5, <1>8 DEF FindAdmin, ReadGrants, SaveGrants, SwitchOff, InsertUser, LoadUser, SaveUser,
         db, boots
<1> QED  BY <1>2, <1>3, <1>4, <1>6, <1>7, <1>8 DEF Moves, Resolve, Administer

LEMMA InitIInv == Init => IInv
<1> SUFFICES ASSUME Init PROVE IInv
  OBVIOUS
<1>1. Rows
  <2>1. PICK d \in Starts :
          /\ users = d.users /\ newest \in users \cup {0} /\ (\A u \in users : u <= newest)
          /\ roles = d.roles /\ adminNamed = d.adminNamed /\ adminAlike = None
          /\ userRoles = d.userRoles /\ rolePerms = d.rolePerms /\ active = d.active
    BY DEF Init
  <2>2. newest \in Nat
    <3>1. users \subseteq Nat
      BY <2>1, AccessAssumption
    <3> QED  BY <2>1, <3>1
  <2>3. DOMAIN direct = {}
    BY DEF Init
  <2> QED  BY <2>1, <2>2, <2>3, AccessAssumption DEF Rows
<1>2. Functions
  BY DEF Init, Functions
<1>3. ASSUME NEW c \in Clients
      PROVE  Client(c)
  <2>1. /\ pc[c] = "idle" /\ ask[c] = NoAsk /\ left[c] = <<>> /\ got[c] = {}
        /\ denied[c] = {}
    BY DEF Init
  <2>2. ~Lookup(c)
    BY <2>1 DEF Lookup, NoAsk, None
  <2> QED  BY <2>1, <2>2 DEF Client, Formed, FirstStays, Honest, Settled, Looking, Busy
<1>4. Oldest
  BY DEF Init, Oldest
<1> QED  BY <1>1, <1>2, <1>3, <1>4 DEF IInv

LEMMA NextIInv == IInv /\ [Next]_vars => IInv'
<1> SUFFICES ASSUME IInv, [Next]_vars PROVE IInv'
  OBVIOUS
<1>1. CASE UNCHANGED vars
  BY <1>1 DEF vars, db, admins, ctl, hist, boots, IInv, Rows, Functions, Client, Formed,
              FirstStays, Honest, Settled, Closed, Reasoned, Lookup, Busy, Oldest
<1>2. ASSUME NEW c \in Clients, Moves(c)
      PROVE  IInv'
  <2>1. Rows' /\ UsersChange
    BY <1>2, RowsStay DEF IInv
  <2>2. OnlyIt(c)
    BY <1>2, OneMoves DEF IInv
  <2>3. Client(c)'
    BY <1>2, BeginsWell, LooksWell, AdministersWell DEF IInv, Moves
  <2>4. \A d \in Clients \ {c} : Client(d)'
    BY <2>1, <2>2, OthersKeep DEF IInv, OnlyIt
  <2>5. Oldest'
    BY <1>2, <2>1, OldestStays DEF IInv
  <2> QED  BY <2>1, <2>2, <2>3, <2>4, <2>5 DEF IInv, OnlyIt
<1> QED  BY <1>1, <1>2 DEF Next, Moves

LEMMA Invariance == Spec => []IInv
BY InitIInv, NextIInv, PTL DEF Spec

-----------------------------------------------------------------------------
(* Lemmas about promises                                                   *)

Acts(c) == Resolve(c) \/ Administer(c)

\* The statements that change a table, and those that change no table at all.
LEMMA Writers ==
  ASSUME NEW c \in Clients, Acts(c)
  PROVE  /\ \/ UNCHANGED userRoles /\ UNCHANGED booted
            \/ Bootstrap(c) \/ InsertRole(c) \/ DropRole(c) \/ RemoveRole(c) \/ RemoveUser(c)
         /\ \/ UNCHANGED rolePerms
            \/ InsertPerm(c) \/ DropPerm(c) \/ RemoveRole(c) \/ SaveGrants(c)
         /\ \/ UNCHANGED direct
            \/ SaveDirect(c) \/ InsertDirect(c) \/ RemoveUser(c)
         /\ UNCHANGED adminNamed \/ SaveRole(c) \/ RemoveRole(c)
         /\ UNCHANGED ask
<1> USE DEF db, admins, ctl, boots
<1>1. CASE Resolve(c)
  BY <1>1 DEF Resolve, CheckModule, ReadRoles, CheckBelongs, CountAssignments, FindFirst,
         FindAdminRole, Bootstrap, CountUsers, ReadDirect, ShowMenu, IsTenantAdmin
<1>2. CASE FindRole(c) \/ InsertRole(c) \/ DropRole(c) \/ FindDirect(c) \/ SaveDirect(c)
           \/ InsertDirect(c) \/ LoadRole(c) \/ EachPerm(c) \/ InsertPerm(c) \/ DropPerm(c)
  BY <1>2 DEF FindRole, InsertRole, DropRole, FindDirect, SaveDirect, InsertDirect,
         LoadRole, EachPerm, InsertPerm, DropPerm
<1>3. CASE SaveRole(c) \/ RemoveRole(c) \/ SwitchOn(c) \/ FindAdmin(c) \/ ReadGrants(c)
           \/ SaveGrants(c) \/ SwitchOff(c) \/ InsertUser(c) \/ LoadUser(c) \/ SaveUser(c)
           \/ RemoveUser(c)
  BY <1>3 DEF SaveRole, RemoveRole, SwitchOn, FindAdmin, ReadGrants, SaveGrants, SwitchOff,
         InsertUser, LoadUser, SaveUser, RemoveUser
<1> QED  BY <1>1, <1>2, <1>3 DEF Acts, Administer

\* The rows that each kind of request is about.
LEMMA KeysByKind ==
  ASSUME NEW a
  PROVE  /\ a.kind \in {"addRole", "removeRole"} => Keys(a) = {<<"role", a.user, a.role>>}
         /\ a.kind \in {"grant", "revoke"} => Keys(a) = {<<"direct", a.user, a.slugs[1]>>}
         /\ a.kind \in {"addPerms", "dropPerms"} =>
              Keys(a) = {<<"perm", a.role, a.slugs[i]>> : i \in DOMAIN a.slugs}
         /\ a.kind = "activate" =>
              Keys(a) = {<<"perm", r, p>> : r \in Roles, p \in OfModule(a.word)}
         /\ a.kind = "leave" =>
              Keys(a) = {<<"role", a.user, r>> : r \in Roles}
                          \cup {<<"direct", a.user, p>> : p \in Slugs}
         /\ a.kind = "delete" =>
              Keys(a) = {<<"role", u, a.role>> : u \in Users}
                          \cup {<<"perm", a.role, p>> : p \in Slugs}
         /\ a.kind \in {"newRole", "rename"} =>
              Keys(a) = {<<"perm", a.role, p>> : p \in Slugs}
BY DEF Keys

\* A statement leaves the rows alone that its request is not about: permissions of roles,
LEMMA PermsKeep ==
  ASSUME IInv, NEW c \in Clients, Sound(c), Acts(c),
         NEW r, NEW p, <<"perm", r, p>> \notin Keys(ask[c])
  PROVE  <<r, p>> \in rolePerms' <=> <<r, p>> \in rolePerms
<1>1. CASE UNCHANGED rolePerms
  BY <1>1
<1>2. CASE InsertPerm(c) \/ DropPerm(c)
  <2>1. CASE rolePerms' = rolePerms
    BY <2>1
  <2>2. CASE rolePerms' # rolePerms
    <3>1. /\ \/ rolePerms' = rolePerms \cup {<<ask[c].role, Head(left[c])>>}
             \/ rolePerms' = rolePerms \ {<<ask[c].role, Head(left[c])>>}
          /\ pc[c] \in {"insertPerm", "dropPerm"} /\ left[c] # <<>>
      BY <1>2, <2>2 DEF InsertPerm, DropPerm, IInv, Client, Formed
    <3>2. Head(left[c]) \in Pending(c)
      BY <3>1 DEF Pending, IInv, Client, Formed
    <3>3. <<"perm", ask[c].role, Head(left[c])>> \in Keys(ask[c])
      BY <3>1, <3>2, KeysByKind DEF Sound, Routed, Wants
    <3> QED  BY <3>1, <3>3
  <2> QED  BY <2>1, <2>2
<1>3. CASE RemoveRole(c)
  <2>1. /\ pc[c] = "removeRole" /\ ask[c].kind = "delete"
        /\ rolePerms' = {k \in rolePerms : k[1] # ask[c].role}
    BY <1>3 DEF RemoveRole, Sound, Routed
  <2>2. p \in Slugs => r # ask[c].role
    BY <2>1, KeysByKind
  <2>3. <<r, p>> \in rolePerms => p \in Slugs
    BY DEF IInv, Rows
  <2> QED  BY <2>1, <2>2, <2>3
<1>4. CASE SaveGrants(c)
  <2>1. /\ pc[c] = "saveGrants" /\ ask[c].kind = "activate" /\ left[c][1] \in Roles
        /\ got[c] \subseteq OfModule(ask[c].word)
        /\ \/ rolePerms' = rolePerms
           \/ rolePerms' = rolePerms \cup {<<left[c][1], q>> : q \in got[c]}
    BY <1>4 DEF SaveGrants, Sound, Routed
  <2>2. \A q \in got[c] : <<"perm", left[c][1], q>> \in Keys(ask[c])
    BY <2>1, KeysByKind
  <2> QED  BY <2>1, <2>2
<1> QED  BY <1>1, <1>2, <1>3, <1>4, Writers

\* roles of users, except that one is given to a first user,
LEMMA RolesKeep ==
  ASSUME IInv, NEW c \in Clients, Sound(c), Acts(c),
         NEW u, NEW r, <<"role", u, r>> \notin Keys(ask[c])
  PROVE  /\ <<u, r>> \in userRoles => <<u, r>> \in userRoles'
         /\ <<u, r>> \in booted => <<u, r>> \in booted'
         /\ <<u, r>> \in userRoles' => <<u, r>> \in userRoles \cup booted'
<1>0. <<u, r>> \in userRoles \cup booted => u \in Users /\ r \in Roles
  BY DEF IInv, Rows, Oldest
<1>1. CASE UNCHANGED userRoles /\ UNCHANGED booted
  BY <1>1
<1>2. CASE Bootstrap(c)
  BY <1>2 DEF Bootstrap
<1>3. CASE InsertRole(c) \/ DropRole(c)
  <2>1. <<u, r>> # <<ask[c].user, ask[c].role>>
    BY <1>3, KeysByKind DEF InsertRole, DropRole, Sound, Routed
  <2> QED  BY <1>3, <2>1 DEF InsertRole, DropRole, boots
<1>4. CASE RemoveRole(c)
  <2>1. u \in Users => r # ask[c].role
    BY <1>4, KeysByKind DEF RemoveRole, Sound, Routed
  <2> QED  BY <1>0, <1>4, <2>1 DEF RemoveRole
<1>5. CASE RemoveUser(c)
  <2>1. r \in Roles => u # ask[c].user
    BY <1>5, KeysByKind DEF RemoveUser, Sound, Routed
  <2> QED  BY <1>0, <1>5, <2>1 DEF RemoveUser
<1> QED  BY <1>1, <1>2, <1>3, <1>4, <1>5, Writers

\* and grants and revocations of single permissions.
LEMMA DirectKeeps ==
  ASSUME IInv, NEW c \in Clients, Sound(c), Acts(c),
         NEW u, NEW p, NEW k, k = <<u, p>>, <<"direct", u, p>> \notin Keys(ask[c])
  PROVE  /\ k \in DOMAIN direct' <=> k \in DOMAIN direct
         /\ k \in DOMAIN direct => direct'[k] = direct[k]
<1>1. CASE UNCHANGED direct
  BY <1>1
<1>2. CASE SaveDirect(c) \/ InsertDirect(c)
  <2>1. k # DirectKey(c)
    <3>1. Keys(ask[c]) = {<<"direct", ask[c].user, ask[c].slugs[1]>>}
      <4>1. ask[c].kind \in {"grant", "revoke"}
        BY <1>2 DEF SaveDirect, InsertDirect, Sound, Routed
      <4> QED  BY <4>1, KeysByKind
    <3>2. <<u, p>> # <<ask[c].user, ask[c].slugs[1]>>
      BY <3>1
    <3> QED  BY <3>2 DEF DirectKey
  <2>2. direct' = direct \/ direct' = WithDirect(DirectKey(c), Wanted(c))
    BY <1>2 DEF SaveDirect, InsertDirect
  <2> QED  BY <2>1, <2>2 DEF WithDirect
<1>3. CASE RemoveUser(c)
  <2>1. p \in Slugs => u # ask[c].user
    BY <1>3, KeysByKind DEF RemoveUser, Sound, Routed
  <2>2. k \in DOMAIN direct => p \in Slugs
    BY DEF IInv, Rows
  <2>3. k \in DOMAIN direct => k[1] # ask[c].user
    BY <2>1, <2>2
  <2> QED  BY <1>3, <2>3 DEF RemoveUser
<1> QED  BY <1>1, <1>2, <1>3, Writers

Excused(k) == k \in {<<"role", b[1], b[2]>> : b \in booted}

\* So a row that a request is not about holds as before, or the bootstrap gave it.
LEMMA HoldsAsBefore ==
  ASSUME IInv, NEW c \in Clients, Sound(c), Acts(c),
         NEW k, Triple(k), k \notin Keys(ask[c])
  PROVE  /\ Holds(k)' = Holds(k) \/ Excused(k)'
         /\ Excused(k) => Excused(k)'
<1>1. PICK x, y, t : k = <<t, x, y>> /\ t \in {"role", "perm", "direct"}
  BY DEF Triple
<1>2. k[1] = t /\ k[2] = x /\ k[3] = y
  BY <1>1
<1>3. CASE t = "role"
  <2>1. <<"role", x, y>> \notin Keys(ask[c])
    BY <1>1, <1>3
  <2>2. /\ <<x, y>> \in userRoles => <<x, y>> \in userRoles'
        /\ <<x, y>> \in booted => <<x, y>> \in booted'
        /\ <<x, y>> \in userRoles' => <<x, y>> \in userRoles \cup booted'
    BY <2>1, RolesKeep
  <2>3. Holds(k) = (<<x, y>> \in userRoles) /\ Holds(k)' = (<<x, y>> \in userRoles')
    BY <1>2, <1>3 DEF Holds
  <2>4. <<x, y>> \in booted' => Excused(k)'
    BY <1>1, <1>3 DEF Excused
  <2>5. \A b \in booted : b = <<b[1], b[2]>>
    BY DEF IInv, Oldest, Rows
  <2>6. Excused(k) => <<x, y>> \in booted
    BY <1>1, <1>3, <2>5 DEF Excused
  <2>7. Holds(k)' = Holds(k) \/ <<x, y>> \in booted'
    BY <2>2, <2>3
  <2> QED  BY <2>2, <2>4, <2>6, <2>7
<1>4. CASE t = "perm"
  <2>1. <<x, y>> \in rolePerms' <=> <<x, y>> \in rolePerms
    BY <1>1, <1>4, PermsKeep
  <2> QED  BY <1>1, <1>2, <1>4, <2>1 DEF Holds, Excused
<1>5. CASE t = "direct"
  <2>1. PICK j : j = <<x, y>>
    OBVIOUS
  <2>2. /\ j \in DOMAIN direct' <=> j \in DOMAIN direct
        /\ j \in DOMAIN direct => direct'[j] = direct[j]
    BY <1>1, <1>5, <2>1, DirectKeeps
  <2> QED  BY <1>1, <1>2, <1>5, <2>1, <2>2 DEF Holds, Excused
<1> QED  BY <1>1, <1>3, <1>4, <1>5

\* What a request does next is to go on or to be answered.
LEMMA Outcome ==
  ASSUME Functions, NEW c \in Clients, Acts(c)
  PROVE  UNCHANGED <<contested, promised>> \/ \E status : Leave(c, status)
<1>1. CASE Resolve(c)
  BY <1>1 DEF Resolve, CheckModule, ReadRoles, CheckBelongs, CountAssignments, FindFirst,
         FindAdminRole, Bootstrap, CountUsers, ReadDirect, ShowMenu, IsTenantAdmin, Found,
         Stay
<1>2. CASE FindRole(c) \/ InsertRole(c) \/ DropRole(c) \/ FindDirect(c) \/ SaveDirect(c)
           \/ InsertDirect(c) \/ LoadRole(c) \/ EachPerm(c) \/ InsertPerm(c) \/ DropPerm(c)
  BY <1>2 DEF FindRole, InsertRole, DropRole, FindDirect, SaveDirect, InsertDirect,
         LoadRole, EachPerm, InsertPerm, DropPerm, Reread, Stay
<1>3. CASE SaveRole(c) \/ RemoveRole(c) \/ SwitchOn(c) \/ FindAdmin(c) \/ ReadGrants(c)
           \/ SaveGrants(c) \/ SwitchOff(c) \/ InsertUser(c) \/ LoadUser(c) \/ SaveUser(c)
           \/ RemoveUser(c)
  BY <1>3 DEF SaveRole, RemoveRole, SwitchOn, FindAdmin, ReadGrants, SaveGrants, SwitchOff,
         InsertUser, LoadUser, SaveUser, RemoveUser, Stay
<1> QED  BY <1>1, <1>2, <1>3 DEF Acts, Administer

\* The members of a sequence.
Members(s) == {s[i] : i \in DOMAIN s}

LEMMA TailMembers ==
  ASSUME NEW S, NEW s \in Seq(S), s # <<>>
  PROVE  Members(s) = {Head(s)} \cup Members(Tail(s))
<1> DEFINE t == Tail(s)
<1>1. Len(s) \in Nat \ {0} /\ DOMAIN s = 1..Len(s) /\ Head(s) = s[1]
  OBVIOUS
<1>2. DOMAIN t = 1..(Len(s) - 1) /\ \A i \in 1..(Len(s) - 1) : t[i] = s[i + 1]
  OBVIOUS
<1>3. ASSUME NEW x, NEW i \in DOMAIN s, x = s[i]
      PROVE  x = Head(s) \/ x \in Members(t)
  <2>1. CASE i = 1
    BY <1>1, <1>3, <2>1
  <2>2. CASE i # 1
    <3>1. i - 1 \in DOMAIN t /\ t[i - 1] = s[i]
      BY <1>1, <1>2, <2>2
    <3> QED  BY <1>3, <3>1 DEF Members
  <2> QED  BY <2>1, <2>2
<1>4. ASSUME NEW x, NEW i \in DOMAIN t, x = t[i]
      PROVE  x \in Members(s)
  <2>1. i + 1 \in DOMAIN s /\ s[i + 1] = t[i]
    BY <1>1, <1>2
  <2> QED  BY <1>4, <2>1 DEF Members
<1>5. Head(s) \in Members(s)
  BY <1>1 DEF Members
<1> HIDE DEF t
<1>6. Members(s) = {Head(s)} \cup Members(t)
  BY <1>3, <1>4, <1>5 DEF Members
<1> QED  BY <1>6 DEF t

\* What is pending when the first has been dealt with.
LEMMA PendingTail ==
  ASSUME NEW c \in Clients, left[c] \in Seq(STRING \cup Roles), left[c] # <<>>,
         left'[c] = Tail(left[c])
  PROVE  Pending(c) = {Head(left[c])} \cup Pending(c)'
<1>1. Members(left[c]) = {Head(left[c])} \cup Members(left'[c])
  BY TailMembers
<1> QED  BY <1>1 DEF Pending, Members

\* A request that begins has written nothing yet.
LEMMA BeginsSoundly ==
  ASSUME IInv, NEW c \in Clients, Begin(c)
  PROVE  Sound(c)' /\ Progress(c)'
<1>1. PICK a \in Asks : /\ ask' = [ask EXCEPT ![c] = a]
                        /\ pc' = [pc EXCEPT ![c] = FirstStep[a.kind]]
                        /\ left' = [left EXCEPT ![c] = a.slugs]
  BY DEF Begin
<1>2. /\ ask'[c] = a /\ pc'[c] = FirstStep[a.kind] /\ left'[c] = a.slugs
      /\ a.kind \in Kinds
  BY <1>1, AccessAssumption DEF IInv, Functions
<1>3. /\ Routed(c)'
      /\ pc'[c] \notin {"eachPerm", "insertPerm", "dropPerm", "readGrants", "saveGrants"}
  BY <1>2 DEF Routed, FirstStep, Kinds
<1> QED  BY <1>2, <1>3 DEF Sound, Progress

\* How far a request is, after a statement of its own,
LEMMA OwnProgress ==
  ASSUME IInv, NEW c \in Clients, Client(c)', Sound(c), Progress(c), Acts(c)
  PROVE  Sound(c)' /\ Progress(c)'
<1> USE DEF IInv, Functions
<1>0. ask' = ask /\ left[c] \in Seq(STRING \cup Roles)
  BY Writers DEF Client, Formed
<1>1. ASSUME pc'[c] \in Looking \cup {"idle"}
      PROVE  Sound(c)' /\ Progress(c)'
  BY <1>1 DEF Looking, Sound, Progress, Routed
<1>2. ASSUME pc'[c] # "idle"
      PROVE  contested' = contested
  BY <1>2, Outcome DEF Leave, Goto
<1>3. CASE Resolve(c)
  <2>1. pc[c] \in Looking
    BY <1>3 DEF Resolve, CheckModule, ReadRoles, CheckBelongs, CountAssignments, FindFirst,
           FindAdminRole, Bootstrap, CountUsers, ReadDirect, ShowMenu, IsTenantAdmin,
           Looking
  <2>2. Lookup(c)'
    BY <1>0, <2>1 DEF Client, Formed, Lookup
  <2>3. pc'[c] \in Looking \cup {"idle"}
    BY <2>2 DEF Client, Formed, Busy
  <2> QED  BY <1>1, <2>3
<1>4. CASE FindRole(c) \/ FindDirect(c) \/ SwitchOn(c) \/ LoadUser(c)
  <2>1. /\ pc'[c] \in {"idle", "insertRole", "saveDirect", "insertDirect", "findAdmin",
                       "removeUser", "saveUser"}
        /\ Routed(c)'
    BY <1>0, <1>4 DEF FindRole, FindDirect, SwitchOn, LoadUser, Leave, Goto, Sound, Routed
  <2> QED  BY <1>1, <2>1 DEF Sound, Progress
<1>5. CASE LoadRole(c)
  <2>1. ask[c].kind \in {"addPerms", "dropPerms", "rename", "delete"} /\ left[c] = ask[c].slugs
    BY <1>5 DEF LoadRole, Client, Formed, Sound
  <2>2. left'[c] = left[c]
    BY <1>5 DEF LoadRole
  <2>3. /\ pc'[c] \in {"idle", "eachPerm", "dropPerm", "saveRole", "removeRole"}
        /\ Routed(c)'
    BY <1>0, <1>5, <2>1 DEF LoadRole, Leave, Goto, Routed
  <2>4. Pending(c)' = Wants(c)'
    BY <1>0, <2>1, <2>2 DEF Pending, Wants
  <2> QED  BY <2>3, <2>4 DEF Sound, Progress
<1>6. CASE EachPerm(c)
  <2>1. CASE left[c] = <<>>
    BY <1>1, <1>6, <2>1 DEF EachPerm, Reread, Leave, Goto
  <2>2. CASE left[c] # <<>>
    <3>1. /\ pc[c] = "eachPerm" /\ Pending(c) \subseteq Wants(c) /\ ask[c].kind = "addPerms"
          /\ rolePerms' = rolePerms
      BY <1>6 DEF EachPerm, Sound, Routed, db
    <3>2. CASE /\ left'[c] = Tail(left[c]) /\ pc'[c] = "eachPerm"
               /\ Head(left[c]) \in Slugs => <<ask[c].role, Head(left[c])>> \in rolePerms
      <4>1. Pending(c) = {Head(left[c])} \cup Pending(c)'
        BY <1>0, <2>2, <3>2, PendingTail
      <4>2. Wants(c)' = Wants(c)
        BY <1>0 DEF Wants
      <4>3. Sound(c)'
        BY <1>0, <3>1, <3>2, <4>1, <4>2 DEF Sound, Routed
      <4>4. Progress(c)'
        BY <1>0, <1>2, <3>1, <3>2, <4>1, <4>2 DEF Progress
      <4> QED  BY <4>3, <4>4
    <3>3. CASE left'[c] = left[c] /\ pc'[c] = "insertPerm"
      <4>1. Pending(c)' = Pending(c) /\ Wants(c)' = Wants(c)
        BY <1>0, <3>3 DEF Pending, Wants
      <4>2. Sound(c)'
        BY <1>0, <3>1, <3>3, <4>1 DEF Sound, Routed
      <4>3. Progress(c)'
        BY <1>0, <1>2, <3>1, <3>3, <4>1 DEF Progress
      <4> QED  BY <4>2, <4>3
    <3> QED  BY <1>6, <2>2, <3>2, <3>3 DEF EachPerm, Goto
  <2> QED  BY <2>1, <2>2
<1>7. CASE InsertPerm(c) \/ DropPerm(c)
  <2>1. CASE pc'[c] = "idle"
    BY <1>1, <2>1
  <2>2. CASE pc'[c] # "idle"
    <3>1. /\ left[c] # <<>> /\ left'[c] = Tail(left[c]) /\ Pending(c) \subseteq Wants(c)
          /\ \/ /\ pc[c] = "insertPerm" /\ pc'[c] = "eachPerm"
                /\ rolePerms' = rolePerms \cup {<<ask[c].role, Head(left[c])>>}
             \/ /\ pc[c] = "dropPerm" /\ pc'[c] = "dropPerm"
                /\ rolePerms' = rolePerms \ {<<ask[c].role, Head(left[c])>>}
      BY <1>7, <2>2 DEF InsertPerm, DropPerm, Reread, Leave, Goto, Sound, Client, Formed
    <3>2. Pending(c) = {Head(left[c])} \cup Pending(c)'
      BY <1>0, <3>1, PendingTail
    <3>3. Wants(c)' = Wants(c)
      BY <1>0 DEF Wants
    <3>4. Sound(c)'
      BY <1>0, <3>1, <3>2, <3>3 DEF Sound, Routed
    <3>5. Progress(c)'
      BY <1>0, <1>2, <3>1, <3>2, <3>3 DEF Progress
    <3> QED  BY <3>4, <3>5
  <2> QED  BY <2>1, <2>2
<1>8. CASE FindAdmin(c)
  <2>1. CASE pc'[c] = "idle"
    BY <1>1, <2>1
  <2>2. CASE pc'[c] # "idle"
    <3>1. /\ pc[c] = "findAdmin" /\ pc'[c] = "readGrants" /\ left'[c] = <<adminNamed>>
          /\ adminNamed # None /\ OfModule(ask[c].word) # {} /\ adminNamed' = adminNamed
      BY <1>8, <2>2 DEF FindAdmin, Leave, Goto, db, admins
    <3>2. left'[c][1] = adminNamed /\ adminNamed \in Roles
      BY <3>1 DEF Rows
    <3>3. ask[c].kind = "activate"
      BY <3>1 DEF Sound, Routed
    <3> QED  BY <1>0, <3>1, <3>2, <3>3 DEF Sound, Routed, Progress
  <2> QED  BY <2>1, <2>2
<1>9. CASE ReadGrants(c)
  <2>1. CASE pc'[c] = "idle"
    BY <1>1, <2>1
  <2>2. CASE pc'[c] # "idle"
    <3>1. /\ pc[c] = "readGrants" /\ pc'[c] = "saveGrants" /\ left'[c] = left[c]
          /\ got'[c] = NewGrants(left[c][1], ask[c].word)
          /\ adminNamed' = adminNamed /\ rolePerms' = rolePerms
      BY <1>9, <2>2 DEF ReadGrants, Leave, Goto, db, admins
    <3>2. Sound(c)'
      BY <1>0, <3>1 DEF Sound, Routed, NewGrants
    <3>3. Progress(c)'
      BY <1>0, <1>2, <3>1 DEF Progress, NewGrants
    <3> QED  BY <3>2, <3>3
  <2> QED  BY <2>1, <2>2
<1>10. CASE InsertRole(c) \/ DropRole(c) \/ SaveDirect(c) \/ InsertDirect(c) \/ SaveRole(c)
            \/ RemoveRole(c) \/ SaveGrants(c) \/ SwitchOff(c) \/ InsertUser(c)
            \/ SaveUser(c) \/ RemoveUser(c)
  <2>1. pc'[c] = "idle"
    BY <1>10 DEF InsertRole, DropRole, SaveDirect, InsertDirect, SaveRole, RemoveRole,
           SaveGrants, SwitchOff, InsertUser, SaveUser, RemoveUser, Leave, Goto
  <2> QED  BY <1>1, <2>1
<1> QED  BY <1>3, <1>4, <1>5, <1>6, <1>7, <1>8, <1>9, <1>10 DEF Acts, Administer

\* and after a statement of another one, which is about other rows or disputes these.
LEMMA OthersProgress ==
  ASSUME IInv, Disputes, NEW c \in Clients, NEW d \in Clients \ {c}, Busy(c),
         Sound(c), Acts(c), OnlyIt(c), Sound(d), Progress(d)
  PROVE  Sound(d)' /\ Progress(d)'
<1>1. Sound(d)'
  BY DEF OnlyIt, Same, Sound, Routed, Pending, Wants
<1>2. SUFFICES ASSUME d \notin contested', Busy(d)
               PROVE  Progress(d)'
  BY <1>1 DEF Progress, Busy, OnlyIt, Same
<1>3. d \notin contested
  BY <1>2, Outcome DEF IInv, Leave
<1>4. Keys(ask[d]) \cap Keys(ask[c]) = {}
  BY <1>2, <1>3 DEF Disputes
<1>5. \A r, p : <<"perm", r, p>> \in Keys(ask[d]) =>
                  (<<r, p>> \in rolePerms' <=> <<r, p>> \in rolePerms)
  BY <1>4, PermsKeep
<1>6. /\ Pending(d)' = Pending(d) /\ Wants(d)' = Wants(d) /\ pc'[d] = pc[d]
      /\ ask'[d] = ask[d] /\ left'[d] = left[d] /\ got'[d] = got[d]
  BY DEF OnlyIt, Same, Pending, Wants
<1>7. ASSUME pc[d] \in {"eachPerm", "insertPerm", "dropPerm"}, NEW p \in Wants(d)
      PROVE  <<"perm", ask[d].role, p>> \in Keys(ask[d])
  BY <1>7, KeysByKind DEF Sound, Routed, Wants
<1>8. ASSUME pc[d] \in {"readGrants", "saveGrants"}
      PROVE  /\ \A r \in Roles, p \in OfModule(ask[d].word) :
                  <<"perm", r, p>> \in Keys(ask[d])
             /\ left[d][1] \in Roles /\ OfModule(ask[d].word) # {}
  BY <1>8, KeysByKind DEF Sound, Routed
<1>9. ASSUME pc[d] \in {"readGrants", "saveGrants"}
      PROVE  adminNamed' = adminNamed
  <2>1. CASE SaveRole(c)
    <3>1. ask[c].kind \in {"newRole", "rename"} /\ ask[c].role \in Roles
      BY <2>1 DEF SaveRole, Sound, Routed, IInv, Client, Formed
    <3>2. PICK p : p \in OfModule(ask[d].word) /\ p \in Slugs
      BY <1>8, <1>9, ByItsModule
    <3>3. <<"perm", ask[c].role, p>> \in Keys(ask[c]) \cap Keys(ask[d])
      BY <1>8, <1>9, <3>1, <3>2, KeysByKind
    <3> QED  BY <1>4, <3>3
  <2>2. CASE RemoveRole(c)
    <3>1. ask[c].kind = "delete"
      BY <2>2 DEF RemoveRole, Sound, Routed
    <3>2. PICK p : p \in OfModule(ask[d].word) /\ p \in Slugs
      BY <1>8, <1>9, ByItsModule
    <3>3. ask[c].role \in Roles =>
            <<"perm", ask[c].role, p>> \in Keys(ask[c]) \cap Keys(ask[d])
      BY <1>8, <1>9, <3>1, <3>2, KeysByKind
    <3>4. ask[c].role \notin Roles
      BY <1>4, <3>3
    <3>5. adminNamed # ask[c].role \/ adminNamed = None
      BY <3>4 DEF IInv, Rows
    <3> QED  BY <2>2, <3>5 DEF RemoveRole, Renamed
  <2> QED  BY <2>1, <2>2, Writers
<1>10. CASE pc[d] \in {"eachPerm", "insertPerm", "dropPerm"}
  BY <1>3, <1>5, <1>6, <1>7, <1>10 DEF Progress
<1>11. CASE pc[d] \in {"readGrants", "saveGrants"}
  <2>1. \A p \in OfModule(ask[d].word) :
          <<left[d][1], p>> \in rolePerms' <=> <<left[d][1], p>> \in rolePerms
    BY <1>5, <1>8, <1>11
  <2> QED  BY <1>3, <1>6, <1>9, <1>11, <2>1 DEF Progress
<1>12. CASE pc[d] \notin {"eachPerm", "insertPerm", "dropPerm", "readGrants", "saveGrants"}
  BY <1>6, <1>12 DEF Progress
<1> QED  BY <1>10, <1>11, <1>12

\* What a request promises is about its rows.
LEMMA PromisesAreKeys ==
  ASSUME IInv, NEW c \in Clients, NEW w \in Promise(ask[c])
  PROVE  w[1] \in Keys(ask[c]) /\ Triple(w[1])
<1>1. CASE ask[c].kind \in {"addRole", "removeRole", "grant", "revoke", "addPerms", "dropPerms"}
  <2>1. PICK k \in Keys(ask[c]) : \E b \in BOOLEAN : w = <<k, b>>
    BY <1>1 DEF Promise
  <2>2. w[1] = k
    BY <2>1
  <2>3. \E t \in {"role", "perm", "direct"} : \E x, y : k = <<t, x, y>>
    BY <1>1, <2>1, KeysByKind
  <2> QED  BY <2>1, <2>2, <2>3 DEF Triple
<1>2. CASE ask[c].kind = "activate"
  <2>1. PICK p \in OfModule(ask[c].word) :
          w = <<<<"perm", adminNamed, p>>, TRUE>> /\ adminNamed # None
    BY <1>2 DEF Promise
  <2>2. adminNamed \in Roles
    BY <2>1 DEF IInv, Rows
  <2>3. <<"perm", adminNamed, p>> \in Keys(ask[c])
    BY <1>2, <2>2, KeysByKind
  <2> QED  BY <2>1, <2>3 DEF Triple
<1> QED  BY <1>1, <1>2 DEF Promise

LEMMA PromiseByKind ==
  ASSUME NEW a, NEW w \in Promise(a)
  PROVE  /\ a.kind = "addRole" => w = <<<<"role", a.user, a.role>>, TRUE>>
         /\ a.kind = "removeRole" => w = <<<<"role", a.user, a.role>>, FALSE>>
         /\ a.kind = "grant" => /\ w = <<<<"direct", a.user, a.slugs[1]>>, TRUE>>
                               /\ a.slugs[1] \in Slugs
         /\ a.kind = "revoke" => w = <<<<"direct", a.user, a.slugs[1]>>, FALSE>>
         /\ a.kind = "addPerms" =>
              \E i \in DOMAIN a.slugs : /\ w = <<<<"perm", a.role, a.slugs[i]>>, TRUE>>
                                        /\ a.slugs[i] \in Slugs
         /\ a.kind = "dropPerms" =>
              \E i \in DOMAIN a.slugs : w = <<<<"perm", a.role, a.slugs[i]>>, FALSE>>
<1>1. CASE a.kind \in {"addRole", "removeRole"}
  <2>1. PICK k \in Keys(a) : /\ a.kind = "addRole" => w = <<k, TRUE>>
                             /\ a.kind = "removeRole" => w = <<k, FALSE>>
    BY <1>1 DEF Promise
  <2>2. k = <<"role", a.user, a.role>>
    BY <1>1, KeysByKind
  <2> QED  BY <1>1, <2>1, <2>2
<1>2. CASE a.kind = "grant"
  <2>1. Keys(a) = {<<"direct", a.user, a.slugs[1]>>}
    BY <1>2, KeysByKind
  <2>2. PICK k \in Keys(a) : w = <<k, TRUE>> /\ k[3] \in Slugs
    BY <1>2 DEF Promise
  <2> QED  BY <1>2, <2>1, <2>2
<1>3. CASE a.kind = "revoke"
  <2>1. Keys(a) = {<<"direct", a.user, a.slugs[1]>>}
    BY <1>3, KeysByKind
  <2>2. PICK k \in Keys(a) : w = <<k, FALSE>>
    BY <1>3 DEF Promise
  <2> QED  BY <1>3, <2>1, <2>2
<1>4. CASE a.kind \in {"addPerms", "dropPerms"}
  <2>1. PICK k \in Keys(a) : /\ a.kind = "addPerms" => w = <<k, TRUE>> /\ k[3] \in Slugs
                             /\ a.kind = "dropPerms" => w = <<k, FALSE>>
    BY <1>4 DEF Promise
  <2>2. PICK i \in DOMAIN a.slugs : k = <<"perm", a.role, a.slugs[i]>>
    BY <1>4, KeysByKind
  <2> QED  BY <1>4, <2>1, <2>2
<1> QED  BY <1>1, <1>2, <1>3, <1>4

\* A request that is answered with success, and that nobody disputed, has done what it
\* promised.
LEMMA Kept ==
  ASSUME IInv, NEW c \in Clients, Sound(c), Progress(c), Acts(c),
         Leave(c, "ok"), c \notin contested, NEW w \in Promise(ask[c])
  PROVE  Holds(w[1])' = w[2]
<1> USE DEF IInv, Functions
<1>0. answer'[c] = "ok" /\ pc'[c] = "idle"
  BY DEF Leave, Goto
<1>1. /\ \A status : Leave(c, status) => status = "ok"
      /\ \A l : Goto(c, l) => l = "idle"
  BY <1>0 DEF Leave, Goto
\* The rows of each table.
<1>2. ASSUME NEW x, NEW y, w[1] = <<"role", x, y>>
      PROVE  /\ <<x, y>> \in userRoles' => Holds(w[1])' = TRUE
             /\ <<x, y>> \notin userRoles' => Holds(w[1])' = FALSE
  BY <1>2 DEF Holds
<1>3. ASSUME NEW x, NEW y, w[1] = <<"perm", x, y>>
      PROVE  /\ <<x, y>> \in rolePerms' => Holds(w[1])' = TRUE
             /\ <<x, y>> \notin rolePerms' => Holds(w[1])' = FALSE
  BY <1>3 DEF Holds
<1>4. ASSUME NEW x, NEW y, w[1] = <<"direct", x, y>>
      PROVE  Holds(w[1])' = (<<x, y>> \in DOMAIN direct' /\ direct'[<<x, y>>])
  BY <1>4 DEF Holds
<1>5. CASE Resolve(c)
  <2>1. pc[c] \in Looking
    BY <1>5 DEF Resolve, CheckModule, ReadRoles, CheckBelongs, CountAssignments, FindFirst,
           FindAdminRole, Bootstrap, CountUsers, ReadDirect, ShowMenu, IsTenantAdmin,
           Looking
  <2> QED  BY <2>1 DEF Client, Formed, Lookup, Promise
<1>6. CASE FindRole(c) \/ InsertRole(c)
  <2>1. /\ w[1] = <<"role", ask[c].user, ask[c].role>> /\ w[2] = TRUE
    <3>1. ask[c].kind = "addRole"
      BY <1>6 DEF FindRole, InsertRole, Sound, Routed
    <3>2. w = <<<<"role", ask[c].user, ask[c].role>>, TRUE>>
      BY <3>1, PromiseByKind
    <3> QED  BY <3>2
  <2>2. <<ask[c].user, ask[c].role>> \in userRoles'
    BY <1>1, <1>6 DEF FindRole, InsertRole, db
  <2> QED  BY <1>2, <2>1, <2>2
<1>7. CASE DropRole(c)
  <2>1. /\ w[1] = <<"role", ask[c].user, ask[c].role>> /\ w[2] = FALSE
    <3>1. ask[c].kind = "removeRole"
      BY <1>7 DEF DropRole, Sound, Routed
    <3>2. w = <<<<"role", ask[c].user, ask[c].role>>, FALSE>>
      BY <3>1, PromiseByKind
    <3> QED  BY <3>2
  <2>2. <<ask[c].user, ask[c].role>> \notin userRoles'
    BY <1>7 DEF DropRole
  <2> QED  BY <1>2, <2>1, <2>2
<1>8. CASE FindDirect(c) \/ SaveDirect(c) \/ InsertDirect(c)
  <2>1. ask[c].kind \in {"grant", "revoke"}
    BY <1>8 DEF FindDirect, SaveDirect, InsertDirect, Sound, Routed
  <2>3. /\ w[1] = <<"direct", ask[c].user, ask[c].slugs[1]>> /\ w[2] = Wanted(c)
        /\ Wanted(c) => ask[c].slugs[1] \in Slugs
    <3>1. w = <<<<"direct", ask[c].user, ask[c].slugs[1]>>, ask[c].kind = "grant">>
      BY <2>1, PromiseByKind
    <3>2. ask[c].kind = "grant" => ask[c].slugs[1] \in Slugs
      BY PromiseByKind
    <3> QED  BY <3>1, <3>2 DEF Wanted
  <2>4. Holds(w[1])' = (DirectKey(c) \in DOMAIN direct' /\ direct'[DirectKey(c)])
    BY <1>4, <2>3 DEF DirectKey
  <2>5. CASE FindDirect(c)
    <3>1. ask[c].slugs[1] \notin Slugs /\ direct' = direct
      BY <1>1, <2>5 DEF FindDirect, db
    <3>2. DirectKey(c) \notin DOMAIN direct
      BY <3>1 DEF DirectKey, Rows
    <3>3. Wanted(c) = FALSE
      BY <2>3, <3>1 DEF Wanted
    <3> QED  BY <2>3, <2>4, <3>1, <3>2, <3>3
  <2>6. CASE SaveDirect(c) \/ InsertDirect(c)
    <3>1. direct' = WithDirect(DirectKey(c), Wanted(c))
      BY <1>1, <2>6 DEF SaveDirect, InsertDirect
    <3>2. DirectKey(c) \in DOMAIN direct' /\ direct'[DirectKey(c)] = Wanted(c)
      BY <3>1 DEF WithDirect
    <3>3. Wanted(c) \in BOOLEAN
      BY DEF Wanted
    <3> QED  BY <2>3, <2>4, <3>2, <3>3
  <2> QED  BY <1>8, <2>5, <2>6
<1>9. CASE EachPerm(c)
  <2>1. /\ pc[c] = "eachPerm" /\ ask[c].kind = "addPerms" /\ rolePerms' = rolePerms
    BY <1>9 DEF EachPerm, Sound, Routed, db
  <2>2. left[c] = <<>>
    BY <1>0, <1>1, <1>9, <2>1 DEF EachPerm
  <2>3. Pending(c) = {}
    BY <2>2 DEF Pending
  <2>4. PICK p \in Wants(c) \cap Slugs : w = <<<<"perm", ask[c].role, p>>, TRUE>>
    <3>1. PICK i \in DOMAIN ask[c].slugs :
            w = <<<<"perm", ask[c].role, ask[c].slugs[i]>>, TRUE>> /\ ask[c].slugs[i] \in Slugs
      BY <2>1, PromiseByKind
    <3> QED  BY <3>1 DEF Wants
  <2>5. <<ask[c].role, p>> \in rolePerms
    BY <2>1, <2>3, <2>4 DEF Progress
  <2> QED  BY <1>3, <2>1, <2>4, <2>5
<1>10. CASE DropPerm(c)
  <2>1. /\ pc[c] = "dropPerm" /\ ask[c].kind = "dropPerms"
    BY <1>10 DEF DropPerm, Sound, Routed
  <2>2. left[c] = <<>> /\ rolePerms' = rolePerms
    BY <1>0, <1>10, <2>1 DEF DropPerm
  <2>3. Pending(c) = {}
    BY <2>2 DEF Pending
  <2>4. PICK p \in Wants(c) : w = <<<<"perm", ask[c].role, p>>, FALSE>>
    <3>1. PICK i \in DOMAIN ask[c].slugs :
            w = <<<<"perm", ask[c].role, ask[c].slugs[i]>>, FALSE>>
      BY <2>1, PromiseByKind
    <3> QED  BY <3>1 DEF Wants
  <2>5. <<ask[c].role, p>> \notin rolePerms
    BY <2>1, <2>3, <2>4 DEF Progress
  <2> QED  BY <1>3, <2>2, <2>4, <2>5
<1>11. CASE FindAdmin(c) \/ ReadGrants(c) \/ SaveGrants(c)
  <2>1. ask[c].kind = "activate"
    BY <1>11 DEF FindAdmin, ReadGrants, SaveGrants, Sound, Routed
  <2>2. PICK p \in OfModule(ask[c].word) :
          w = <<<<"perm", adminNamed, p>>, TRUE>> /\ adminNamed # None
    BY <2>1 DEF Promise
  <2>3. ~FindAdmin(c)
    BY <1>1, <2>2 DEF FindAdmin
  <2>4. left[c][1] = adminNamed /\ adminNamed \in roles
    BY <1>11, <2>2, <2>3 DEF ReadGrants, SaveGrants, Progress, Rows
  <2>5. CASE ReadGrants(c)
    <3>1. NewGrants(left[c][1], ask[c].word) = {} /\ rolePerms' = rolePerms
      BY <1>1, <2>5 DEF ReadGrants, db
    <3>2. <<adminNamed, p>> \in rolePerms'
      BY <2>4, <3>1 DEF NewGrants
    <3> QED  BY <1>3, <2>2, <3>2
  <2>6. CASE SaveGrants(c)
    <3>1. \A q \in OfModule(ask[c].word) : q \in got[c] <=> <<adminNamed, q>> \notin rolePerms
      BY <2>4, <2>6 DEF SaveGrants, Progress
    <3>2. got[c] \subseteq OfModule(ask[c].word)
      BY <2>6 DEF SaveGrants, Sound
    <3>3. PICK new : new = {<<adminNamed, q>> : q \in got[c]}
      OBVIOUS
    <3>4. new \cap rolePerms = {}
      BY <3>1, <3>2, <3>3
    <3>5. rolePerms' = rolePerms \cup new
      BY <2>4, <2>6, <3>3, <3>4 DEF SaveGrants, Verdict
    <3>6. <<adminNamed, p>> \in rolePerms'
      BY <3>1, <3>3, <3>5
    <3> QED  BY <1>3, <2>2, <3>6
  <2> QED  BY <1>11, <2>3, <2>5, <2>6
<1>12. CASE LoadRole(c) \/ InsertPerm(c)
  <2>1. CASE LoadRole(c)
    <3>1. ask[c].kind \in {"addPerms", "dropPerms", "rename", "delete"}
      BY <2>1 DEF LoadRole, Client, Formed
    <3> QED  BY <1>1, <2>1, <3>1 DEF LoadRole
  <2>2. CASE InsertPerm(c)
    BY <1>1, <2>2 DEF InsertPerm, Verdict
  <2> QED  BY <1>12, <2>1, <2>2
<1>13. CASE SaveRole(c) \/ RemoveRole(c) \/ SwitchOn(c) \/ SwitchOff(c) \/ InsertUser(c)
            \/ LoadUser(c) \/ SaveUser(c) \/ RemoveUser(c)
  <2>1. SwitchOn(c) => FALSE
    BY <1>1 DEF SwitchOn
  <2>2. ask[c].kind \in {"newRole", "rename", "delete", "deactivate", "join", "update",
                         "leave"}
    BY <1>13, <2>1 DEF SaveRole, RemoveRole, SwitchOff, InsertUser, LoadUser, SaveUser,
           RemoveUser, Sound, Routed
  <2> QED  BY <2>2 DEF Promise
<1> QED  BY <1>5, <1>6, <1>7, <1>8, <1>9, <1>10, <1>11, <1>12, <1>13 DEF Acts, Administer

LEMMA BeginPInv ==
  ASSUME IInv, PInv, NEW c \in Clients, Begin(c), OnlyIt(c)
  PROVE  PInv'
<1>1. PICK a \in Asks :
        /\ ask' = [ask EXCEPT ![c] = a] /\ pc' = [pc EXCEPT ![c] = FirstStep[a.kind]]
        /\ contested' = contested \cup Rivals(c, a)
                           \cup (IF Rivals(c, a) = {} THEN {} ELSE {c})
        /\ promised' = {w \in promised : w[1] \notin Keys(a)}
  BY DEF Begin
<1>2. ask'[c] = a /\ pc[c] = "idle" /\ UNCHANGED db /\ UNCHANGED booted
  BY <1>1 DEF Begin, IInv, Functions, boots
<1>3. ASSUME NEW d \in Clients \ {c}
      PROVE  /\ Busy(d)' <=> Busy(d) /\ ask'[d] = ask[d]
             /\ Sound(d)' /\ Progress(d)'
  <2>1. /\ pc'[d] = pc[d] /\ ask'[d] = ask[d] /\ left'[d] = left[d] /\ got'[d] = got[d]
        /\ Pending(d)' = Pending(d) /\ Wants(d)' = Wants(d)
    BY DEF OnlyIt, Same, Pending, Wants
  <2>2. rolePerms' = rolePerms /\ adminNamed' = adminNamed
    BY <1>2 DEF db, admins
  <2>3. Sound(d)'
    BY <2>1 DEF PInv, Sound, Routed
  <2>4. Progress(d)'
    BY <1>1, <2>1, <2>2 DEF PInv, Progress
  <2> QED  BY <2>1, <2>3, <2>4 DEF Busy
<1>4. Sound(c)' /\ Progress(c)'
  BY BeginsSoundly
<1>5. \A d \in Clients \ {c} : Busy(d) /\ Keys(ask[d]) \cap Keys(a) # {} =>
        {c, d} \subseteq contested'
  BY <1>1 DEF Rivals, Others
<1>6. Disputes'
  <2> SUFFICES ASSUME NEW d \in Clients, NEW e \in Clients, d # e, Busy(d)', Busy(e)',
                      Keys(ask'[d]) \cap Keys(ask'[e]) # {}
               PROVE  d \in contested'
    BY DEF Disputes
  <2>1. CASE d = c
    BY <1>2, <1>3, <1>5, <2>1
  <2>2. CASE e = c
    BY <1>2, <1>3, <1>5, <2>2
  <2>3. CASE d # c /\ e # c
    BY <1>1, <1>3, <2>3 DEF PInv, Disputes
  <2> QED  BY <2>1, <2>2, <2>3
<1>7. Unclaimed'
  BY <1>1, <1>2, <1>3 DEF PInv, Unclaimed, Triple
<1>8. AnsweredChangesHold'
  <2>1. \A k : Holds(k)' = Holds(k)
    BY <1>2 DEF Holds, db
  <2> QED  BY <1>1, <1>2, <2>1 DEF PInv, AnsweredChangesHold
<1> QED  BY <1>3, <1>4, <1>6, <1>7, <1>8 DEF PInv

LEMMA ActPInv ==
  ASSUME IInv, PInv, NEW c \in Clients, Acts(c), OnlyIt(c), Client(c)', Busy(c)
  PROVE  PInv'
<1>1. Sound(c)' /\ Progress(c)'
  BY OwnProgress DEF PInv
<1>2. \A d \in Clients \ {c} : Sound(d)' /\ Progress(d)'
  BY OthersProgress DEF PInv
<1>3. ask' = ask /\ \A d \in Clients \ {c} : Busy(d)' <=> Busy(d)
  BY Writers DEF OnlyIt, Same, Busy
\* Unless the request is answered with success, there are no new promises.
<1>4. \/ contested' = contested /\ promised' = promised
      \/ /\ ~Busy(c)' /\ contested' = contested \ {c}
         /\ \/ promised' = promised
            \/ /\ Leave(c, "ok") /\ c \notin contested
               /\ promised' = promised \cup Promise(ask[c])
  BY Outcome DEF Leave, Goto, IInv, Functions, Busy
<1>5. Disputes'
  BY <1>3, <1>4 DEF PInv, Disputes
<1>6. ASSUME NEW w \in promised
      PROVE  /\ Triple(w[1]) /\ \A d \in Clients : Busy(d)' => w[1] \notin Keys(ask'[d])
             /\ Holds(w[1])' = w[2] \/ Excused(w[1])'
  <2>1. Triple(w[1]) /\ w[1] \notin Keys(ask[c]) /\ Sound(c)
    BY DEF PInv, Unclaimed
  <2>2. /\ Holds(w[1])' = Holds(w[1]) \/ Excused(w[1])'
        /\ Excused(w[1]) => Excused(w[1])'
    BY <2>1, HoldsAsBefore
  <2>3. Holds(w[1]) = w[2] \/ Excused(w[1])
    BY DEF PInv, AnsweredChangesHold, Excused
  <2>4. \A d \in Clients : Busy(d)' => w[1] \notin Keys(ask'[d])
    BY <1>3, <2>1 DEF PInv, Unclaimed
  <2> QED  BY <2>1, <2>2, <2>3, <2>4
<1>7. ASSUME NEW w \in Promise(ask[c]), Leave(c, "ok"), c \notin contested
      PROVE  /\ Triple(w[1]) /\ \A d \in Clients : Busy(d)' => w[1] \notin Keys(ask'[d])
             /\ Holds(w[1])' = w[2]
  <2>1. w[1] \in Keys(ask[c]) /\ Triple(w[1])
    BY PromisesAreKeys
  <2>2. \A d \in Clients \ {c} : Busy(d) => w[1] \notin Keys(ask[d])
    BY <1>7, <2>1 DEF PInv, Disputes
  <2>3. ~Busy(c)'
    BY <1>7 DEF Leave, Goto, Busy, IInv, Functions
  <2>4. Holds(w[1])' = w[2]
    BY <1>7, Kept DEF PInv
  <2> QED  BY <1>3, <2>1, <2>2, <2>3, <2>4
<1>8. \A w \in promised' :
        /\ Triple(w[1]) /\ \A d \in Clients : Busy(d)' => w[1] \notin Keys(ask'[d])
        /\ Holds(w[1])' = w[2] \/ Excused(w[1])'
  BY <1>4, <1>6, <1>7
<1>9. Unclaimed'
  BY <1>8 DEF Unclaimed, Triple
<1>10. AnsweredChangesHold'
  BY <1>8 DEF AnsweredChangesHold, Excused
<1> QED  BY <1>1, <1>2, <1>5, <1>9, <1>10 DEF PInv

LEMMA InitPInv == Init => PInv
BY DEF Init, PInv, Sound, Routed, Progress, Disputes, Busy, Unclaimed, AnsweredChangesHold

LEMMA NextPInv == IInv /\ IInv' /\ PInv /\ [Next]_vars => PInv'
<1> SUFFICES ASSUME IInv, IInv', PInv, [Next]_vars
             PROVE  PInv'
  OBVIOUS
<1>1. CASE UNCHANGED vars
  <2> USE <1>1 DEF vars, db, admins, ctl, hist, boots
  <2>1. \A c \in Clients : Sound(c)' /\ Progress(c)'
    BY DEF PInv, Sound, Routed, Progress, Pending, Wants
  <2>2. Disputes' /\ Unclaimed'
    BY DEF PInv, Disputes, Unclaimed, Busy, Triple
  <2>3. \A k : Holds(k)' = Holds(k)
    BY DEF Holds
  <2>4. AnsweredChangesHold'
    BY <2>3 DEF PInv, AnsweredChangesHold
  <2> QED  BY <2>1, <2>2, <2>4 DEF PInv
<1>2. ASSUME NEW c \in Clients, Moves(c)
      PROVE  PInv'
  <2>1. OnlyIt(c)
    BY <1>2, OneMoves DEF IInv
  <2>2. CASE Begin(c)
    BY <2>1, <2>2, BeginPInv
  <2>3. CASE Acts(c)
    <3>1. Client(c)'
      BY DEF IInv
    <3>2. Busy(c)
      BY <2>3 DEF Acts, Resolve, Administer, CheckModule, ReadRoles, CheckBelongs,
             CountAssignments, FindFirst, FindAdminRole, Bootstrap, CountUsers, ReadDirect,
             ShowMenu, IsTenantAdmin, FindRole, InsertRole, DropRole, FindDirect,
             SaveDirect, InsertDirect, LoadRole, EachPerm, InsertPerm, DropPerm, SaveRole,
             RemoveRole, SwitchOn, FindAdmin, ReadGrants, SaveGrants, SwitchOff,
             InsertUser, LoadUser, SaveUser, RemoveUser, Busy
    <3> QED  BY <2>1, <2>3, <3>1, <3>2, ActPInv
  <2> QED  BY <1>2, <2>2, <2>3 DEF Moves, Acts
<1> QED  BY <1>1, <1>2 DEF Next, Moves

-----------------------------------------------------------------------------
(* Theorems                                                                *)

\* Assignments, grants and permissions of roles refer to users, roles and permissions
\* that exist, whatever is removed between two statements of a request.
THEOREM TypeCorrect == Spec => []TypeOK
<1>1. IInv => TypeOK
  BY DEF IInv, Rows, Client, Honest, TypeOK
<1> QED  BY <1>1, Invariance, PTL

\* Whoever may do something may do all that it depends on: one level of dependencies,
\* which is all that permission.service.ts:157 follows, closes every set of permissions
\* that roles, grants and revocations can leave.
THEOREM ResolvedSetsAreClosed == Spec => []ResolvedIsClosed
<1>1. IInv => ResolvedIsClosed
  BY DEF IInv, Client, Honest, Settled, Closed, ResolvedIsClosed, Answered, Busy
<1> QED  BY <1>1, Invariance, PTL

\* A revoked permission is in force only for administrators, or because another one that
\* the user has depends on it, whoever changes rows during the lookup.
THEOREM RevocationsCount == Spec => []RevocationsNeedAReason
<1>1. IInv => RevocationsNeedAReason
  BY DEF IInv, Client, Honest, Settled, Reasoned, RevocationsNeedAReason, Answered, Busy
<1> QED  BY <1>1, Invariance, PTL

\* However many users ask first at once, and whoever comes and goes meanwhile, one of
\* them at most becomes administrator by asking.  There is one way to a second one, who is
\* older: a user who was removed while an update of his (user.service.ts:163-173) was under
\* way, which put him back with the time of creation he had.
THEOREM OneAdministrator == Spec => []OneBootstrappedAdmin
<1>1. ASSUME IInv
      PROVE  OneBootstrappedAdmin
  <2> SUFFICES ASSUME NEW k \in booted, NEW l \in booted, k[1] < l[1], k[1] \notin returned
               PROVE  FALSE
    BY DEF OneBootstrappedAdmin
  <2>1. k[1] \in users /\ l[1] \in users
    BY <1>1 DEF IInv, Oldest, Rows
  <2>2. l[1] <= k[1]
    BY <1>1, <2>1 DEF IInv, Oldest
  <2>3. k[1] \in Nat /\ l[1] \in Nat
    BY <1>1, <2>1, AccessAssumption DEF IInv, Rows
  <2> QED  BY <2>2, <2>3
<1> QED  BY <1>1, Invariance, PTL

\* Whenever the menu of an administrator lists a permission, the modules of the doors that
\* need it are on, whatever is activated and deactivated.
THEOREM MenusAreUsable == Spec => []MenusOpenDoors
BY MenuOpensDoors, PTL

\* What a request changed with success holds from its answer on until another request is
\* about the same row, unless requests for that row overlapped; the one exception is the
\* role that the bootstrap gives back to a first user.
THEOREM ChangesHold == Spec => []AnsweredChangesHold
<1>1. PInv => AnsweredChangesHold
  BY DEF PInv
<1> QED  BY <1>1, InitPInv, NextPInv, Invariance, PTL DEF Spec

=============================================================================
