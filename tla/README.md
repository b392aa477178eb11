# A verification project for module_hub_backend

module_hub_backend is a multi-tenant ERP backend: NestJS controllers and services over TypeORM and
PostgreSQL. Tenants switch modules on and off, sell products, keep stock in warehouses and vehicles, and
send orders out with drivers. Its services share one habit that decides what can go wrong in it: a handler
**loads entities, changes them in memory, and saves them**, with awaits in between, seldom in one
transaction, and never with a lock taken at the read. This project models the parts where that matters, checks the models with
TLC, and proves with TLAPS what the runs check of stock, deliveries and revenue, modules, permissions, sign-ups, the catalogue, the
connection pool and the way of a request to its company, for every value of the constants.

## 1. Inventory of the system

| part | state it keeps | operations | who it talks to |
|---|---|---|---|
| Stock (`product/inventory.service.ts`) | `stock_level` (one row per product, variant and place), `inventory_movement` | transfer, adjust, deductStockForOrder | called by its controller, and by the order listener inside the order's transaction |
| Orders (`order/order.service.ts`) | `order`, `order_item` | create, checkout, update, cancel, approve, assignResources, complete, dispatch | emits ORDER_STOCK_DEDUCT (awaited, in the transaction) and ORDER_CREATED; inserts deliveries |
| Deliveries (`delivery/delivery.service.ts`) | `delivery`, tracking logs, documents | create, createIndependent, update, updateStatus, start, updateLocation, complete, uploadDocument | completes the order; emits DELIVERY_COMPLETED after the commit |
| Financial (`financial/`) | `transaction`, bank accounts | create, approve, cancel, KPIs; a listener for DELIVERY_COMPLETED | asks tenant-module whether `financial` is on |
| Modules (`tenant-module/`) | `tenant_module` rows, some under older names; permissions of the admin role | activateModule, deactivateModule, isModuleEnabled, usage | plan (limit), role (grants), asked by the module guard |
| Onboarding (`onboarding/`) | `tenant.config.onboardingCompleted` | complete, skip, status | activates a module, saves the tenant; a global guard reads the flag |
| Tenants, plans (`tenant/`, `plan/`) | `tenant` (with a JSON configuration), `plan` | create, updateConfig; reads | onboarding, limits |
| Users, roles, permissions | users, roles, grants, revocations | create, invite, addRole, grant, revoke; getUserPermissions | permission guard, auth |
| Auth (`auth/`) | tenants, users, reset tokens | register, registerDriver, login, refresh, resetPassword | creates tenant, role and user in turn |
| Drivers, vehicles, driver portal | `driver`, `vehicle` | invite, createFromUser, CRUD | users, deliveries |
| Products, categories (`product/product.service.ts`, `category/`) | `product`, its profile, variants and places in categories; `category` | create, update, remove, publish; create, update, remove | the storefront lists them, stock and order items refer to them |
| Customers, organizations, documents, reports, activity log | rows of their own | mostly a read and a save of one row | |
| Common | request context (CLS), guards, tenant subscriber, event emitter | | every request |

**What is hard in it.** Requests interleave at every await; nothing is locked at the read (stale saves,
checks that hold for a value that is gone). A TypeORM `save` selects the row again and updates whatever *differs* from
the object in memory, so an old object undoes other requests' work, relations included. `@OnEvent`
listeners run with their errors suppressed: an exception thrown to refuse something is swallowed. Steps that
follow a commit (log, event) may fail after the fact. Transactions lock rows in different orders. Cleaning up
older module names deletes, renames and inserts rows without a transaction.

**What makes the parts correct.** Stock: no quantity below zero, movements that add up to the stock, no
more sold than there was, one row per place and variant, requests that end. Orders and deliveries: one
delivery per order, no order on its way without one, statuses that follow each other, revenue exactly for
committed completions. Modules: the plan's limit, a module's record and activity survive merges, onboarding
ends once. Catalogue: what was answered stays until somebody changes it, a product is filed where one request put it, what was removed stays
removed. Permissions: what a user may do is closed under the dependencies of permissions, a revocation needs a reason to be
overruled, one first user is made administrator, changes answered with success hold. Sign-up: a company that answers as
registered works, one without an administrator has a cause, a refusal leaves nothing behind. Seeds: one that ends well is
complete and undoes no choice of a customer. Pool: connections are never over-committed, and every request is answered or all
connections are kept by requests that wait for another one. Requests: whatever a header says, rows are read and written for
the company of the token, and in the storefront for the one of the URL, with one exception that has a name.

## 2. Plan

What is written, in the order of importance it was planned in:

1. `Inventory`, `MCInventory`, `InventoryProofs`: stock, and the part of order creation that touches it.
2. `Fulfilment`, `MCFulfilment`, `FulfilmentProofs`: what happens to an order after its creation, its delivery, the revenue of a completion.
3. `ModuleCatalog` (abstract), `ModuleActivation` (detailed), `MCModuleActivation`, `ModuleActivationProofs`: modules, limit, onboarding.
4. `PermissionCatalog` (data), `Access`, `MCAccess`, `AccessProofs`: the permissions the seed writes and the doors that name them; who may do
   what in one company, and the requests that change it. `Access` extends `PermissionCatalog`, and so does `Seeding`.
5. `Accounts`, `MCAccounts`, `AccountsProofs`: how companies, users and drivers come to be, and what a request that breaks off leaves behind.
6. `Sales`, `MCSales`, `SalesProofs`: orders, checkouts and completions that share the pool of connections; the composition of
   order creation, delivery completion, their listeners and the log that the modules above treat one by one.
7. `Seeding`, `MCSeeding`: containers that seed one database while others serve.
8. `Gateway`, `MCGateway`, `GatewayProofs`: middleware, guards, repository and subscriber of one request.
9. `Catalogue`, `MCCatalogue`, `CatalogueProofs`: products with what hangs on them, and the categories they are filed in.

Left to model: organizations, whose save treats documents and bank accounts as a product's save treats its links (`Unlost`), only that
a document's column allows NULL and it is cut off silently.

Left to prove: `Seeding` (`FinishedSeedsAreComplete`, `SerialSeedsKeepChoices`: everything before a container's item is there, and what a
container has looked at and not yet saved is related to the row it saw, as `SeenHeld` does for products).

Runs stay small: two requests at a time, three or four requests in all, one order, three
deliveries, three places. Most of what goes wrong here takes one read, one foreign commit and one save.

## 3. How code is turned into steps

A step is what a handler does between two awaits that another request can tell apart. Reading an entity,
planning a save (TypeORM selects the row and compares), sending a statement, and committing are steps. A save
that is not inside a transaction is planned in one step and takes effect in the next. A transaction's writes are private until its
commit and lock their rows; a request that wants a locked row waits, and PostgreSQL aborts one of those who wait in a
cycle. `Fail` drops a request at any point: a failing statement, a lost connection, a crash of the process, which
loses the memory of a request and its open transaction alike.

What is outside `src/` is marked external in the map and modelled from its use: PostgreSQL at READ
COMMITTED (own writes over committed rows, row and unique-index locks, deadlock detection), TypeORM's `save`
(the difference to the row selected again; a loaded relation wins over its foreign-key column; saving the side of a
one-to-one relation that has no column restores the relation), and the event emitter, which suppresses listeners' errors. No migration
creates `stock_level` and `inventory_movement`; their constraints are those of the entities.

Variables marked *History* in the modules do not exist in the code; properties refer to them and no guard does.

### Inventory

State: `rows`, `qty`, `ledger` are the committed tables; `ents` are the StockLevel objects a request holds,
`mine`, `priv` and `moves` what its transaction has written. `Begin`, `ReadSource`, `ReadDestination`,
`ReadForAdjust`, `Listen` and `ReadForDeduction` are the code up to each save, with every check and its error;
`Save` is one `manager.save` with the movement that follows it; `Commit` and `Reply` end the request. `GetStockLevel`
keeps two oddities of the lookup: `variantId: null` is dropped from the where clause, so a product without
a variant matches its variants' rows too, and `findOne` has no order, so any matching row may come.
Movements are kept as a net quantity per row.

### Fulfilment

State: `db` holds status, driver and order of every order and delivery; `live` the deliveries that exist;
`credits` the CREDIT transactions. A worker serves one request: `Find` loads the entity and makes the handler's
checks, `Diff` plans the save (`Wanted`, `Differing`, `Relink`), `Write` sends one statement, `Commit` commits. `complete`
continues with the order (`FindOrder`) in the same transaction, then `Log` and `Announce` after the commit.
`DriverRequired` is the NOT NULL that the migration puts on `delivery.driverId` and the entity does not. The
vehicle behaves as the driver does and is left out, as are dates, proofs, addresses, tracking logs and documents.

### ModuleActivation and ModuleCatalog

State: `rows` are the tenant's rows of `tenant_module`, each with the name it was stored under; `onboarded` is the
flag in `tenant.config`; `mem` is what a handler has loaded. `Count`, `Find`, `Remove`, `Select`, `Write`,
`Saved` follow `activateModule` and `mergeLegacyRecords` await by await; at the limit the merge runs twice (`gate`), as in
the code. `ReadFlag`, `CheckUsage`, `ReadTenant`, `CompareTenant`, `StoreTenant` and `Report` are `complete`, `skip` and
`updateConfig`. `complete` takes only the ids that the onboarding offers, no older name of a module (`Named`). `Limit` is a number: a plan without a limit never reaches the check. The guard reads the tenant from the
`x-tenant-id` header, since it runs before the token is read; a request carries whether it has the header.
Ids of rows never come back, and a row's id gives its age: of several records of a module a merge prefers the oldest (`UnusedIds`; `MaxRows`
bounds it).
`ModuleCatalog` says what a tenant may rely on: a set of modules, a flag and the last answer, each request taking
effect at once. The refinement maps `enabled` and `onboarded` to what they were when the last request was answered.

### PermissionCatalog and Access

`PermissionCatalog` holds the permissions of `seed.ts`, each with its module and the permissions it depends on, and the doors:
every handler that names a permission, with the module its controller requires. State of `Access`: the rows `users`,
`roles`, `userRoles`, `rolePerms`, `direct` (a grant or a revocation of one permission) and `active`, the modules that are on.
A lookup follows `getUserPermissions` query by query: `ReadRoles`, then for a user without roles `CheckBelongs`,
`CountAssignments`, `FindFirst`, `FindAdminRole`, `Bootstrap` and `CountUsers`, then `ReadDirect`, which computes `Resolved`;
`me` shows the menu (`Menu`), `enter` passes `CheckModule` and `Judge`. The other requests are the services' writes, one
statement each, with `Verdict` for what a unique or foreign key makes of an insert. Users are numbers in the order of
`createdAt`, and a new user has a new number (`newest`). `update` of a user or a role loads the row with what belongs to it (`seen`) and saves it an
await later (`SaveUser`, `SaveRole`); a row that is gone by then is inserted again, a user with the old id and `createdAt` (`returned` notes
him), and a row that got children meanwhile cannot be saved (`Unlost`). A role counts as the administrators' by its
name in any case: `adminNamed` is the role named 'admin', `adminAlike` the one named 'Admin'. A permission not in the catalogue stands for names the code
ignores, and asking for one promises nothing.

### Accounts

State: the rows `tenants`, `roles`, `users`, `userRoles`, `drivers`, companies whose administrators were `granted` everything, and the
users who were `mailed` a password. A request is `register` (a new company, or `join` for one that exists), `createUser`,
`inviteUser`, `registerDriver`, `inviteDriver`, `createDriver` or `createTenant`. They share `FindUser`, `SaveUser`, `FindRole` and
so on, as the services do; `AfterUser` says what the caller of `UserService.create` continues with. `Refusal` is what
`mapPostgresError` and `register`'s own catch make of an exception. `Cut` breaks a request off between two statements. `raced` notes the
requests that ran while another was about the same thing: the company, the e-mail (for a driver made of a user, that user's), or the
driver's tax number (`Things`, `Rivals`). Initial databases are those `StartsAssumption` describes: every company is administered, rows refer to rows.

### Seeding

State: the `rows` the seed inserts, what the demo company's role was `granted`, modules switched `off`, and its configuration (the flag
`onboarded`, and `theme` for everything else in it). `Program` is `seed()` as a list of rows in the order of the source; a container is `at` one
of them and looks for it, then saves it. `Boot`, `Crash` and `Serve` are `docker/entrypoint.sh`: it seeds at every start
and serves whether or not the seed succeeded. `Edit` is a request to a container that serves already. `seed.ts` has 60
permissions, 4 plans and 13 modules; a run seeds some of each, for one row of a kind is treated as the next.

### Sales

The composition of order creation, checkout and completion with the connections they run on. State: `held`, the requests that keep
a connection (from `connect` to the finally block), `kept`, the ones nobody gives back: the product repository's own query runner's, and
that of a request whose transaction could not be begun, which it is before the `try` (`LeaveBehind`), `customers`, and three counters per order and delivery: how often it was `committed`, `followed` up (the client's
answer, the credit), and `missed`, its follow-up broken off by a failure or a restart, the only two that may. A step in `Pooled` needs a free connection (`Runs`). Steps on the transaction's own
connection do not. `Fail` is a statement that fails: before the commit it rolls back, in the customer lookup and in
listeners it is swallowed, after the commit it loses the answer or the credit. `Restart` stops the process.

### Gateway

A request has a route, the company of its token, of its `x-tenant-id` header and of its URL, any header with any route. It passes the middleware (`Begin`,
`TenantContext`), the two global guards (`Billing`, `Onboarding`), `JwtAuthGuard` and `TenantGuard` (`Token`), `ModuleGuard`, and a handler that reads
and writes rows through `TenantRepository` (`Find`) and `TenantSubscriber` (`BeforeInsert`), which go by the context
(`ctx`). Nest runs global guards first, before the token is read, so these go by the header. `Register` sets the
context itself. The storefront's routes are public, so that the tenant guard leaves their context as the header made it: its lists
name the company of the URL themselves, in place of the repository's condition (`Build`), while `Checkout` looks for its customer
through the repository, in the company of the header, and makes him for the one of the URL.
Eleven routes stand for all: one per combination of decorators, and the storefront's two.

### Catalogue

State: the rows `products` (who wrote each column last), `links` (places in categories, with the request that put each in), `variants`,
`profiles` and `categories` (name and slug, a slug being a base and a number, compared by the `Text` they make: the base of "Bebidas 1" is the second slug of "Bebidas"). A request is its `job` and the statements it has left
(`todo`), given by `Route` and taken in the order of the handlers' awaits (`Rank`): `InsertProduct`, `SaveProfile`, `LinkCategories`, `InsertVariants` and
`LoadProduct` are `create`; `LoadProduct`, `SaveProduct`, `SaveProfile`, `UnlinkCategories`, `LinkCategories` and `LoadProduct` again are `update`. There is no
transaction, so each commits by itself, and `Constrained` ends a request at the statement the database refuses. `Merged` is what a save writes: the
columns as loaded or set, the whole row when it is gone. `Unlost` is TypeORM's treatment of the loaded links and
variants: those it does not know get NULL for their product, which their column refuses. `update` reads the DTO's variants and drops
them. `ProfileOf` has no product: the entity declares a relation `product` with the column `product_id` and no `productId`, which is what
`create` is given. Clients name categories they have seen, and what they may leave out is in `JobsAssumption`. `ResolveSlug` looks for one number at a time; a category's own slug counts as taken.

## 4. Runs

Passing runs:

| run | bounds | what it shows |
|---|---|---|
| Inventory | 2 requests out of 19 bodies; a warehouse and two vehicles, two rows at first | no quantity is ever negative; rows that were not saved stale have the stock their movements say; the unique index, null columns and all, leaves one row per variant and vehicle; stock and movements part only after an overlap or a self-transfer; every request is answered, deadlocks included |
| FulfilmentAll | 2 workers, 4 requests, every handler | `OneDeliveryPerOrder`, `CreditsAreEarned` under any interleaving; without overlap no save undoes anything and no order is IN_ROUTE without its delivery |
| FulfilmentLive | 2 workers, 4 requests on one order | every request is answered |
| ModulesCatalog | 1 worker, 4 requests, a module under none, two or three names | the detailed handlers implement `ModuleCatalog` |
| ModulesMixed | 2 workers, 3 requests, failures | a module with a record keeps one; no two rows of one name; overlapping activations exceed the plan by at most one module each but the first |
| Access | 2 clients, 3 requests out of 31; 2 users, 2 roles; a company whose registration broke off, one that lost its assignments, one at work; and 6 requests out of 9, 3 users in a company without assignments | one level of dependencies closes every set of permissions (`ResolvedIsClosed`); a revoked permission is in force only because another one needs it; asking first makes one administrator, but for a user who was removed and put back by the save of an update; undisputed changes that were answered with success hold; whatever the menu lists, the module of its doors is on |
| Accounts | 2 clients, 3 requests out of 19, one of which breaks off; 2 companies, 3 e-mails | a company nobody administers has a cause; whoever is told that the company is registered can work there; refusals leave nothing behind but for drivers; an e-mail is registered once unless requests overlap |
| Seeding | 2 containers; 1 crash, 1 failing statement, 1 edit; a new database, an older one, one with a company of that name | a seed that ends well is complete; it undoes no choice made before it; the demo company gets complete |
| Sales | 2 clients, 3 requests, a pool of 2, 1 failure, 1 restart; an order with, one without and one with unknown products, a delivery | the pool is never over-committed; every commit is followed up exactly once, will be, or was broken off after it by a failure or a restart; every request is answered, or all connections are kept by requests that wait for another |
| Gateway | 2 clients, 3 requests, 2 companies, one of which registers; any header | rows are read and written for the company of the token or of the storefront's URL, but for the customer a checkout looks for; handlers run for companies that were entitled, but for a storefront's under another company's header; a registration under another company's header gets its user |
| Catalogue | 3 requests out of 15, all at a time; 1 product in 2 categories at first | creations that were answered are whole; an answered update holds until a later or an overlapping one; the links of a product mix, and removed rows come back, only where requests overlapped; alone, a request is refused for what its client left out and nothing else |

A run that ends in a violation, a disagreement between the code and what it says of itself:

| run | what happens |
|---|---|
| InventoryOversold | two deductions pass the check on the same row, and both are recorded |

More disagreements have a configuration here and are not among the runs above. Each states a property
the code's words promise; `tlc -config <name>.cfg <module>` shows the trace that breaks it.

| configuration | module | what the code says, and what happens |
|---|---|---|
| InventoryShort | MCInventory | 'Insufficient stock for product' (`inventory.service.ts:197`) is thrown in a listener, suppressed by the event emitter, and the order commits |
| FulfilmentCancelled | MCFulfilment | 'Cannot dispatch order in status' (`order.service.ts:319`): an order cancelled between dispatch's check and its save goes on its way |
| FulfilmentTrack | MCFulfilment | 'This delivery is not assigned to you' (`delivery.service.ts:142`): a user's id is compared with a driver's id, and the assigned driver is refused |
| FulfilmentReassign | MCFulfilment | 'Driver ID is required' (`order.controller.ts:76`): a second driver assigned to an order never reaches the row, for the loaded relation wins over its column |
| ModulesLimit | MCModuleActivation | 'Seu plano ... permite até ... módulos ativos' (`tenant-module.service.ts:232`): two activations both find room for the last module |
| ModulesReopened | MCModuleActivation | 'rejects completion when onboarding is already done' (`onboarding.service.spec.ts:70`): a stale save of the tenant opens the onboarding again |
| SalesCheckout | MCSales | 'Support for public storefront access' (`tenant-context.middleware.ts:14`): a storefront checkout has no user, and the order's `createdById` is NOT NULL, so that every checkout is refused at its first insert |
| CataloguePublish | MCCatalogue | 'Cannot publish product without ecommerce profile' (`product.service.ts:227`): a profile is saved without its product, so that products with one are refused too and the storefront stays empty |
| AccountsDrivers | MCAccounts | 'Driver already registered in this company.' (`driver.service.ts:70`), and 'Returns all tenants where the user is registered as a driver' (`driver-portal.service.ts:37`): the second driver without a known tax number, and any driver of another company, is refused as a duplicate, since the placeholder `00000000000` (`driver.service.ts:77`, `:97`) and `driver.userId` are unique over all companies |
| SeedingSkipped | MCSeeding | '[entrypoint] Seed skipped or already applied.' (`docker/entrypoint.sh:17`): of two containers that start together one may break off at a duplicate, say so and serve before the data is there |

Two configurations show what a property of a run excepts by name:

| configuration | module | what happens |
|---|---|---|
| AccessReturned | MCAccess | without the exception of `OneBootstrappedAdmin` (`NoSecondAdmin`): a user is updated and removed while his password is hashed (`user.service.ts:163-176`), another one is made the first administrator, the save inserts the older user again, and he is made one too |
| GatewayHeader | MCGateway | without the exceptions of `RequestsKeepToTheirCompany` and `HandlersAreEntitled` (`StorefrontKeepsToItsUrl`): under the header of another company a checkout looks for its customer there (`customer.service.ts:64`), and `ModuleGuard` asks for that company's module (`module.guard.ts:28`) while the URL's is served |

Other disagreements met while modelling, which the models show but no configuration is spent on. A transfer from a
place to itself adds to the stock, for the row is held in two objects and the second save wins
(`inventory.service.ts:92-104`; `SerialRequestsDoNotDrift` has to except it). A delivery without a driver, which the test at
`delivery.service.spec.ts:124` creates on a mock, is rejected by the migrated schema (`DriverRequired`). At the limit an
essential module is refused although it does not count (`tenant-module.service.ts:225-232`; `MayActivate` of the catalog says
so). Two completions of the onboarding that overlap activate a module each (`onboarding.service.ts:49`). A delivery completed
again records a second credit, which `CreditsAreEarned` allows: it counts completions, not deliveries. A refused invitation leaves the user it
made and mailed (`driver.service.ts:57`; `RefusalsLeaveNothing` has to except drivers). Billing and onboarding are checked only
for requests with a header or a storefront URL: the test 'blocks business routes until onboarding is completed'
(`test/onboarding.e2e-spec.ts`) always sends one, and the middleware's `req.user` is not set yet (`HandlersAreEntitled` says *whose
header names its company*). With as many orders at once as the pool has connections (ten: `database.config.ts` sets no size), each waiting for
its listener's module lookup, nobody goes on (`Stuck` in `RequestsFinish`), and no timeout is configured that would end the wait.

**Why the bounds are enough.** Each hazard is between a pair of requests: one reads, the other commits,
the first one saves. Two workers show every such pair, and three or four requests in all prepare the state
they need (a dispatched order, an assigned driver, a module at the limit, a user to revoke from). Rows and ids are as many as those
requests can insert. Quantities are 0 to 4: the checks compare one quantity with another, and both sides of
each check occur. Four modules, one of them essential, and a limit of one let the count be below, at and above the limit.
Configurations start from rows under older names, from interrupted registrations and from databases of older releases, since only what
happened before can have left them. Two connections are the fewest a pool can have that two requests, or one and the product
repository, exhaust; `SalesProofs` says that no larger pool differs in what is kept. The permissions, doors and
dependencies of `PermissionCatalog` are all of them; a run asks for the ones whose dependencies cross modules.
Models stop when all requests are served (`CHECK_DEADLOCK FALSE`): clients simply send no more.

**Fairness.** `FairSpec` in Inventory and Fulfilment assumes weak fairness of each request's steps: Node.js
resumes every continuation whose await has settled, PostgreSQL hands a released lock on and aborts a
transaction in a deadlock. Clients need not send anything, and no failure is needed. Both models reach
deadlocks, so the liveness properties hold only because PostgreSQL breaks them; a handler that forgot its rollback
(the mutants `RollbackForgotten`) would leave others waiting for good. `FairSpec` in Sales assumes strong fairness: a connection may
be free, taken by others and free again, and pg-pool serves those who wait in the order they came, so nobody is passed over
for ever. `Fairness` in Seeding is weak fairness of booting and seeding: `restart: unless-stopped`
(`docker-compose.stack.yml:47`) brings a stopped container back, and a seed that can go on does.

**Mutants.** The operators whose comments call them mutants or slips (`LacksOffByOne`, `AfterWriteEagerly`,
`TenantGuardLenient` and so on) are plausible bugs; each is put in the place of the definition after it to see a
property fail. No specification uses them.

## 5. Proofs

Every property of the runs that is an invariant or an action property is proved, but for Seeding's and those at the end of this section. The
modules with proofs extend the component's module and TLAPS; their theorems hold for every value of the constants that meets
the component's named assumptions, which TLC evaluates for the runs' values. Each inductive invariant was checked by TLC on the run's instance
before it was proved.

`InventoryProofs` proves five invariants of `Spec` for every set of requests, items, vehicles, row ids and request
bodies, from `RowAssumption` (initial quantities are natural, rows are about cells), `BodyAssumption` (a transfer moves at
least one unit, only orders have several lines) and, for the index, `IndexAssumption` (the rows there are at first have no twins):

- `InventoryTypeCorrect`: `TypeOK`, with the shape of a request's memory, is inductive by itself. The lemmas about
  rollback, entities taken into memory, saving and committing follow the helpers the actions are built from.
- `InventoryStockNonNegative`: inductive only together with `PendingNonNegative`: the new quantity of every entity
  that waits to be saved is not negative. The source's check guarantees it when the entity is taken into memory, and saves
  publish it as it is. That is why stale reads oversell and yet never show a negative quantity.
- `InventoryLedgerExplainsStock`: inductive together with `LocksExclusive` (no two transactions have written the same
  row) and `MovesExplainWrites` (in a transaction that saved a row only over the value it had read, the private quantity is the committed
  one plus the private movements). Locks matter: without them two commits could publish both movements
  and one quantity.
- `InventoryOneRowPerVariant`: inductive together with `IndexHeld`. A transaction's inserts are apart from the committed rows, from each
  other and from those of every other open transaction (`TwinsApart`), because an insert waits for the uncommitted twin of another
  and its own is found by the lookup before a new row is made.
- `InventorySerialDoesNotDrift`: as long as requests were served one at a time, the entities of the open one say what its
  transaction sees (`Serial`, `Current`), so that a save writes the quantity its movement is about; a transfer from a place to itself is excepted.

`FulfilmentProofs` proves the five invariants of `Fulfilment`, for any workers, requests, orders and deliveries. `Typed` and `Formed`
say what is in the tables and what a worker plans and holds.

- `DeliveryIsUnique`: inductive with `Locked`. What each transaction *sees* has one delivery per order (`Unique`), and two transactions hold
  different rows and name different orders (`Apart`), so that either may commit first.
- `RevenueIsEarned`: inductive with `Earned`. Credits and the completions still to be announced are together no more than the completions that were
  committed.
- `RevertsNeedOverlap`, `RoutesAreAccompanied`: inductive with `Serial`, what the only request can rely on: its entity is the
  row, its plan cuts no delivery off and sends an order on its way only with one. Nothing of it holds once two requests overlapped.

`ModuleActivationProofs` proves, for any workers, aliases, tables, limits and requests, with failures:

- `TypeCorrect`, and `RecordsAreKept`, the action property that a module with a record keeps one. The invariant says that the record a
  request loaded is still the one a merge prefers, whatever the others have done since, and that no request removes
  what another is about to save (`Merging`).
- `PlanIsExceededByFew`: modules that are on, together with those of requests that are past their count or found the module on
  (`Potential`), are at most the limit and one less than there are workers (`Bounded`); each request is counted once, which needs cardinalities and a finite set of workers.
- `CatalogIsKept`, the refinement: with one worker and without failures the specification implements `ModuleCatalog`, each
  step a stutter but the one that answers. `Follows` relates every await of the handlers to what the catalogue will have done. With two workers or with
  failures it is false, and meant to be: the plan may be exceeded, and a merge may stop half-way.

`AccessProofs` proves the six invariants of `Access` for any users, roles, requests and starting points. Facts about the data come first: every
permission of the seed lists only permissions that list none themselves (so that one level of dependencies closes a set), and every door names a
permission of the module its controller requires. The invariant has the rows that refer to rows, what a lookup has found so far (`Client`),
and that the bootstrapped administrator is the oldest of the users that have not been put back (`Oldest`). `ChangesHold` has an invariant
of its own on top (`PInv`): what was promised is claimed by no busy request (`Unclaimed`), two busy requests about one row are both noted as
contested (`Disputes`), and as long as a request is not contested, what it wrote stays and what it read is as it was (`Progress`).

`AccountsProofs` proves `TypeOK` and the four properties of `Accounts`, for any companies, e-mails, requests and interruptions. Rows are never
deleted, so that what a request has found or made stays (`Holds`); what it has not found stays away only as long as nobody else is
about the same thing, which is what `raced` notes (`Unmet`, `Apart`). Every company without an administrator belongs to a registration
that is about to make him or has a cause (`Owned`). `Footprint` says once what a statement of one request can do to the others.

`CatalogueProofs` proves the invariants of `Catalogue` for any requests, products, categories and jobs, all requests at a time. The promises
of a request start at the statement that makes them (`Whole`, `Held`, `Filed`, `Gone`) and are followed through every later statement of
others. A save brings back what was loaded, so that the invariant also speaks of what a request has loaded and not saved yet (`SeenHeld`,
`SeenGone`): what is older in it than an answered request's value means that the two overlapped, for they were served at the same time (`Timed`). A
request that overlaps nobody finds the rows as it left them (`Quiet`), hence `FailuresAreExplained`. `Step` is what any statement may do, table
by table; each action is shown to be one, and each part of the invariant to survive one.

`SalesProofs` proves two invariants of `Spec` for every pool, set of requests, orders and deliveries, and any number of failures and
restarts, from `SalesAssumption`:

- `PoolIsRespected`: `TypeOK`, the connections in use are those of requests between connect and their answer and never exceed the
  pool. It is inductive with `Typed` and `Errands`: past the look at the products a request's order names none that is
  missing, and only a completion updates a delivery; without it, an order of unknown products might be about to commit.
- `CommitsAccountedFor`: an equation between counters and the requests that are past their commit. Each step moves one request
  into that set, out of it, or within it (`OneMoves`, `GoesOn`, `Left`, `LeavesEarly`, `LeavesLate`), and changes
  the counters by as much; a restart empties the set into `missed`, which takes a failure or a restart (`CausesStay`). Cardinalities need `Clients` to be finite.

`GatewayProofs` proves all four invariants of its run for every set of clients, companies and modules, from `GatewayAssumption`:
`ContextIsTheTokens`, `CompaniesAreKeptApart`, `GuardsHold`, `RegistrationsGetTheirUser`. None of them is inductive: `Placed` adds what
the context is worth before and behind the tenant guard, in the storefront and in `register`, `Formed` what a token can say, and `Noted` that
whatever a company is entitled to at a moment is noted for its requests in flight, so that a guard's answer
stays on record when the company changes afterwards. `Quiet` and `Loud` say once for all actions why other requests are not disturbed.

**What the proofs changed in the models.** An invariant that could not be made inductive was, three times, a flaw of the model or of the
property, at sizes the runs do not reach. `RefusalsLeaveNothing` was false when a driver is made of a user of another company
while that user's `registerDriver` runs: the e-mail of that user is now among the things two requests may share. In Access an id that a younger user was given after
a removal made him the first one; an id comes back only with its user. In Catalogue a client could file a product under a category that was never there.

**Model-checked only.** Liveness and everything that needs fairness (`RequestsFinish` in Inventory, Fulfilment and Sales, and
`SeedCompletes` in Seeding): the provers do not treat ENABLED. All of Seeding: its program is walked by position, and its proof is planned (2). TLC's
runs use finite instances of the same modules and replace no definition; `MCSpec` of MCAccess is `Spec` with fewer requests to choose from in each company. `TypeOK` of Access, Accounts and Catalogue says that the keys of the schema
hold; it is proved, and left out of the runs, which spend their properties on the handlers.

## 6. Not modelled

`PROJECT.json` lists every part with its status. Vehicles, and transactions of the financial
module, are loaded and saved by handlers that never ask what the status was: a cancelled transaction may be approved, the later save wins, and the
code says nothing to the contrary, so a model would only repeat the assignments. Organizations are next in the plan (2). An uploaded document is
stored first and its row inserted then; removal leaves the file, and nothing promises otherwise. Reports, plans and KPIs are queries. Wording,
dates, addresses, prices and images are left out because no property tells them apart. Passwords, tokens, reset tokens and rate limits are library
code. Of the migrations the models use the constraints. Orders' totals and numbers are arithmetic on prices and the clock. A client's
retry of a request whose answer was an error is a new request in the models.
