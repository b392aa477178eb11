------------------------------- MODULE Gateway -------------------------------
(***************************************************************************)
(* The way of a request to its handler and to the rows of its company:     *)
(* the middleware that begins its context, the global guards, the guards   *)
(* of the controllers, the repository and the subscriber that read the     *)
(* context (src/common), and register, which sets it (auth.service.ts).    *)
(*                                                                         *)
(* Nest runs the global guards before the controllers', so billing and     *)
(* onboarding are looked up for the company the header or the URL names:   *)
(* the token is not read yet.  The permission guard, which comes last, is  *)
(* in Access.                                                              *)
(***************************************************************************)
EXTENDS Naturals, FiniteSets

CONSTANTS
  Clients,      (* Requests served at the same time.                       *)
  Companies,
  NewCompany,   (* One of them, which is yet to be registered.             *)
  Modules,      (* The modules some routes require.                        *)
  None,
  MaxRequests   (* Bounds the requests ever begun.                         *)

ASSUME GatewayAssumption ==
  /\ NewCompany \in Companies /\ None \notin Companies \cup Modules
  /\ {"order_management", "ecommerce"} \subseteq Modules /\ MaxRequests \in Nat

Storefront == {"shop", "checkout"}
Routes == Storefront \cup
  {"register", "me", "onboarding", "activate", "deactivate", "orders", "vehicles", "myTenants"}

\* What the decorators of the routes say.
Public == Storefront
SkipBillingCheck == {"register", "me", "onboarding"}
SkipOnboardingCheck == {"register", "me", "onboarding"}
JwtAuth == Routes \ (Public \cup {"register"})
TenantGuarded == JwtAuth \ {"me", "myTenants"}

\* A slip: the decorator is set on the whole controller.
AllowDuringOnboardingAll == {"activate", "deactivate"}

AllowDuringOnboarding == {"activate"}

\* The module of tenant-modules is essential and always on, and vehicles require one that
\* is left out here.
RequiresModule(r) == CASE r = "shop" -> "ecommerce"
                       [] r \in {"orders", "checkout"} -> "order_management"
                       [] OTHER -> None

VARIABLES
  companies,    (* Companies that exist,                                   *)
  users,        (* and the ones that have a user.                          *)
  barred,       (* The ones suspended, or past the end of their trial;     *)
  onboarded, on, (* the ones on board, and the modules that are on.        *)
  rows,         (* Rows of orders, customers, products and vehicles: the   *)
                (* company a row carries, and the one whose request wrote  *)
                (* it.                                                     *)
  pc, req,      (* Where a request stands, and what it says.               *)
  ctx,          (* TENANT_ID of its context.                               *)
  was,          (* History: what its company was entitled to meanwhile.    *)
  begun

company == <<companies, users, barred, onboarded, on>>
local   == <<pc, req, ctx>>
vars    == <<company, rows, local, was, begun>>

Requests ==
  [route : Routes, token : Companies \cup {None}, header : Companies \cup {None},
   url : Companies \cup {None}]
Idle == [route |-> None, token |-> None, header |-> None, url |-> None]
Busy(c) == pc[c] # "idle"

\* The company a request works for; and a storefront's that comes with the header of
\* another.
Own(q) == IF q.route \in Storefront THEN q.url ELSE q.token

Misled(q) == q.route \in Storefront /\ q.header \notin {q.url, None}

\* What a company has at the moment that some route asks for.
Entitled(t) ==
  (IF t \notin barred THEN {"paying"} ELSE {})
  \cup (IF t \in onboarded THEN {"onboarded"} ELSE {})
  \cup {m \in Modules : t \in companies /\ m \in on[t]}

\* A change of a company is noted for the requests in flight.
Note == was' = [c \in Clients |-> was[c] \cup Entitled(Own(req[c]))']

-----------------------------------------------------------------------------

Init ==
  /\ companies = Companies \ {NewCompany}
  /\ users = companies
  /\ barred = {} /\ onboarded \in {{}, companies}
  /\ on = [t \in Companies |-> Modules]
  /\ rows = {[company |-> t, by |-> t] : t \in companies}
  /\ pc = [c \in Clients |-> "idle"]
  /\ req = [c \in Clients |-> Idle]
  /\ ctx = [c \in Clients |-> None]
  /\ was = [c \in Clients |-> {}]
  /\ begun = 0

\* The middleware runs before anything has read the token.
TenantContext(q) == IF q.header # None THEN q.header ELSE q.url

\* Whatever the route, a browser may still send the header of another company.
Begin(c) ==
  /\ ~Busy(c) /\ begun < MaxRequests
  /\ \E q \in Requests :
       /\ q.token \in companies \cup {None}
       /\ q.route \notin JwtAuth => q.token = None
       /\ IF q.route \in Storefront
          THEN q.url # None
          ELSE q.url = IF q.route = "register" THEN NewCompany ELSE None
       /\ req' = [req EXCEPT ![c] = q]
       /\ ctx' = [ctx EXCEPT ![c] = IF q.route = "register" THEN q.header ELSE TenantContext(q)]
       /\ was' = [was EXCEPT ![c] = Entitled(Own(q))]
  /\ pc' = [pc EXCEPT ![c] = "billing"]
  /\ begun' = begun + 1
  /\ UNCHANGED <<company, rows>>

Goto(c, l) == pc' = [pc EXCEPT ![c] = l] /\ UNCHANGED <<req, ctx>>
Leave(c) ==
  /\ pc' = [pc EXCEPT ![c] = "idle"]
  /\ req' = [req EXCEPT ![c] = Idle]
  /\ ctx' = [ctx EXCEPT ![c] = None]

-----------------------------------------------------------------------------
(* The guards                                                              *)

Pass(c, refused, next) ==
  /\ IF refused THEN Leave(c) ELSE Goto(c, next)
  /\ UNCHANGED <<company, rows, was, begun>>

\* 403 for a suspended company, 402 when the trial is over; no context, no check.
Billing(c) ==
  /\ pc[c] = "billing"
  /\ Pass(c, /\ req[c].route \notin SkipBillingCheck \cup Public
             /\ ctx[c] \in companies \cap barred, "onboarding")

Onboarding(c) ==
  /\ pc[c] = "onboarding"
  /\ Pass(c, /\ req[c].route \notin SkipOnboardingCheck \cup AllowDuringOnboarding \cup Public
             /\ ctx[c] \in companies \ onboarded, "token")

\* A slip: the guard leaves a context alone that names a company already.
TenantGuardLenient(c) ==
  IF req[c].route \in TenantGuarded /\ ctx[c] = None THEN req[c].token ELSE ctx[c]

\* The tenant guard puts the token's company into the context.
TenantGuard(c) == IF req[c].route \in TenantGuarded THEN req[c].token ELSE ctx[c]

\* JwtAuthGuard and TenantGuard, without an await between them.
Token(c) ==
  /\ pc[c] = "token"
  /\ IF req[c].route \in JwtAuth /\ req[c].token = None THEN Leave(c)
     ELSE /\ pc' = [pc EXCEPT ![c] = "module"]
          /\ ctx' = [ctx EXCEPT ![c] = TenantGuard(c)]
          /\ UNCHANGED req
  /\ UNCHANGED <<company, rows, was, begun>>

ModuleIsOff(t, m) == t \notin companies \/ m \notin on[t]

\* The module is looked up for the context's company.
ModuleGuard(c) ==
  /\ pc[c] = "module"
  /\ LET m == RequiresModule(req[c].route) IN
     Pass(c, m # None /\ ModuleIsOff(ctx[c], m), "handler")

-----------------------------------------------------------------------------
(* The handlers and the rows they touch                                    *)

At(c, r) == pc[c] = "handler" /\ req[c].route = r

\* Whose rows a service gets for a company (where) from TenantRepository: find puts the
\* context's company in its place.
Find(c, where) == {x.company : x \in rows} \cap {IF ctx[c] # None THEN ctx[c] ELSE where}

\* A slip: the list leaves its company to the repository.
BuildInContext(c, where) == Find(c, None)

\* createQueryBuilder adds the context's company as a condition, which the list's own
\* where() takes away again before the list names its company.
Build(c, where) == {x.company : x \in rows} \cap {where}

\* An inline customer is looked for only where the URL's company has its shop open.
ShopOpen(c) == ~ModuleIsOff(req[c].url, "ecommerce")

\* Vehicles, like most records, are read by a plain repository; me and my-tenants
\* show nothing that belongs to one company only.
Reads(c) ==
  CASE req[c].route = "orders" -> Find(c, req[c].token)
    [] req[c].route = "vehicles" -> {x.company : x \in rows} \cap {req[c].token}
    [] req[c].route = "shop" -> Build(c, req[c].url)
    [] req[c].route = "checkout" /\ ShopOpen(c) -> Find(c, req[c].url)
    [] OTHER -> {}

\* The subscriber refuses an insert for another company than the context's.
BeforeInsert(t, context) == t = context \/ context = None

\* POST /orders, for the token's company.
CreateOrder(c) ==
  /\ At(c, "orders")
  /\ rows' = IF BeforeInsert(req[c].token, ctx[c])
             THEN rows \cup {[company |-> req[c].token, by |-> Own(req[c])]} ELSE rows
  /\ Leave(c)
  /\ UNCHANGED <<company, was, begun>>

\* The customer is found by his e-mail (Reads), or made for the company of the URL; a
\* refusal of that is swallowed.  The order is made in the context of the URL's company,
\* and refused for want of its createdById.
Checkout(c) ==
  /\ At(c, "checkout")
  /\ \E found \in {FALSE, Reads(c) # {}} :
       rows' = IF ShopOpen(c) /\ ~found /\ BeforeInsert(req[c].url, ctx[c])
               THEN rows \cup {[company |-> req[c].url, by |-> Own(req[c])]} ELSE rows
  /\ Leave(c)
  /\ UNCHANGED <<company, was, begun>>

Read(c) ==
  /\ \E r \in {"orders", "vehicles", "shop", "me", "myTenants"} : At(c, r)
  /\ Leave(c)
  /\ UNCHANGED <<company, rows, was, begun>>

CompleteOnboarding(c) ==
  /\ At(c, "onboarding")
  /\ onboarded' = onboarded \cup {req[c].token}
  /\ Leave(c)
  /\ UNCHANGED <<companies, users, barred, on, rows, begun>>
  /\ Note

SwitchModule(c) ==
  /\ \E m \in Modules :
       \/ At(c, "activate") /\ on' = [on EXCEPT ![req[c].token] = @ \cup {m}]
       \/ At(c, "deactivate") /\ on' = [on EXCEPT ![req[c].token] = @ \ {m}]
  /\ Leave(c)
  /\ UNCHANGED <<companies, users, barred, onboarded, rows, begun>>
  /\ Note

\* A slip: register leaves the context as the middleware made it.
RegisteredInNothing(c, t) == ctx

\* register puts the new company into the context, before it makes the user.
RegisteredIn(c, t) == [ctx EXCEPT ![c] = t]

Register(c) ==
  /\ At(c, "register")
  /\ IF req[c].url \in companies THEN Leave(c) /\ UNCHANGED companies
     ELSE /\ companies' = companies \cup {req[c].url}
          /\ ctx' = RegisteredIn(c, req[c].url)
          /\ pc' = [pc EXCEPT ![c] = "user"]
          /\ UNCHANGED req
  /\ UNCHANGED <<users, barred, onboarded, on, rows, begun>>
  /\ Note

CreateUser(c) ==
  /\ pc[c] = "user"
  /\ users' = IF BeforeInsert(req[c].url, ctx[c]) THEN users \cup {req[c].url} ELSE users
  /\ Leave(c)
  /\ UNCHANGED <<companies, barred, onboarded, on, rows, was, begun>>

-----------------------------------------------------------------------------

\* An operator suspends and reinstates, and trials end and are extended, whatever is
\* going on.
Suspend ==
  /\ \E t \in companies : barred' \in {barred \cup {t}, barred \ {t}}
  /\ UNCHANGED <<companies, users, onboarded, on, rows, local, begun>>
  /\ Note

Next ==
  \/ \E c \in Clients :
       \/ Begin(c) \/ Billing(c) \/ Onboarding(c) \/ Token(c) \/ ModuleGuard(c)
       \/ CreateOrder(c) \/ Checkout(c) \/ Read(c)
       \/ CompleteOnboarding(c) \/ SwitchModule(c) \/ Register(c) \/ CreateUser(c)
  \/ Suspend
Spec == Init /\ [][Next]_vars

-----------------------------------------------------------------------------
(* Properties                                                              *)

\* Only companies that exist have users, rows and a state, and behind the tenant guard
\* the context is the token's company.
TypeOK ==
  /\ users \cup barred \cup onboarded \subseteq companies
  /\ \A x \in rows : {x.company, x.by} \subseteq companies
  /\ \A c \in Clients : pc[c] = "handler" /\ req[c].route \in TenantGuarded =>
       ctx[c] = req[c].token

\* Rows are written for the company of the token, and in the storefront for the one of the
\* URL, whatever company a stale header names, and read for it, but for one: a checkout
\* looks for its customer among those of the company that the header names.
RequestsKeepToTheirCompany ==
  /\ \A x \in rows : x.company = x.by
  /\ \A c \in Clients : pc[c] = "handler" =>
       LET q == req[c] IN
       Reads(c) \subseteq {IF q.route = "checkout" /\ Misled(q) THEN q.header ELSE Own(q)}

\* A request whose header names its company gets to its handler only if the company paid
\* and was on board, where the route asks for it, at some moment since the request came
\* in; and whatever the header says, only with the module the route requires, but in the
\* storefront, where a header of another company has the guard ask for that one's.
HandlersAreEntitled ==
  \A c \in Clients :
    pc[c] = "handler" =>
      LET r == req[c].route  named == req[c].header = Own(req[c]) /\ r \notin Public IN
      /\ named /\ r \notin SkipBillingCheck => "paying" \in was[c]
      /\ named /\ r \in JwtAuth \ (SkipOnboardingCheck \cup {"activate"}) => "onboarded" \in was[c]
      /\ ~Misled(req[c]) => RequiresModule(r) \in was[c] \cup {None}

\* The storefront shows, and looks into, what belongs to the company of the URL and only
\* while it is open: what a header of another company breaks.
StorefrontKeepsToItsUrl ==
  \A c \in Clients :
    pc[c] = "handler" /\ req[c].route \in Storefront =>
      Reads(c) \subseteq {req[c].url} /\ RequiresModule(req[c].route) \in was[c]

\* A registration that comes with the header of another company still ends with the new
\* company's user: it does not leave behind a company without one.
NewCompaniesGetTheirUser ==
  \A t \in companies \ users : \E c \in Clients : pc[c] = "user" /\ req[c].url = t

=============================================================================
