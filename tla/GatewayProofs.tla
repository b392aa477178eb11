---------------------------- MODULE GatewayProofs ----------------------------
(***************************************************************************)
(* Requests keep to their company, for any companies, clients and modules. *)
(*                                                                         *)
(* The inductive invariant says what the context is worth at each stage:   *)
(* the header until the token is read, and in the storefront for good, the *)
(* token's company behind the tenant guard, the new company in register;   *)
(* and that what its company was entitled to is noted for every request in *)
(* flight.                                                                 *)
(***************************************************************************)
EXTENDS Gateway, TLAPS

Stages == {"idle", "billing", "onboarding", "token", "module", "handler", "user"}
Rights == {"paying", "onboarded"} \cup Modules

\* The types that TypeOK leaves to the shape of the actions.
Typed ==
  /\ companies \subseteq Companies
  /\ on \in [Companies -> SUBSET Modules]
  /\ pc \in [Clients -> Stages]
  /\ req \in [Clients -> Requests \cup {Idle}]
  /\ ctx \in [Clients -> Companies \cup {None}]
  /\ was \in [Clients -> SUBSET Rights]

\* What the middleware and the token's signature make sure of.
Formed(c) ==
  /\ req[c] \in Requests
  /\ req[c].token \in companies \cup {None}
  /\ req[c].route \notin JwtAuth => req[c].token = None
  /\ req[c].route \in Storefront => req[c].url # None
  /\ req[c].route = "register" => req[c].url # None

\* What the context is worth.
Placed(c) ==
  /\ req[c].route \in Storefront => ctx[c] = TenantContext(req[c])
  /\ pc[c] \in {"billing", "onboarding", "token"} /\ req[c].header # None => ctx[c] = req[c].header
  /\ pc[c] \in {"module", "handler"} /\ req[c].route \in JwtAuth => req[c].token # None
  /\ pc[c] \in {"module", "handler"} /\ req[c].route \in TenantGuarded => ctx[c] = req[c].token
  /\ pc[c] = "user" => req[c].route = "register" /\ ctx[c] = req[c].url /\ ctx[c] \in companies

\* The header names the company that the token does.
Named(c) == req[c].header = req[c].token /\ req[c].token # None

\* What the guards that are passed looked up, and that nothing is missed meanwhile.
Noted(c) ==
  /\ Entitled(Own(req[c])) \subseteq was[c]
  /\ pc[c] \in {"onboarding", "token", "module", "handler"} /\ Named(c)
       /\ req[c].route \notin SkipBillingCheck \cup Public => "paying" \in was[c]
  /\ pc[c] \in {"token", "module", "handler"} /\ Named(c)
       /\ req[c].route \notin SkipOnboardingCheck \cup AllowDuringOnboarding \cup Public =>
         "onboarded" \in was[c]
  /\ pc[c] = "handler" /\ ~Misled(req[c]) => RequiresModule(req[c].route) \in was[c] \cup {None}

Good(c) == Busy(c) => Formed(c) /\ Placed(c) /\ Noted(c)

\* The invariant without what it says of the requests.
Settled ==
  /\ Typed
  /\ users \cup barred \cup onboarded \subseteq companies
  /\ \A x \in rows : x.company \in companies /\ x.company = x.by

IInv == Settled /\ NewCompaniesGetTheirUser /\ \A c \in Clients : Good(c)

-----------------------------------------------------------------------------
(* Lemmas                                                                  *)

\* A storefront request that is not misled has the context of its company.
LEMMA RightContext ==
  ASSUME NEW c \in Clients, Placed(c), req[c].route \in Storefront, ~Misled(req[c])
  PROVE  ctx[c] = req[c].url
BY DEF Placed, Misled, TenantContext

USE DEF Storefront, Public, JwtAuth, TenantGuarded, Routes, SkipBillingCheck,
        SkipOnboardingCheck, AllowDuringOnboarding

\* What a request finds at its handler follows from the invariant.
LEMMA Meaning == IInv => TypeOK /\ RequestsKeepToTheirCompany /\ HandlersAreEntitled
<1> SUFFICES ASSUME IInv PROVE TypeOK /\ RequestsKeepToTheirCompany /\ HandlersAreEntitled
  OBVIOUS
<1>1. TypeOK
  BY DEF IInv, Settled, Good, Busy, Placed, TypeOK
<1>2. RequestsKeepToTheirCompany
  <2>1. \A x \in rows : x.company = x.by
    BY DEF IInv, Settled
  <2>2. ASSUME NEW c \in Clients, pc[c] = "handler"
        PROVE  Reads(c) \subseteq {IF req[c].route = "checkout" /\ Misled(req[c])
                                  THEN req[c].header ELSE Own(req[c])}
    <3>1. Formed(c) /\ Placed(c)
      BY <2>2 DEF IInv, Good, Busy
    <3>2. CASE req[c].route = "orders"
      BY <2>2, <3>1, <3>2 DEF Reads, Find, Own, Placed, Formed
    <3>3. CASE req[c].route = "vehicles"
      BY <3>3 DEF Reads, Own
    <3>4. CASE req[c].route = "shop"
      BY <3>4 DEF Reads, Build, Own
    <3>5. CASE req[c].route = "checkout"
      <4>1. ctx[c] = TenantContext(req[c]) /\ req[c].url # None
        BY <3>1, <3>5 DEF Placed, Formed
      <4>2. Reads(c) \subseteq {ctx[c]}
        BY <3>5, <4>1 DEF Reads, Find, TenantContext
      <4> QED BY <3>5, <4>1, <4>2 DEF TenantContext, Misled, Own
    <3>6. CASE req[c].route \notin {"orders", "vehicles", "shop", "checkout"}
      BY <3>6 DEF Reads
    <3> QED BY <3>2, <3>3, <3>4, <3>5, <3>6
  <2> QED BY <2>1, <2>2 DEF RequestsKeepToTheirCompany
<1>3. HandlersAreEntitled
  <2> SUFFICES ASSUME NEW c \in Clients, pc[c] = "handler"
               PROVE  /\ req[c].header = Own(req[c]) /\ req[c].route \notin Public
                           /\ req[c].route \notin SkipBillingCheck => "paying" \in was[c]
                      /\ req[c].header = Own(req[c]) /\ req[c].route \notin Public
                           /\ req[c].route \in JwtAuth \ (SkipOnboardingCheck \cup {"activate"}) =>
                             "onboarded" \in was[c]
                      /\ ~Misled(req[c]) => RequiresModule(req[c].route) \in was[c] \cup {None}
    BY DEF HandlersAreEntitled
  <2>1. Formed(c) /\ Placed(c) /\ Noted(c)
    BY DEF IInv, Good, Busy
  <2>2. req[c].route \in Routes
    BY <2>1 DEF Formed, Requests
  <2> QED BY <2>1, <2>2 DEF Placed, Noted, Named, Own
<1> QED BY <1>1, <1>2, <1>3

\* A request that is not at work in a step keeps what is known of it, as long as
\* companies stay and changes of them are noted.
LEMMA Bystander ==
  ASSUME NEW d \in Clients, Good(d), companies \subseteq companies',
         pc'[d] = pc[d], req'[d] = req[d], ctx'[d] = ctx[d],
         was[d] \subseteq was'[d], Entitled(Own(req[d]))' \subseteq was'[d]
  PROVE  Good(d)'
<1> SUFFICES ASSUME Busy(d) PROVE (Formed(d) /\ Placed(d) /\ Noted(d))'
  BY DEF Good, Busy
<1>1. Formed(d) /\ Placed(d) /\ Noted(d)
  BY DEF Good
<1>2. Formed(d)'
  BY <1>1 DEF Formed
<1>3. Placed(d)'
  BY <1>1 DEF Placed
<1>4. Noted(d)'
  <2>1. was'[d] \cup {None} = was'[d] \cup {None} /\ Named(d)' = Named(d)
    BY DEF Named
  <2> QED BY <1>1, <2>1 DEF Noted, Own
<1> QED BY <1>2, <1>3, <1>4

\* Rights depend on the companies' state alone.
LEMMA SameRights ==
  ASSUME UNCHANGED <<companies, barred, onboarded, on>>, NEW t
  PROVE  Entitled(t)' = Entitled(t)
BY DEF Entitled

\* Rights are what they are typed as.
LEMMA RightsType == ASSUME NEW t PROVE Entitled(t) \subseteq Rights
BY DEF Entitled, Rights

-----------------------------------------------------------------------------
(* Steps of one request                                                    *)

\* Only c moves.
Alone(c) ==
  /\ \A d \in Clients \ {c} : pc'[d] = pc[d] /\ req'[d] = req[d] /\ ctx'[d] = ctx[d]
  /\ pc' \in [Clients -> Stages]
  /\ req' \in [Clients -> Requests \cup {Idle}]
  /\ ctx' \in [Clients -> Companies \cup {None}]

LEMMA GotoMoves ==
  ASSUME Typed, NEW c \in Clients, NEW l \in Stages, Goto(c, l)
  PROVE  Alone(c) /\ pc'[c] = l
BY DEF Typed, Goto, Alone

LEMMA LeaveMoves ==
  ASSUME Typed, NEW c \in Clients, Leave(c)
  PROVE  Alone(c) /\ pc'[c] = "idle"
BY DEF Typed, Leave, Alone, Stages

\* A step that changes nothing about the companies.
LEMMA Quiet ==
  ASSUME NEW c \in Clients, \A d \in Clients : Good(d), Alone(c),
         UNCHANGED <<companies, barred, onboarded, on>>,
         \A d \in Clients \ {c} : was'[d] = was[d], Good(c)'
  PROVE  \A d \in Clients : Good(d)'
<1> SUFFICES ASSUME NEW d \in Clients \ {c} PROVE Good(d)'
  OBVIOUS
<1>1. pc'[d] = pc[d] /\ req'[d] = req[d] /\ ctx'[d] = ctx[d]
  BY DEF Alone
<1>2. CASE Busy(d)
  <2>1. Entitled(Own(req[d])) \subseteq was[d]
    BY <1>2 DEF Good, Noted
  <2>2. Entitled(Own(req[d]))' = Entitled(Own(req[d]))
    BY <1>1 DEF Entitled, Own
  <2> QED BY <1>1, <2>1, <2>2, Bystander
<1>3. CASE ~Busy(d)
  BY <1>1, <1>3 DEF Good, Busy
<1> QED BY <1>2, <1>3

\* A step that changes companies, and has it noted.
LEMMA Loud ==
  ASSUME NEW c \in Clients, \A d \in Clients : Good(d), Alone(c),
         companies \subseteq companies', Note, Good(c)'
  PROVE  \A d \in Clients : Good(d)'
<1> SUFFICES ASSUME NEW d \in Clients \ {c} PROVE Good(d)'
  OBVIOUS
<1>1. pc'[d] = pc[d] /\ req'[d] = req[d] /\ ctx'[d] = ctx[d]
  BY DEF Alone
<1>2. was'[d] = was[d] \cup Entitled(Own(req[d]))'
  BY DEF Note
<1> QED BY <1>1, <1>2, Bystander

LEMMA NoteType == ASSUME Typed, Note PROVE was' \in [Clients -> SUBSET Rights]
<1>1. \A d \in Clients : Entitled(Own(req[d]))' \subseteq Rights
  BY DEF Entitled, Rights
<1> QED BY <1>1 DEF Typed, Note

\* Nobody stops waiting for his user.
LEMMA Waiting ==
  ASSUME NewCompaniesGetTheirUser, NEW c \in Clients, Alone(c), pc[c] # "user",
         UNCHANGED <<companies, users>>
  PROVE  NewCompaniesGetTheirUser'
BY DEF NewCompaniesGetTheirUser, Alone

\* A step that is over after it, with nothing written.
LEMMA LeaveInv ==
  ASSUME IInv, NEW c \in Clients, Leave(c), pc[c] # "user", UNCHANGED <<company, rows, was>>
  PROVE  IInv'
<1>1. Alone(c) /\ pc'[c] = "idle"
  BY LeaveMoves DEF IInv, Settled
<1>2. Good(c)'
  BY <1>1 DEF Good, Busy
<1>3. \A d \in Clients : Good(d)'
  BY <1>1, <1>2, Quiet DEF IInv, company
<1>4. NewCompaniesGetTheirUser'
  BY <1>1, Waiting DEF IInv, company
<1>5. Settled'
  BY <1>1 DEF IInv, Settled, Typed, Alone, company
<1> QED BY <1>3, <1>4, <1>5 DEF IInv

\* A step that goes on to the next one, with nothing written.
LEMMA GotoInv ==
  ASSUME IInv, NEW c \in Clients, NEW l \in Stages, Goto(c, l), pc[c] # "user",
         UNCHANGED <<company, rows, was>>, Good(c)'
  PROVE  IInv'
<1>1. Alone(c)
  BY GotoMoves DEF IInv, Settled
<1>3. \A d \in Clients : Good(d)'
  BY <1>1, Quiet DEF IInv, company
<1>4. NewCompaniesGetTheirUser'
  BY <1>1, Waiting DEF IInv, company
<1>5. Settled'
  BY <1>1 DEF IInv, Settled, Typed, Alone, company
<1> QED BY <1>3, <1>4, <1>5 DEF IInv

LEMMA InitInv == Init => IInv
BY GatewayAssumption DEF Init, IInv, Settled, Typed, Good, Busy, NewCompaniesGetTheirUser, Stages

-----------------------------------------------------------------------------
(* One lemma per action                                                    *)

LEMMA BeginInv == ASSUME IInv, NEW c \in Clients, Begin(c) PROVE IInv'
<1> PICK q \in Requests :
      /\ q.token \in companies \cup {None}
      /\ q.route \notin JwtAuth => q.token = None
      /\ IF q.route \in Storefront
         THEN q.url # None
         ELSE q.url = IF q.route = "register" THEN NewCompany ELSE None
      /\ req' = [req EXCEPT ![c] = q]
      /\ ctx' = [ctx EXCEPT ![c] = IF q.route = "register" THEN q.header ELSE TenantContext(q)]
      /\ was' = [was EXCEPT ![c] = Entitled(Own(q))]
  BY DEF Begin
<1>1. pc' = [pc EXCEPT ![c] = "billing"] /\ ~Busy(c) /\ UNCHANGED <<company, rows>>
  BY DEF Begin
<1>2. Typed /\ NewCompany # None
  BY GatewayAssumption DEF IInv, Settled
<1>3. Alone(c)
  BY <1>1, <1>2 DEF Typed, Alone, Stages, Requests, TenantContext
<1>4. pc'[c] = "billing" /\ req'[c] = q /\ was'[c] = Entitled(Own(q))
      /\ ctx'[c] = IF q.route = "register" THEN q.header ELSE TenantContext(q)
  BY <1>1, <1>2 DEF Typed
<1>5. Good(c)'
  <2>1. Formed(c)'
    BY <1>1, <1>2, <1>4 DEF Formed, company
  <2>2. Placed(c)'
    BY <1>4 DEF Placed, TenantContext
  <2>3. Entitled(Own(q))' = Entitled(Own(q))
    BY <1>1 DEF Entitled, Own, company
  <2>4. Noted(c)'
    BY <1>4, <2>3 DEF Noted, Entitled, Own
  <2> QED BY <2>1, <2>2, <2>4 DEF Good
<1>6. \A d \in Clients : Good(d)'
  BY <1>1, <1>2, <1>3, <1>5, Quiet DEF IInv, Typed, company
<1>7. NewCompaniesGetTheirUser'
  BY <1>1, <1>3, Waiting DEF IInv, Busy, company
<1>8. Settled'
  <2>1. was' \in [Clients -> SUBSET Rights]
    BY <1>2, RightsType DEF Typed
  <2> QED BY <1>1, <1>3, <2>1 DEF IInv, Settled, Typed, Alone, company
<1> QED BY <1>6, <1>7, <1>8 DEF IInv

\* Whoever passes was entitled when the guard looked.
LEMMA BillingInv == ASSUME IInv, NEW c \in Clients, Billing(c) PROVE IInv'
<1>1. pc[c] = "billing" /\ UNCHANGED <<company, rows, was>>
  BY DEF Billing, Pass
<1>2. CASE Leave(c)
  BY <1>1, <1>2, LeaveInv
<1>3. CASE /\ Goto(c, "onboarding")
           /\ ~(req[c].route \notin SkipBillingCheck \cup Public /\ ctx[c] \in companies \cap barred)
  <2>1. Formed(c) /\ Placed(c) /\ Noted(c) /\ Typed
    BY <1>1 DEF IInv, Settled, Good, Busy
  <2>2. pc'[c] = "onboarding" /\ UNCHANGED <<req, ctx, was, companies>>
    BY <1>1, <1>3, <2>1 DEF Goto, Typed, company
  <2>3. Named(c) /\ req[c].route \notin SkipBillingCheck \cup Public => "paying" \in was[c]
    BY <1>1, <1>3, <2>1 DEF Named, Formed, Placed, Noted, Entitled, Own
  <2>4. Formed(c)' /\ Placed(c)'
    BY <1>1, <2>1, <2>2 DEF Formed, Placed
  <2>5. Noted(c)'
    BY <1>1, <2>1, <2>2, <2>3, SameRights DEF Noted, Named, Entitled, Own, company
  <2> QED BY <1>1, <1>3, <2>4, <2>5, GotoInv DEF Good, Stages
<1> QED BY <1>2, <1>3 DEF Billing, Pass

\* Likewise.
LEMMA OnboardingInv == ASSUME IInv, NEW c \in Clients, Onboarding(c) PROVE IInv'
<1>1. pc[c] = "onboarding" /\ UNCHANGED <<company, rows, was>>
  BY DEF Onboarding, Pass
<1>2. CASE Leave(c)
  BY <1>1, <1>2, LeaveInv
<1>3. CASE /\ Goto(c, "token")
           /\ ~(/\ req[c].route \notin SkipOnboardingCheck \cup AllowDuringOnboarding \cup Public
                /\ ctx[c] \in companies \ onboarded)
  <2>1. Formed(c) /\ Placed(c) /\ Noted(c) /\ Typed
    BY <1>1 DEF IInv, Settled, Good, Busy
  <2>2. pc'[c] = "token" /\ UNCHANGED <<req, ctx, was, companies>>
    BY <1>1, <1>3, <2>1 DEF Goto, Typed, company
  <2>3. Named(c) /\ req[c].route \notin SkipOnboardingCheck \cup AllowDuringOnboarding \cup Public
          => "onboarded" \in was[c]
    BY <1>1, <1>3, <2>1 DEF Named, Formed, Placed, Noted, Entitled, Own
  <2>4. Formed(c)' /\ Placed(c)'
    BY <1>1, <2>1, <2>2 DEF Formed, Placed
  <2>5. Noted(c)'
    BY <1>1, <2>1, <2>2, <2>3, SameRights DEF Noted, Named, Entitled, Own, company
  <2> QED BY <1>1, <1>3, <2>4, <2>5, GotoInv DEF Good, Stages
<1> QED BY <1>2, <1>3 DEF Onboarding, Pass

\* From here on the context is the token's company where the tenant guard stands.
LEMMA TokenInv == ASSUME IInv, NEW c \in Clients, Token(c) PROVE IInv'
<1>1. pc[c] = "token" /\ UNCHANGED <<company, rows, was>>
  BY DEF Token
<1>2. CASE Leave(c)
  BY <1>1, <1>2, LeaveInv
<1>3. CASE /\ ~(req[c].route \in JwtAuth /\ req[c].token = None)
           /\ pc' = [pc EXCEPT ![c] = "module"]
           /\ ctx' = [ctx EXCEPT ![c] = TenantGuard(c)]
           /\ UNCHANGED req
  <2>1. Formed(c) /\ Placed(c) /\ Noted(c) /\ Typed
    BY <1>1 DEF IInv, Settled, Good, Busy
  <2>2. TenantGuard(c) \in Companies \cup {None}
    BY <2>1 DEF TenantGuard, Formed, Requests, Typed
  <2>3. Alone(c)
    BY <1>3, <2>1, <2>2 DEF Alone, Typed, Stages
  <2>4. pc'[c] = "module" /\ ctx'[c] = TenantGuard(c) /\ UNCHANGED <<req, was, companies>>
    BY <1>1, <1>3, <2>1 DEF Typed, company
  <2>5. Formed(c)' /\ Placed(c)'
    BY <1>3, <2>1, <2>4 DEF Formed, Placed, TenantGuard
  <2>6. Noted(c)'
    BY <1>1, <2>1, <2>4, SameRights DEF Noted, Named, Entitled, Own, company
  <2>7. \A d \in Clients : Good(d)'
    BY <1>1, <2>3, <2>5, <2>6, Quiet DEF IInv, Good, company
  <2>8. NewCompaniesGetTheirUser'
    BY <1>1, <2>3, Waiting DEF IInv, company
  <2>9. Settled'
    BY <1>1, <2>3 DEF IInv, Settled, Typed, Alone, company
  <2> QED BY <2>7, <2>8, <2>9 DEF IInv
<1> QED BY <1>2, <1>3 DEF Token

\* The module was on for the request's own company: the context names it by now.
LEMMA ModuleGuardInv == ASSUME IInv, NEW c \in Clients, ModuleGuard(c) PROVE IInv'
<1>1. pc[c] = "module" /\ UNCHANGED <<company, rows, was>>
  BY DEF ModuleGuard, Pass
<1>2. CASE Leave(c)
  BY <1>1, <1>2, LeaveInv
<1>3. CASE /\ Goto(c, "handler")
           /\ ~(/\ RequiresModule(req[c].route) # None
                /\ ModuleIsOff(ctx[c], RequiresModule(req[c].route)))
  <2>1. Formed(c) /\ Placed(c) /\ Noted(c) /\ Typed
    BY <1>1 DEF IInv, Settled, Good, Busy
  <2>2. pc'[c] = "handler" /\ UNCHANGED <<req, ctx, was, companies>>
    BY <1>1, <1>3, <2>1 DEF Goto, Typed, company
  <2>3. ASSUME ~Misled(req[c]) PROVE RequiresModule(req[c].route) \in was[c] \cup {None}
    <3> DEFINE m == RequiresModule(req[c].route)
    <3>1. CASE req[c].route \in {"shop", "checkout", "orders"}
      <4>1. m \in Modules
        BY <3>1, GatewayAssumption DEF RequiresModule
      <4>2. Own(req[c]) = ctx[c]
        BY <1>1, <2>1, <2>3, <3>1, RightContext DEF Placed, Own
      <4>3. m = None \/ m \in Entitled(ctx[c])
        BY <1>3, <4>1 DEF ModuleIsOff, Entitled
      <4> QED BY <2>1, <4>2, <4>3 DEF Noted
    <3>2. CASE req[c].route \notin {"shop", "checkout", "orders"}
      BY <3>2 DEF RequiresModule
    <3> QED BY <3>1, <3>2
  <2>4. Formed(c)' /\ Placed(c)'
    BY <1>1, <2>1, <2>2 DEF Formed, Placed
  <2>5. Noted(c)'
    BY <1>1, <2>1, <2>2, <2>3, SameRights DEF Noted, Named, Entitled, Own, company
  <2> QED BY <1>1, <1>3, <2>4, <2>5, GotoInv DEF Good, Stages
<1> QED BY <1>2, <1>3 DEF ModuleGuard, Pass

\* Reads change nothing; an order is written for the token's company, and a customer for
\* the one of the URL.
LEMMA OrdersInv ==
  ASSUME IInv, NEW c \in Clients, CreateOrder(c) \/ Checkout(c) \/ Read(c) PROVE IInv'
<1>1. CASE Read(c)
  <2>1. pc[c] = "handler" /\ Leave(c) /\ UNCHANGED <<company, rows, was>>
    BY <1>1 DEF Read, At
  <2> QED BY <2>1, LeaveInv
<1>2. CASE CreateOrder(c) \/ Checkout(c)
  <2>1. /\ pc[c] = "handler" /\ req[c].route \in {"orders", "checkout"}
        /\ Leave(c) /\ UNCHANGED <<company, was>>
    BY <1>2 DEF CreateOrder, Checkout, At
  <2>2. Alone(c) /\ pc'[c] = "idle"
    BY <2>1, LeaveMoves DEF IInv, Settled
  <2>3. \A d \in Clients : Good(d)'
    <3>1. Good(c)'
      BY <2>2 DEF Good, Busy
    <3> QED BY <2>1, <2>2, <3>1, Quiet DEF IInv, company
  <2>4. NewCompaniesGetTheirUser'
    BY <2>1, <2>2, Waiting DEF IInv, company
  <2>5. \A x \in rows' : x.company \in companies /\ x.company = x.by
    <3>1. CASE CreateOrder(c)
      <4>1. req[c].token \in companies /\ Own(req[c]) = req[c].token
        BY <3>1, <2>1 DEF CreateOrder, At, IInv, Good, Busy, Formed, Placed, Own
      <4> QED BY <3>1, <4>1 DEF IInv, Settled, CreateOrder
    <3>2. CASE Checkout(c)
      <4>1. Own(req[c]) = req[c].url
        BY <3>2 DEF Checkout, At, Own
      <4>2. ShopOpen(c) => req[c].url \in companies
        BY DEF ShopOpen, ModuleIsOff
      <4> QED BY <3>2, <4>1, <4>2 DEF IInv, Settled, Checkout
    <3> QED BY <1>2, <3>1, <3>2
  <2>6. Settled'
    BY <2>1, <2>2, <2>5 DEF IInv, Settled, Typed, Alone, company
  <2> QED BY <2>3, <2>4, <2>6 DEF IInv
<1> QED BY <1>1, <1>2

\* What handlers change about the token's company is noted.
LEMMA CompanyInv ==
  ASSUME IInv, NEW c \in Clients, CompleteOnboarding(c) \/ SwitchModule(c) PROVE IInv'
<1>1. /\ pc[c] = "handler" /\ req[c].route \in TenantGuarded /\ Leave(c) /\ Note
      /\ UNCHANGED <<companies, users, barred, rows>>
  BY DEF CompleteOnboarding, SwitchModule, At
<1>2. req[c].token \in companies
  BY <1>1 DEF IInv, Good, Busy, Formed, Placed
<1>3. Alone(c) /\ pc'[c] = "idle"
  BY <1>1, LeaveMoves DEF IInv, Settled
<1>4. \A d \in Clients : Good(d)'
  <2>1. Good(c)'
    BY <1>3 DEF Good, Busy
  <2> QED BY <1>1, <1>3, <2>1, Loud DEF IInv
<1>5. NewCompaniesGetTheirUser'
  BY <1>1, <1>3, Waiting DEF IInv
<1>6. onboarded' \subseteq companies /\ on' \in [Companies -> SUBSET Modules]
  BY <1>2 DEF IInv, Settled, Typed, CompleteOnboarding, SwitchModule
<1>7. was' \in [Clients -> SUBSET Rights]
  BY <1>1, NoteType DEF IInv, Settled
<1>8. Settled'
  BY <1>1, <1>3, <1>6, <1>7 DEF IInv, Settled, Typed, Alone
<1> QED BY <1>4, <1>5, <1>8 DEF IInv

\* The new company's registration waits for its user, in the new company's context.
LEMMA RegisterInv == ASSUME IInv, NEW c \in Clients, Register(c) PROVE IInv'
<1> DEFINE t == req[c].url
<1>1. /\ pc[c] = "handler" /\ req[c].route = "register" /\ Note
      /\ UNCHANGED <<users, barred, onboarded, on, rows>>
  BY DEF Register, At
<1>2. Formed(c) /\ t \in Companies
  BY <1>1 DEF IInv, Good, Busy, Formed, Requests
<1>3. was' \in [Clients -> SUBSET Rights]
  BY <1>1, NoteType DEF IInv, Settled
<1>4. CASE Leave(c) /\ UNCHANGED companies
  <2>1. Alone(c) /\ pc'[c] = "idle"
    BY <1>4, LeaveMoves DEF IInv, Settled
  <2>2. Good(c)'
    BY <2>1 DEF Good, Busy
  <2>3. \A d \in Clients : Good(d)'
    BY <1>1, <1>4, <2>1, <2>2, Loud DEF IInv
  <2>4. NewCompaniesGetTheirUser'
    BY <1>1, <1>4, <2>1, Waiting DEF IInv
  <2>5. Settled'
    BY <1>1, <1>3, <1>4, <2>1 DEF IInv, Settled, Typed, Alone
  <2> QED BY <2>3, <2>4, <2>5 DEF IInv
<1>5. CASE /\ companies' = companies \cup {t}
           /\ ctx' = RegisteredIn(c, t)
           /\ pc' = [pc EXCEPT ![c] = "user"]
           /\ UNCHANGED req
  <2>1. Typed
    BY DEF IInv, Settled
  <2>2. Alone(c) /\ pc'[c] = "user" /\ ctx'[c] = t
    BY <1>2, <1>5, <2>1 DEF Alone, Typed, Stages, RegisteredIn
  <2>3. Formed(c)' /\ Placed(c)'
    BY <1>1, <1>2, <1>5, <2>2 DEF Formed, Placed
  <2>4. Noted(c)'
    BY <1>1, <1>5, <2>1, <2>2 DEF Noted, Note, Named
  <2>5. \A d \in Clients : Good(d)'
    BY <1>1, <1>5, <2>2, <2>3, <2>4, Loud DEF IInv, Good
  <2>6. NewCompaniesGetTheirUser'
    BY <1>1, <1>5, <2>2 DEF IInv, NewCompaniesGetTheirUser, Alone
  <2>7. Settled'
    BY <1>1, <1>2, <1>3, <1>5, <2>1, <2>2 DEF IInv, Settled, Typed, Alone
  <2> QED BY <2>5, <2>6, <2>7 DEF IInv
<1> QED BY <1>4, <1>5 DEF Register

\* The subscriber lets the user pass, for the context is his company by then.
LEMMA CreateUserInv == ASSUME IInv, NEW c \in Clients, CreateUser(c) PROVE IInv'
<1>1. /\ pc[c] = "user" /\ Leave(c)
      /\ UNCHANGED <<companies, barred, onboarded, on, rows, was>>
  BY DEF CreateUser
<1>2. ctx[c] = req[c].url /\ req[c].url \in companies
  BY <1>1 DEF IInv, Good, Busy, Placed
<1>3. users' = users \cup {req[c].url}
  BY <1>2 DEF CreateUser, BeforeInsert
<1>4. Alone(c) /\ pc'[c] = "idle"
  BY <1>1, LeaveMoves DEF IInv, Settled
<1>5. Good(c)'
  BY <1>4 DEF Good, Busy
<1>6. \A d \in Clients : Good(d)'
  BY <1>1, <1>4, <1>5, Quiet DEF IInv
<1>7. NewCompaniesGetTheirUser'
  BY <1>1, <1>3, <1>4 DEF IInv, NewCompaniesGetTheirUser, Alone
<1>8. Settled'
  BY <1>1, <1>2, <1>3, <1>4 DEF IInv, Settled, Typed, Alone
<1> QED BY <1>6, <1>7, <1>8 DEF IInv

\* Nobody's request moves when a company is suspended.
LEMMA SuspendInv == ASSUME IInv, Suspend PROVE IInv'
<1>1. /\ UNCHANGED <<companies, users, onboarded, on, rows, pc, req, ctx>> /\ Note
      /\ barred' \subseteq companies
  BY DEF Suspend, local, IInv, Settled
<1>2. ASSUME NEW d \in Clients PROVE Good(d)'
  <2>1. was'[d] = was[d] \cup Entitled(Own(req[d]))'
    BY <1>1 DEF Note
  <2> QED BY <1>1, <2>1, Bystander DEF IInv
<1>3. Settled'
  BY <1>1, NoteType DEF IInv, Settled, Typed
<1>4. NewCompaniesGetTheirUser'
  BY <1>1 DEF IInv, NewCompaniesGetTheirUser
<1> QED BY <1>2, <1>3, <1>4 DEF IInv

\* Every step keeps the invariant.
LEMMA NextInv == ASSUME IInv, [Next]_vars PROVE IInv'
<1>1. CASE UNCHANGED vars
  BY <1>1 DEF vars, company, local, IInv, Settled, Typed, Good, Busy, Formed, Placed, Noted,
              Named, Entitled, Own, Misled, TenantContext, NewCompaniesGetTheirUser
<1>2. ASSUME NEW c \in Clients, Begin(c) PROVE IInv'
  BY <1>2, BeginInv
<1>3. ASSUME NEW c \in Clients, Billing(c) \/ Onboarding(c) \/ Token(c) \/ ModuleGuard(c)
      PROVE  IInv'
  BY <1>3, BillingInv, OnboardingInv, TokenInv, ModuleGuardInv
<1>4. ASSUME NEW c \in Clients, CreateOrder(c) \/ Checkout(c) \/ Read(c) PROVE IInv'
  BY <1>4, OrdersInv
<1>5. ASSUME NEW c \in Clients, CompleteOnboarding(c) \/ SwitchModule(c) PROVE IInv'
  BY <1>5, CompanyInv
<1>6. ASSUME NEW c \in Clients, Register(c) \/ CreateUser(c) PROVE IInv'
  BY <1>6, RegisterInv, CreateUserInv
<1>7. CASE Suspend
  BY <1>7, SuspendInv
<1> QED BY <1>1, <1>2, <1>3, <1>4, <1>5, <1>6, <1>7 DEF Next

-----------------------------------------------------------------------------
(* Theorems                                                                *)

LEMMA Invariance == Spec => []IInv
<1>1. IInv /\ [Next]_vars => IInv'
  BY NextInv
<1> QED BY InitInv, <1>1, PTL DEF Spec

\* Behind the tenant guard the context is the company of the token, whatever the header
\* said before (tenant.guard.ts).
THEOREM ContextIsTheTokens == Spec => []TypeOK
<1>1. IInv => TypeOK
  BY Meaning
<1> QED BY <1>1, Invariance, PTL

\* Rows are read and written for the company of the token, or of the storefront's URL,
\* for any header, but for the customer a checkout looks for: he is one of the company
\* that the header names (tenant.repository.ts, tenant.subscriber.ts, customer.service.ts).
THEOREM CompaniesAreKeptApart == Spec => []RequestsKeepToTheirCompany
<1>1. IInv => RequestsKeepToTheirCompany
  BY Meaning
<1> QED BY <1>1, Invariance, PTL

\* A request whose header names its company reaches its handler only when the guards'
\* conditions held at a moment since it came in; the module's did whatever the header,
\* but for a storefront request that names another company (module.guard.ts).
THEOREM GuardsHold == Spec => []HandlersAreEntitled
<1>1. IInv => HandlersAreEntitled
  BY Meaning
<1> QED BY <1>1, Invariance, PTL

\* A registration under another company's header still makes its user
\* (auth.service.ts sets the context before it creates him).
THEOREM RegistrationsGetTheirUser == Spec => []NewCompaniesGetTheirUser
<1>1. IInv => NewCompaniesGetTheirUser
  BY DEF IInv
<1> QED BY <1>1, Invariance, PTL

=============================================================================
