---------------------------- MODULE AccountsProofs ----------------------------
(***************************************************************************)
(* Companies that nobody administers have a cause, and refusals leave      *)
(* nothing behind, for any companies, users, requests and interruptions.   *)
(*                                                                         *)
(* Rows are never deleted, so what a request has found or made stays        *)
(* there; the inductive invariant says what that is at each statement      *)
(* (Holds).  What a request has not found stays away only as long as       *)
(* nobody else is about the same company or e-mail (Unmet), which is what  *)
(* the history variable raced records (Apart).                             *)
(***************************************************************************)
EXTENDS Accounts, TLAPS

Kinds == UserKinds \cup {"createDriver", "createTenant"}
Status == {None, "ok", "conflict", "failed", "badReference", "notFound", "cut"}

\* Statements that come after the user was made.
Settling == {"findRole", "saveRole", "findUserRole", "saveUserRole"}
Ending   == {"mail", "findDriver", "saveDriver"}
Stages   == {"idle", "findEmail", "findSlug", "saveTenant", "saveAdminRole", "grantAll",
             "findUser", "saveUser", "loadTenant", "checkUser", "findAnyUser"}
            \cup Settling \cup Ending
\* Statements of a registration before its company is there.
Early == {"findEmail", "findSlug", "saveTenant"}

Company(c) == ask[c].company
Newcomer(c) == User(ask[c].company, ask[c].email)

Functions ==
  /\ DOMAIN pc = Clients /\ DOMAIN ask = Clients /\ DOMAIN user = Clients
  /\ DOMAIN role = Clients /\ DOMAIN answer = Clients /\ DOMAIN wrote = Clients
  /\ raced \subseteq Clients

\* Which requests come to a statement.
Routed(c) ==
  LET k == ask[c].kind IN
  /\ pc[c] \in Stages /\ ask[c] \in Asks \cup {NoAsk} /\ answer[c] \in Status
  /\ wrote[c] \in BOOLEAN
  /\ Busy(c) => ask[c] \in Asks /\ answer[c] = None
  /\ pc[c] = "findEmail" => k \in {"register", "join"}
  /\ pc[c] \in {"findSlug", "saveAdminRole", "grantAll"} => k = "register"
  /\ pc[c] = "saveTenant" => k \in {"register", "createTenant"}
  /\ pc[c] \in {"findUser", "saveUser"} \cup Settling => k \in UserKinds /\ Company(c) # None
  /\ pc[c] \in {"loadTenant", "mail"} => k \in {"inviteUser", "inviteDriver"}
  /\ pc[c] = "checkUser" => k = "inviteUser"
  /\ pc[c] = "findAnyUser" => k = "inviteDriver"
  /\ pc[c] = "findDriver" => k \in {"registerDriver", "inviteDriver"}
  /\ pc[c] = "saveDriver" => k \in DriverKinds

\* What a request has found or made.
Holds(c) ==
  LET k == ask[c].kind IN
  /\ k = "register" /\ pc[c] \in {"saveAdminRole", "findUser", "saveUser", "grantAll"} \cup Settling =>
       Company(c) \in tenants
  /\ k = "register" /\ pc[c] \in {"findUser", "saveUser", "grantAll"} \cup Settling =>
       <<Company(c), Admin>> \in roles
  /\ pc[c] \notin {"idle", "grantAll"} \cup Settling \cup Ending => role[c] = ask[c].role
  /\ pc[c] \in Settling => user[c] = Newcomer(c) /\ user[c] \in users /\ role[c] \in RoleNames
                           /\ wrote[c] = TRUE
  /\ pc[c] \in {"findUserRole", "saveUserRole"} => <<Company(c), role[c]>> \in roles
  /\ pc[c] = "grantAll" => user[c] = Newcomer(c) /\ user[c] \in users
                           /\ <<Newcomer(c), Admin>> \in userRoles
  /\ pc[c] \in {"mail", "findDriver"} => user[c] \in users /\ user[c].email = ask[c].email
  /\ pc[c] = "saveDriver" =>
       /\ user[c].email \in {ask[c].email, ask[c].user.email}
       /\ k # "createDriver" => user[c] \in users /\ user[c].email = ask[c].email
  /\ Busy(c) /\ wrote[c] =>
       IF k = "register" THEN pc[c] \notin Early ELSE pc[c] \in Settling \cup Ending /\ k # "createDriver"
  /\ ~Busy(c) /\ k = "register" /\ answer[c] = "ok" =>
       Company(c) \in granted /\ <<Newcomer(c), Admin>> \in userRoles

\* Requests that are served at the same time and share no company and no e-mail.
Disjoint(c, d) ==
  /\ Company(c) # None => Company(c) # Company(d)
  /\ ask[c].email # None => ask[c].email \notin {ask[d].email, ask[d].user.email}
  /\ ask[c].user.email # None => ask[c].user.email \notin {ask[d].email, ask[d].user.email}
Apart ==
  \A c, d \in Clients : c # d /\ Busy(c) /\ Busy(d) /\ c \notin raced => Disjoint(c, d)

\* What a request that met no other one has not found, and what it leaves.
Unmet(c) ==
  c \notin raced =>
    /\ Busy(c) /\ ask[c].kind = "register" /\ pc[c] # "findEmail" =>
         \A u \in users : u.email = ask[c].email => u.company = Company(c)
    /\ ask[c].kind = "register" /\ pc[c] = "saveTenant" => Company(c) \notin tenants
    /\ pc[c] = "saveAdminRole" => <<Company(c), Admin>> \notin roles
                                  /\ \A u \in users : u.company # Company(c)
    /\ pc[c] = "saveUser" => Newcomer(c) \notin users
    /\ ask[c].kind = "register" /\ pc[c] = "findUser" => Newcomer(c) \notin users
    /\ pc[c] = "saveRole" => <<Company(c), role[c]>> \notin roles
    /\ ask[c].kind \in DriverKinds /\ wrote[c] /\ pc[c] \in Settling \cup Ending =>
         \A e \in drivers : e.user # user[c]
    /\ ~Busy(c) /\ answer[c] \in {"conflict", "badReference", "notFound"} /\ wrote[c] =>
         ask[c].kind \in DriverKinds /\ \E e \in drivers : e.cpf = Placeholder

\* A registration that has made its company and is about to make its administrator.
Owner(c, t) ==
  Busy(c) /\ ask[c].kind = "register" /\ Company(c) = t /\ pc[c] \notin Early
Owned == \A t \in tenants \ excused : Administered(t) \/ \E c \in Clients : Owner(c, t)

IInv ==
  /\ TypeOK /\ Functions /\ Apart /\ Owned
  /\ \A c \in Clients : Routed(c) /\ Holds(c) /\ Unmet(c)

-----------------------------------------------------------------------------
(* What a step leaves alone                                                *)

\* A statement of c: requests are about what they were about, rows only come, and they
\* are about the company and the user of c.
Footprint(c) ==
  /\ Busy(c) /\ ask' = ask /\ raced' = raced /\ excused \subseteq excused'
  /\ Functions'
  /\ \A d \in Clients \ {c} :
       /\ pc'[d] = pc[d] /\ user'[d] = user[d] /\ role'[d] = role[d]
       /\ answer'[d] = answer[d] /\ wrote'[d] = wrote[d]
  /\ tenants \subseteq tenants' /\ tenants' \subseteq tenants \cup {Company(c)}
  /\ roles \subseteq roles' /\ \A r \in roles' \ roles : r[1] = Company(c)
  /\ granted \subseteq granted' /\ userRoles \subseteq userRoles'
  /\ users \subseteq users' /\ users' \subseteq users \cup {Newcomer(c)}
  /\ drivers \subseteq drivers'
  /\ \A e \in drivers' \ drivers : pc[c] = "saveDriver" /\ e.user = user[c]

LEMMA TypeKept == TypeOK /\ UNCHANGED db => TypeOK'
BY DEF TypeOK, db

\* What the requests named in Asks are.
LEMMA AskFacts ==
  ASSUME IInv, NEW c \in Clients, Busy(c)
  PROVE  /\ ask[c].kind \in Kinds /\ ask[c].role \in RoleNames \cup {None}
         /\ Company(c) \in Companies \cup {None}
         /\ ask[c].kind # "join" => Company(c) \in Companies
         /\ ask[c].kind \in UserKinds => ask[c].email \in Emails /\ ask[c].email # None
         /\ ask[c].kind = "register" => Company(c) # None
<1>1. ask[c] \in Asks BY DEF IInv, Routed
<1>2. DOMAIN FirstStep = Kinds BY DEF FirstStep, Kinds, UserKinds
<1> QED BY <1>1, <1>2, AsksAssumption, AccountsAssumption DEF Company

LEMMA OthersAreRouted ==
  ASSUME IInv, NEW c \in Clients, Footprint(c), NEW d \in Clients \ {c}
  PROVE  Routed(d)'
<1>1. Routed(d) BY DEF IInv
<1> QED BY <1>1 DEF Footprint, Routed, Busy, Company

LEMMA OthersHold ==
  ASSUME IInv, NEW c \in Clients, Footprint(c), NEW d \in Clients \ {c}
  PROVE  Holds(d)'
<1>1. Holds(d) BY DEF IInv
<1> QED BY <1>1 DEF Footprint, Holds, Busy, Company, Newcomer, User

LEMMA OthersAreUnmet ==
  ASSUME IInv, NEW c \in Clients, Footprint(c), NEW d \in Clients \ {c}
  PROVE  Unmet(d)'
<1>1. Unmet(d) /\ Routed(d) /\ Holds(d) /\ Holds(c) /\ TypeOK BY DEF IInv
<1> SUFFICES ASSUME d \notin raced PROVE Unmet(d)'
  BY DEF Footprint, Unmet
<1>2. CASE ~Busy(d)
  <2>1. ~Busy(d)' BY <1>2 DEF Busy, Footprint
  <2>2. pc'[d] = "idle" /\ pc[d] = "idle" BY <2>1, <1>2 DEF Busy, Footprint
  <2> QED BY <1>1, <2>1, <2>2, <1>2 DEF Unmet, Footprint, Settling, Ending, Busy
<1>3. CASE Busy(d)
  <2>1. Disjoint(d, c) BY <1>3 DEF IInv, Apart, Footprint
  <2>2. ask[d].kind \in UserKinds => ask[d].email # None BY <1>3, AskFacts
  <2>3. ask[d].kind = "register" => Company(d) # None BY <1>3, AskFacts
  <2>4. Newcomer(c).email = ask[c].email /\ Newcomer(c).company = Company(c)
        /\ Newcomer(d).email = ask[d].email /\ Newcomer(d).company = Company(d)
    BY DEF Newcomer, User, Company
  <2>5. pc'[d] = pc[d] /\ ask' = ask /\ Busy(d)' /\ wrote'[d] = wrote[d] /\ role'[d] = role[d]
        /\ user'[d] = user[d]
    BY <1>3 DEF Footprint, Busy
  <2>6. (Busy(d) /\ ask[d].kind = "register" /\ pc[d] # "findEmail" =>
           \A u \in users : u.email = ask[d].email => u.company = Company(d))'
    BY <2>1, <2>2, <2>4, <2>5, <1>1, <1>3 DEF Unmet, Footprint, Disjoint, UserKinds, Company
  <2>7. (ask[d].kind = "register" /\ pc[d] = "saveTenant" => Company(d) \notin tenants)'
    BY <2>1, <2>3, <2>5, <1>1 DEF Unmet, Footprint, Disjoint, Company
  <2>8. (pc[d] = "saveAdminRole" => <<Company(d), Admin>> \notin roles
                                    /\ \A u \in users : u.company # Company(d))'
    BY <2>1, <2>3, <2>4, <2>5, <1>1 DEF Unmet, Footprint, Disjoint, Routed, Company
  <2>9. (/\ pc[d] = "saveUser" => Newcomer(d) \notin users
         /\ ask[d].kind = "register" /\ pc[d] = "findUser" => Newcomer(d) \notin users)'
    <3>1. Newcomer(d)' = Newcomer(d) BY <2>5 DEF Newcomer
    <3> QED BY <3>1, <2>1, <2>2, <2>4, <2>5, <1>1 DEF Unmet, Footprint, Disjoint, Routed
  <2>10. (pc[d] = "saveRole" => <<Company(d), role[d]>> \notin roles)'
    BY <2>1, <2>5, <1>1 DEF Unmet, Footprint, Disjoint, Routed, Settling, Company
  <2>11. (ask[d].kind \in DriverKinds /\ wrote[d] /\ pc[d] \in Settling \cup Ending =>
            \A e \in drivers : e.user # user[d])'
    <3> SUFFICES ASSUME ask[d].kind \in DriverKinds, wrote[d], pc[d] \in Settling \cup Ending,
                        NEW e \in drivers'
                 PROVE  e.user # user[d]
      BY <2>5
    <3>1. ask[d].kind \in UserKinds
      BY <1>1, <1>3 DEF Holds, DriverKinds, UserKinds
    <3>2. user[d].email = ask[d].email
      BY <1>1, <2>4, <3>1 DEF Holds, Settling, Ending, UserKinds
    <3>3. CASE e \in drivers BY <3>3, <1>1 DEF Unmet
    <3>4. CASE e \notin drivers
      <4>1. e.user = user[c] /\ pc[c] = "saveDriver" BY <3>4 DEF Footprint
      <4>2. user[c].email \in {ask[c].email, ask[c].user.email} BY <4>1, <1>1 DEF Holds
      <4> QED BY <4>1, <4>2, <3>1, <3>2, <2>1, <2>2 DEF Disjoint
    <3> QED BY <3>3, <3>4
  <2>12. (~Busy(d))' = FALSE BY <2>5
  <2> QED BY <2>6, <2>7, <2>8, <2>9, <2>10, <2>11, <2>12, <2>5 DEF Unmet
<1> QED BY <1>2, <1>3

LEMMA ApartKept ==
  ASSUME IInv, NEW c \in Clients, Footprint(c)
  PROVE  Apart'
<1> SUFFICES ASSUME NEW b \in Clients, NEW d \in Clients, b # d, Busy(b)', Busy(d)', b \notin raced
             PROVE  Disjoint(b, d)'
  BY DEF Apart, Footprint
<1>1. Busy(b) /\ Busy(d) BY DEF Footprint, Busy
<1>2. Disjoint(b, d) BY <1>1 DEF IInv, Apart
<1> QED BY <1>2 DEF Disjoint, Company, Footprint

\* A step that makes no company: who owned one still does, unless it is c.
LEMMA OwnedKept ==
  ASSUME IInv, NEW c \in Clients, Footprint(c), tenants' = tenants,
         \A t : Owner(c, t) => Owner(c, t)' \/ t \in excused' \/ Administered(t)'
  PROVE  Owned'
<1> SUFFICES ASSUME NEW t \in tenants, t \notin excused'
             PROVE  Administered(t)' \/ \E d \in Clients : Owner(d, t)'
  BY DEF Owned
<1>1. Administered(t) \/ \E d \in Clients : Owner(d, t) BY DEF IInv, Owned, Footprint
<1>2. CASE Administered(t) BY <1>2 DEF Administered, Footprint
<1>3. CASE \E d \in Clients : Owner(d, t)
  <2>1. PICK d \in Clients : Owner(d, t) BY <1>3
  <2>2. CASE d = c BY <2>1, <2>2
  <2>3. CASE d # c
    <3>1. Owner(d, t)' BY <2>1, <2>3 DEF Owner, Footprint, Busy, Company
    <3> QED BY <3>1
  <2> QED BY <2>2, <2>3
<1> QED BY <1>1, <1>2, <1>3

\* What is left to show of a step of c.
LEMMA StepKeeps ==
  ASSUME IInv, NEW c \in Clients, Footprint(c), TypeOK', Owned', Routed(c)', Holds(c)', Unmet(c)'
  PROVE  IInv'
<1>1. \A d \in Clients \ {c} : Routed(d)' /\ Holds(d)' /\ Unmet(d)'
  BY OthersAreRouted, OthersHold, OthersAreUnmet
<1>2. Apart' BY ApartKept
<1>3. Functions' BY DEF Footprint
<1> QED BY <1>1, <1>2, <1>3 DEF IInv

\* A step that goes on to another statement and makes no company.
LEMMA GoingOn ==
  ASSUME IInv, NEW c \in Clients, Footprint(c), tenants' = tenants, Busy(c)',
         pc'[c] \notin Early \/ pc[c] \in Early
  PROVE  Owned'
<1>1. \A t : Owner(c, t) => Owner(c, t)' BY DEF Footprint, Owner, Busy, Company
<1> QED BY <1>1, OwnedKept

-----------------------------------------------------------------------------
(* How requests end                                                        *)

LEMMA LeaveFacts ==
  ASSUME IInv, NEW c \in Clients, NEW s, Leave(c, s)
  PROVE  /\ pc'[c] = "idle" /\ answer'[c] = s /\ ~Busy(c)' /\ excused \subseteq excused'
         /\ \A d \in Clients \ {c} : pc'[d] = pc[d] /\ answer'[d] = answer[d]
         /\ DOMAIN pc' = Clients /\ DOMAIN answer' = Clients
BY DEF Leave, IInv, Functions, Busy

LEMMA GotoFacts ==
  ASSUME IInv, NEW c \in Clients, NEW l, Goto(c, l)
  PROVE  /\ pc'[c] = l /\ answer' = answer /\ excused' = excused
         /\ \A d \in Clients \ {c} : pc'[d] = pc[d]
         /\ DOMAIN pc' = Clients
BY DEF Goto, IInv, Functions

\* A request that is refused or broken off.  One that met no other is refused where it
\* owns no company, and where it wrote nothing unless it is about a driver.
LEMMA Refused ==
  ASSUME IInv, NEW c \in Clients, Busy(c), NEW s \in Status \ {None, "ok"}, Leave(c, s),
         UNCHANGED db, ask' = ask, raced' = raced, wrote' = wrote, role' = role,
         DOMAIN user' = Clients, \A d \in Clients \ {c} : user'[d] = user[d],
         c \notin raced /\ s # "cut" => ask[c].kind # "register" \/ pc[c] \in Early,
         c \notin raced /\ s \in {"conflict", "badReference", "notFound"} /\ wrote[c] =>
           ask[c].kind \in DriverKinds /\ \E e \in drivers : e.cpf = Placeholder
  PROVE  IInv'
<1>1. Footprint(c)
  BY LeaveFacts DEF Footprint, IInv, Functions, db
<1>2. TypeOK' BY TypeKept DEF IInv
<1>3. Owned'
  <2>1. \A t : Owner(c, t) => t \in excused'
    BY DEF Owner, Leave, Company
  <2> QED BY <1>1, <2>1, OwnedKept DEF db
<1>4. pc'[c] = "idle" /\ answer'[c] = s /\ ~Busy(c)' BY LeaveFacts
<1>5. Routed(c)'
  <2>1. Routed(c) BY DEF IInv
  <2> QED BY <2>1, <1>4 DEF Routed, Stages, Settling, Ending, Status
<1>6. Holds(c)'
  BY <1>4 DEF Holds, Settling, Status
<1>7. Unmet(c)'
  BY <1>4 DEF Unmet, Settling, Ending, db
<1> QED BY <1>1, <1>2, <1>3, <1>5, <1>6, <1>7, StepKeeps

\* A request that is answered ok.
LEMMA Answered ==
  ASSUME IInv, NEW c \in Clients, Footprint(c), Leave(c, "ok"), TypeOK', Owned',
         wrote'[c] \in BOOLEAN,
         ask[c].kind = "register" =>
           (Company(c) \in granted /\ <<Newcomer(c), Admin>> \in userRoles)'
  PROVE  IInv'
<1>1. pc'[c] = "idle" /\ answer'[c] = "ok" /\ ~Busy(c)' /\ ask' = ask
  BY LeaveFacts DEF Footprint
<1>2. Routed(c)'
  <2>1. Routed(c) BY DEF IInv
  <2> QED BY <2>1, <1>1 DEF Routed, Stages, Settling, Ending, Status
<1>3. Holds(c)'
  BY <1>1 DEF Holds, Settling
<1>4. Unmet(c)'
  BY <1>1 DEF Unmet, Settling, Ending
<1> QED BY <1>2, <1>3, <1>4, StepKeeps

\* A request that is answered ok after a read, and is no registration.
LEMMA AnsweredAfterRead ==
  ASSUME IInv, NEW c \in Clients, Busy(c), Leave(c, "ok"), ask[c].kind # "register",
         UNCHANGED <<db, ask, raced, user, role, wrote>>
  PROVE  IInv'
<1>1. Footprint(c)
  BY LeaveFacts DEF Footprint, IInv, Functions, db
<1>2. TypeOK' BY TypeKept DEF IInv
<1>3. Owned' BY <1>1, OwnedKept DEF Owner, db
<1>4. wrote'[c] \in BOOLEAN BY DEF IInv, Routed
<1> QED BY <1>1, <1>2, <1>3, <1>4, Answered

\* A request that goes on after a read.
LEMMA ReadOn ==
  ASSUME IInv, NEW c \in Clients, Busy(c), NEW l, l # "idle", Goto(c, l),
         l \notin Early \/ pc[c] \in Early,
         UNCHANGED <<db, ask, raced, wrote>>,
         DOMAIN user' = Clients, \A d \in Clients \ {c} : user'[d] = user[d],
         DOMAIN role' = Clients, \A d \in Clients \ {c} : role'[d] = role[d],
         Routed(c)', Holds(c)', Unmet(c)'
  PROVE  IInv'
<1>1. Footprint(c)
  BY GotoFacts DEF Footprint, IInv, Functions, db
<1>2. TypeOK' BY TypeKept DEF IInv
<1>3. pc'[c] = l /\ Busy(c)' BY GotoFacts DEF Busy
<1>4. Owned' BY <1>1, <1>3, GoingOn DEF db
<1> QED BY <1>1, <1>2, <1>4, StepKeeps

-----------------------------------------------------------------------------
(* The statements                                                          *)

LEMMA CutKeeps ==
  ASSUME IInv, NEW c \in Clients, Cut(c) PROVE IInv'
<1>1. "cut" \in Status \ {None, "ok"} BY DEF Status, None
<1> QED BY <1>1, Refused DEF Cut, IInv, Functions, db

LEMMA FindEmailKeeps ==
  ASSUME IInv, NEW c \in Clients, FindEmail(c) PROVE IInv'
<1>1. Busy(c) /\ UNCHANGED <<db, ask, raced, user, role, wrote>> /\ pc[c] = "findEmail"
      /\ DOMAIN user = Clients /\ DOMAIN role = Clients
  BY DEF FindEmail, Busy, db, ctl, IInv, Functions
<1>2. Routed(c) /\ Holds(c) /\ Unmet(c) /\ wrote[c] = FALSE BY <1>1 DEF IInv, Holds, Early, Settling, Ending, Routed
<1>3. CASE Known(Company(c), ask[c].email)
  <2>1. Leave(c, "conflict") BY <1>3 DEF FindEmail, Company
  <2>2. "conflict" \in Status \ {None, "ok"} BY DEF Status, None
  <2> QED BY <1>1, <1>2, <2>1, <2>2, Refused DEF Early
<1>4. CASE ~Known(Company(c), ask[c].email) /\ ask[c].kind = "register"
  <2>1. Goto(c, "findSlug") BY <1>4 DEF FindEmail, Company
  <2>2. pc'[c] = "findSlug" /\ answer' = answer BY <2>1, GotoFacts
  <2>3. Routed(c)'
    BY <2>2, <1>1, <1>2, <1>4 DEF Routed, Stages, Settling, Ending, Busy, Company
  <2>4. Holds(c)'
    BY <2>2, <1>1, <1>2 DEF Holds, Settling, Ending, Busy
  <2>5. Unmet(c)'
    BY <2>2, <1>1, <1>2, <1>4 DEF Unmet, Known, Settling, Ending, Busy, db
  <2> QED BY <1>1, <2>1, <2>3, <2>4, <2>5, ReadOn DEF Early
<1>5. CASE ~Known(Company(c), ask[c].email) /\ ask[c].kind = "join" /\ Company(c) = None
  <2>1. Leave(c, "failed") BY <1>5 DEF FindEmail, Company
  <2>2. "failed" \in Status \ {None, "ok"} BY DEF Status, None
  <2> QED BY <1>1, <1>2, <2>1, <2>2, Refused DEF Early
<1>6. CASE ~Known(Company(c), ask[c].email) /\ ask[c].kind = "join" /\ Company(c) # None
  <2>1. Goto(c, "findUser") BY <1>6 DEF FindEmail, Company
  <2>2. pc'[c] = "findUser" /\ answer' = answer BY <2>1, GotoFacts
  <2>3. Routed(c)'
    BY <2>2, <1>1, <1>2, <1>6 DEF Routed, Stages, Settling, Ending, Busy, Company, UserKinds
  <2>4. Holds(c)'
    BY <2>2, <1>1, <1>2, <1>6 DEF Holds, Settling, Ending, Busy
  <2>5. Unmet(c)'
    BY <2>2, <1>1, <1>2, <1>6 DEF Unmet, Settling, Ending, Busy
  <2> QED BY <1>1, <2>1, <2>3, <2>4, <2>5, ReadOn DEF Early
<1> QED BY <1>1, <1>2, <1>3, <1>4, <1>5, <1>6 DEF Routed

LEMMA FindSlugKeeps ==
  ASSUME IInv, NEW c \in Clients, FindSlug(c) PROVE IInv'
<1>1. Busy(c) /\ UNCHANGED <<db, ask, raced, user, role, wrote>> /\ pc[c] = "findSlug"
      /\ DOMAIN user = Clients /\ DOMAIN role = Clients
  BY DEF FindSlug, Busy, db, ctl, IInv, Functions
<1>2. Routed(c) /\ Holds(c) /\ Unmet(c) /\ wrote[c] = FALSE /\ ask[c].kind = "register"
  BY <1>1 DEF IInv, Holds, Early, Settling, Ending, Routed
<1>3. CASE Company(c) \in tenants
  <2>1. Leave(c, "conflict") BY <1>3 DEF FindSlug, Company
  <2>2. "conflict" \in Status \ {None, "ok"} BY DEF Status, None
  <2> QED BY <1>1, <1>2, <2>1, <2>2, Refused DEF Early
<1>4. CASE Company(c) \notin tenants
  <2>1. Goto(c, "saveTenant") BY <1>4 DEF FindSlug, Company
  <2>2. pc'[c] = "saveTenant" /\ answer' = answer BY <2>1, GotoFacts
  <2>3. Routed(c)'
    BY <2>2, <1>1, <1>2 DEF Routed, Stages, Settling, Ending, Busy, Company
  <2>4. Holds(c)'
    BY <2>2, <1>1, <1>2 DEF Holds, Settling, Ending, Busy
  <2>5. Unmet(c)'
    BY <2>2, <1>1, <1>2, <1>4 DEF Unmet, Settling, Ending, Busy, db, Company
  <2> QED BY <1>1, <2>1, <2>3, <2>4, <2>5, ReadOn DEF Early
<1> QED BY <1>3, <1>4

LEMMA SaveTenantKeeps ==
  ASSUME IInv, NEW c \in Clients, SaveTenant(c) PROVE IInv'
<1>1. /\ Busy(c) /\ pc[c] = "saveTenant" /\ tenants' = tenants \cup {Company(c)}
      /\ UNCHANGED <<roles, granted, users, userRoles, drivers, mailed, ask, raced, user, role>>
  BY DEF SaveTenant, Busy, ctl, Company
<1>2. /\ Routed(c) /\ Holds(c) /\ Unmet(c) /\ TypeOK /\ Functions
      /\ ask[c].kind \in {"register", "createTenant"}
  BY <1>1 DEF IInv, Routed
<1>3. wrote[c] = FALSE
  BY <1>1, <1>2 DEF Holds, Early, Settling, Ending, Routed
<1>4. CASE Company(c) \in tenants
  <2>1. Leave(c, "conflict") /\ wrote' = wrote
    BY <1>4 DEF SaveTenant, Insert, Refusal, Company
  <2>2. "conflict" \in Status \ {None, "ok"} BY DEF Status, None
  <2>3. UNCHANGED db BY <1>1, <1>4 DEF db
  <2> QED BY <1>1, <1>2, <1>3, <2>1, <2>2, <2>3, Refused DEF Early, Functions
<1>5. CASE Company(c) \notin tenants
  <2>1. wrote' = [wrote EXCEPT ![c] = TRUE]
        /\ IF ask[c].kind = "register" THEN Goto(c, "saveAdminRole") ELSE Leave(c, "ok")
    BY <1>5 DEF SaveTenant, Insert, Company
  <2>2. Footprint(c)
    <3>1. CASE ask[c].kind = "register"
      BY <1>1, <1>2, <2>1, <3>1, GotoFacts DEF Footprint, Functions
    <3>2. CASE ask[c].kind # "register"
      BY <1>1, <1>2, <2>1, <3>2, LeaveFacts DEF Footprint, Functions
    <3> QED BY <3>1, <3>2
  <2>3. TypeOK'
    <3>1. Company(c) \in Companies BY <1>1, <1>2, AskFacts
    <3> QED BY <1>1, <1>2, <3>1 DEF TypeOK
  <2>4. wrote'[c] = TRUE BY <2>1, <1>2 DEF Functions
  <2>5. \A t : Owner(c, t) => FALSE BY <1>1 DEF Owner, Early
  <2>6. ASSUME \A t : t = Company(c) => Owner(c, t)' \/ t \in excused'
        PROVE  Owned'
    <3> SUFFICES ASSUME NEW t \in tenants', t \notin excused'
                 PROVE  Administered(t)' \/ \E d \in Clients : Owner(d, t)'
      BY DEF Owned
    <3>1. CASE t = Company(c)
      <4>1. Owner(c, t)' BY <3>1, <2>6
      <4> QED BY <4>1
    <3>2. CASE t # Company(c)
      <4>1. Administered(t) \/ \E d \in Clients : Owner(d, t)
        BY <1>1, <2>2, <3>2 DEF Footprint, IInv, Owned
      <4>2. CASE Administered(t) BY <4>2, <1>1 DEF Administered
      <4>3. CASE \E d \in Clients : Owner(d, t)
        <5>1. PICK d \in Clients : Owner(d, t) BY <4>3
        <5>2. d # c BY <5>1, <2>5
        <5>3. Owner(d, t)' BY <5>1, <5>2, <2>2 DEF Owner, Footprint, Busy, Company
        <5> QED BY <5>3
      <4> QED BY <4>1, <4>2, <4>3
    <3> QED BY <3>1, <3>2
  <2>7. CASE ask[c].kind = "register"
    <3>1. pc'[c] = "saveAdminRole" /\ answer' = answer BY <2>1, <2>7, GotoFacts
    <3>2. Owned'
      <4>1. \A t : t = Company(c) => Owner(c, t)'
        BY <2>7, <3>1, <1>1 DEF Owner, Early, Busy, Company
      <4> QED BY <4>1, <2>6
    <3>3. Routed(c)'
      BY <3>1, <2>4, <2>7, <1>1, <1>2 DEF Routed, Stages, Settling, Ending, Busy, Company
    <3>4. Holds(c)'
      BY <3>1, <2>7, <1>1, <1>2 DEF Holds, Settling, Ending, Busy, Early, Company
    <3>5. Unmet(c)'
      <4>1. <<Company(c), Admin>> \notin roles BY <1>2, <1>5 DEF TypeOK
      <4>2. \A u \in users : u.company # Company(c) BY <1>2, <1>5 DEF TypeOK
      <4> QED BY <3>1, <2>7, <1>1, <1>2, <4>1, <4>2
              DEF Unmet, Settling, Ending, Busy, Company, DriverKinds
    <3> QED BY <2>2, <2>3, <3>2, <3>3, <3>4, <3>5, StepKeeps
  <2>8. CASE ask[c].kind # "register"
    <3>1. Leave(c, "ok") /\ ask[c].kind = "createTenant" BY <2>1, <2>8, <1>2
    <3>2. Company(c) \in excused' BY <3>1 DEF Leave, Company
    <3>3. Owned' BY <3>2, <2>6
    <3> QED BY <3>1, <3>3, <2>2, <2>3, <2>4, <2>8, Answered
  <2> QED BY <2>7, <2>8
<1> QED BY <1>4, <1>5

LEMMA SaveAdminRoleKeeps ==
  ASSUME IInv, NEW c \in Clients, SaveAdminRole(c) PROVE IInv'
<1>1. /\ Busy(c) /\ pc[c] = "saveAdminRole" /\ roles' = roles \cup {<<Company(c), Admin>>}
      /\ UNCHANGED <<tenants, granted, users, userRoles, drivers, mailed, ask, raced, user, role>>
  BY DEF SaveAdminRole, Busy, ctl, Company
<1>2. /\ Routed(c) /\ Holds(c) /\ Unmet(c) /\ TypeOK /\ Functions
      /\ ask[c].kind = "register"
  BY <1>1 DEF IInv, Routed
<1>3. CASE <<Company(c), Admin>> \in roles
  <2>1. Leave(c, "conflict") /\ wrote' = wrote
    BY <1>3 DEF SaveAdminRole, Insert, Refusal, Company
  <2>2. "conflict" \in Status \ {None, "ok"} BY DEF Status, None
  <2>3. UNCHANGED db BY <1>1, <1>3 DEF db
  <2>4. c \in raced BY <1>1, <1>2, <1>3 DEF Unmet
  <2> QED BY <1>1, <1>2, <2>1, <2>2, <2>3, <2>4, Refused DEF Functions
<1>4. CASE <<Company(c), Admin>> \notin roles
  <2>1. wrote' = [wrote EXCEPT ![c] = TRUE] /\ Goto(c, "findUser")
    BY <1>4 DEF SaveAdminRole, Insert, Company
  <2>2. Footprint(c)
    BY <1>1, <1>2, <2>1, GotoFacts DEF Footprint, Functions
  <2>3. TypeOK'
    <3>1. Company(c) \in tenants /\ Admin \in RoleNames
      BY <1>1, <1>2, AccountsAssumption DEF Holds
    <3> QED BY <1>1, <1>2, <3>1 DEF TypeOK
  <2>4. pc'[c] = "findUser" /\ answer' = answer BY <2>1, GotoFacts
  <2>5. wrote'[c] = TRUE BY <2>1, <1>2 DEF Functions
  <2>6. Owned' BY <2>2, <2>4, <1>1, GoingOn DEF Early, Busy
  <2>7. Routed(c)'
    <3>1. Company(c) # None BY <1>1, <1>2, AskFacts
    <3> QED BY <3>1, <2>4, <2>5, <1>1, <1>2
        DEF Routed, Stages, Settling, Ending, Busy, Company, UserKinds
  <2>8. Holds(c)'
    BY <2>4, <1>1, <1>2 DEF Holds, Settling, Ending, Busy, Early, Company
  <2>9. Unmet(c)'
    <3>1. c \notin raced => Newcomer(c) \notin users
      <4>1. Newcomer(c).company = Company(c) BY DEF Newcomer, User, Company
      <4> QED BY <4>1, <1>1, <1>2 DEF Unmet
    <3>2. Newcomer(c)' = Newcomer(c) BY <1>1 DEF Newcomer
    <3> QED BY <3>1, <3>2, <2>4, <1>1, <1>2
        DEF Unmet, Settling, Ending, Busy, Company, DriverKinds
  <2> QED BY <2>2, <2>3, <2>6, <2>7, <2>8, <2>9, StepKeeps
<1> QED BY <1>3, <1>4

LEMMA GrantAllKeeps ==
  ASSUME IInv, NEW c \in Clients, GrantAll(c) PROVE IInv'
<1>1. /\ Busy(c) /\ pc[c] = "grantAll" /\ granted' = granted \cup {Company(c)}
      /\ wrote' = [wrote EXCEPT ![c] = TRUE] /\ Leave(c, "ok")
      /\ UNCHANGED <<tenants, roles, users, userRoles, drivers, mailed, ask, raced, user, role>>
  BY DEF GrantAll, Busy, ctl, Company
<1>2. /\ Routed(c) /\ Holds(c) /\ TypeOK /\ Functions /\ ask[c].kind = "register"
  BY <1>1 DEF IInv, Routed
<1>3. Company(c) \in tenants /\ Newcomer(c) \in users /\ <<Newcomer(c), Admin>> \in userRoles
  BY <1>1, <1>2 DEF Holds
<1>4. Footprint(c)
  BY <1>1, <1>2, LeaveFacts DEF Footprint, Functions
<1>5. TypeOK' BY <1>1, <1>2, <1>3 DEF TypeOK
<1>6. Owned'
  <2>1. Newcomer(c).company = Company(c) BY DEF Newcomer, User, Company
  <2>2. \A t : t = Company(c) => Administered(t)' BY <1>1, <1>3, <2>1 DEF Administered
  <2>3. \A t : Owner(c, t) => t = Company(c) BY DEF Owner
  <2> QED BY <1>1, <1>4, <2>2, <2>3, OwnedKept
<1>7. wrote'[c] \in BOOLEAN BY <1>1, <1>2 DEF Functions
<1>8. (Company(c) \in granted /\ <<Newcomer(c), Admin>> \in userRoles)'
  BY <1>1, <1>3 DEF Company, Newcomer
<1> QED BY <1>1, <1>4, <1>5, <1>6, <1>7, <1>8, Answered

-----------------------------------------------------------------------------
(* UserService.create                                                      *)

LEMMA AfterUserFacts ==
  ASSUME IInv, NEW c \in Clients, AfterUser(c)
  PROVE  /\ excused \subseteq excused'
         /\ \A d \in Clients \ {c} : pc'[d] = pc[d] /\ answer'[d] = answer[d] /\ role'[d] = role[d]
         /\ DOMAIN pc' = Clients /\ DOMAIN answer' = Clients /\ DOMAIN role' = Clients
<1>1. (\E l : Goto(c, l)) \/ Leave(c, "ok") BY DEF AfterUser
<1>2. role' = role \/ role' = [role EXCEPT ![c] = Admin] BY DEF AfterUser
<1> QED BY <1>1, <1>2, GotoFacts, LeaveFacts DEF IInv, Functions

\* The user is there and has the role that was asked for.
LEMMA AfterUserKeeps ==
  ASSUME IInv, NEW c \in Clients, Footprint(c), AfterUser(c), TypeOK', tenants' = tenants,
         pc[c] \in {"saveUser", "findUserRole", "saveUserRole"},
         user'[c] = Newcomer(c), Newcomer(c) \in users', wrote'[c] = TRUE,
         role[c] = Admin => <<Newcomer(c), Admin>> \in userRoles',
         c \notin raced /\ ask[c].kind \in DriverKinds =>
           \A e \in drivers' : e.user # Newcomer(c)
  PROVE  IInv'
<1>1. Routed(c) /\ Holds(c) /\ Unmet(c) /\ Busy(c) /\ ask' = ask /\ raced' = raced
  BY DEF IInv, Footprint
<1>2. ask[c].kind \in UserKinds /\ Company(c) # None BY <1>1 DEF Routed, Settling
<1>3. ask[c].kind = "register" => Company(c) \in tenants' /\ <<Company(c), Admin>> \in roles'
  BY <1>1 DEF Holds, Settling, Footprint
<1>4. Newcomer(c).email = ask[c].email /\ Newcomer(c).company = Company(c)
      /\ Newcomer(c)' = Newcomer(c) /\ Company(c)' = Company(c)
  BY <1>1 DEF Newcomer, User, Company
<1>5. c \notin raced /\ ask[c].kind = "register" =>
        \A u \in users' : u.email = ask[c].email => u.company = Company(c)
  BY <1>1, <1>4 DEF Unmet, Footprint
<1>6. CASE ask[c].kind = "register" /\ role[c] # Admin
  <2>1. Goto(c, "findUserRole") /\ role' = [role EXCEPT ![c] = Admin] BY <1>6 DEF AfterUser
  <2>2. pc'[c] = "findUserRole" /\ answer' = answer /\ role'[c] = Admin
    BY <2>1, GotoFacts DEF IInv, Functions
  <2>3. Owned' BY <2>2, GoingOn DEF Early, Busy
  <2>4. Routed(c)'
    BY <2>2, <1>1, <1>2, <1>4 DEF Routed, Stages, Settling, Ending, Busy
  <2>5. Holds(c)'
    BY <2>2, <1>1, <1>3, <1>4, <1>6, AccountsAssumption DEF Holds, Settling, Ending, Busy, Early
  <2>6. Unmet(c)'
    BY <2>2, <1>1, <1>4, <1>5, <1>6 DEF Unmet, Settling, Ending, Busy, DriverKinds
  <2> QED BY <2>3, <2>4, <2>5, <2>6, StepKeeps
<1>7. CASE ask[c].kind = "register" /\ role[c] = Admin
  <2>1. Goto(c, "grantAll") BY <1>7 DEF AfterUser
  <2>2. pc'[c] = "grantAll" /\ answer' = answer BY <2>1, GotoFacts
  <2>3. Owned' BY <2>2, GoingOn DEF Early, Busy
  <2>4. Routed(c)'
    BY <2>2, <1>1, <1>2, <1>4, <1>7 DEF Routed, Stages, Settling, Ending, Busy
  <2>5. Holds(c)'
    BY <2>2, <1>1, <1>3, <1>4, <1>7 DEF Holds, Settling, Ending, Busy, Early
  <2>6. Unmet(c)'
    BY <2>2, <1>1, <1>4, <1>5, <1>7 DEF Unmet, Settling, Ending, Busy, DriverKinds
  <2> QED BY <2>3, <2>4, <2>5, <2>6, StepKeeps
<1>8. ASSUME NEW l \in {"mail", "findDriver"}, Goto(c, l), ask[c].kind # "register",
             l = "mail" => ask[c].kind \in {"inviteUser", "inviteDriver"},
             l = "findDriver" => ask[c].kind = "registerDriver"
      PROVE  IInv'
  <2>2. pc'[c] = l /\ answer' = answer BY <1>8, GotoFacts
  <2>3. Owned' BY <2>2, GoingOn DEF Early, Busy
  <2>4. Routed(c)'
    BY <2>2, <1>1, <1>2, <1>4, <1>8 DEF Routed, Stages, Settling, Ending, Busy
  <2>5. Holds(c)'
    BY <2>2, <1>1, <1>4, <1>8 DEF Holds, Settling, Ending, Busy, Early
  <2>6. Unmet(c)'
    BY <2>2, <1>1, <1>4, <1>8 DEF Unmet, Settling, Ending, Busy
  <2> QED BY <2>3, <2>4, <2>5, <2>6, StepKeeps
<1>9. CASE ask[c].kind \in {"inviteUser", "inviteDriver"}
  <2>1. Goto(c, "mail") BY <1>9 DEF AfterUser
  <2> QED BY <2>1, <1>8, <1>9
<1>10. CASE ask[c].kind = "registerDriver"
  <2>1. Goto(c, "findDriver") BY <1>10 DEF AfterUser
  <2> QED BY <2>1, <1>8, <1>10
<1>11. CASE ask[c].kind \in {"join", "createUser"}
  <2>1. Leave(c, "ok") BY <1>11 DEF AfterUser
  <2>2. Owned' BY <1>11, OwnedKept DEF Owner
  <2> QED BY <2>1, <2>2, <1>11, Answered
<1> QED BY <1>2, <1>6, <1>7, <1>9, <1>10, <1>11 DEF UserKinds

LEMMA FindUserKeeps ==
  ASSUME IInv, NEW c \in Clients, FindUser(c) PROVE IInv'
<1>1. Busy(c) /\ UNCHANGED <<db, ask, raced, user, role, wrote>> /\ pc[c] = "findUser"
      /\ DOMAIN user = Clients /\ DOMAIN role = Clients
  BY DEF FindUser, Busy, db, ctl, IInv, Functions
<1>2. Routed(c) /\ Holds(c) /\ Unmet(c) /\ ask[c].kind \in UserKinds
  BY <1>1 DEF IInv, Routed
<1>3. wrote[c] => ask[c].kind = "register"
  BY <1>1, <1>2 DEF Holds, Settling, Ending
<1>4. CASE Newcomer(c) \in users
  <2>1. Leave(c, "conflict") BY <1>4 DEF FindUser, Newcomer
  <2>2. "conflict" \in Status \ {None, "ok"} BY DEF Status, None
  <2>3. c \notin raced => ask[c].kind # "register" BY <1>1, <1>2, <1>4 DEF Unmet
  <2> QED BY <1>1, <1>3, <2>1, <2>2, <2>3, Refused
<1>5. CASE Newcomer(c) \notin users
  <2>1. Goto(c, "saveUser") BY <1>5 DEF FindUser, Newcomer
  <2>2. pc'[c] = "saveUser" /\ answer' = answer BY <2>1, GotoFacts
  <2>3. Routed(c)'
    BY <2>2, <1>1, <1>2 DEF Routed, Stages, Settling, Ending, Busy, Company
  <2>4. Holds(c)'
    BY <2>2, <1>1, <1>2, <1>3 DEF Holds, Settling, Ending, Busy, Early, Company, db
  <2>5. Unmet(c)'
    <3>1. Newcomer(c)' = Newcomer(c) BY <1>1 DEF Newcomer
    <3> QED BY <3>1, <2>2, <1>1, <1>2, <1>5 DEF Unmet, Settling, Ending, Busy, db, Company
  <2> QED BY <1>1, <2>1, <2>3, <2>4, <2>5, ReadOn DEF Early
<1> QED BY <1>4, <1>5

LEMMA SaveUserKeeps ==
  ASSUME IInv, NEW c \in Clients, SaveUser(c) PROVE IInv'
<1>1. /\ Busy(c) /\ pc[c] = "saveUser" /\ user' = [user EXCEPT ![c] = Newcomer(c)]
      /\ UNCHANGED <<tenants, roles, granted, userRoles, drivers, mailed, ask, raced>>
  BY DEF SaveUser, Busy, ctl, Newcomer
<1>2. /\ Routed(c) /\ Holds(c) /\ Unmet(c) /\ TypeOK /\ Functions
      /\ ask[c].kind \in UserKinds /\ role[c] = ask[c].role
  BY <1>1 DEF IInv, Routed, Holds, Settling, Ending
<1>3. wrote[c] => ask[c].kind = "register"
  BY <1>1, <1>2 DEF Holds, Settling, Ending
<1>4. Newcomer(c).email = ask[c].email /\ Newcomer(c).company = Company(c)
      /\ Newcomer(c)' = Newcomer(c) /\ Company(c)' = Company(c)
  BY <1>1 DEF Newcomer, User, Company
<1>5. DOMAIN user' = Clients /\ user'[c] = Newcomer(c)
      /\ \A d \in Clients \ {c} : user'[d] = user[d]
  BY <1>1, <1>2 DEF Functions
<1>6. CASE Newcomer(c) \in users \/ Company(c) \notin tenants
  <2>1. /\ \E s \in {"conflict", "failed", "badReference"} : Leave(c, s)
        /\ wrote' = wrote /\ role' = role /\ users' = users
    BY <1>4, <1>6 DEF SaveUser, Insert, Inserted, Refusal, Newcomer
  <2>2. PICK s \in {"conflict", "failed", "badReference"} : Leave(c, s) BY <2>1
  <2>3. s \in Status \ {None, "ok"} BY DEF Status, None
  <2>4. c \notin raced => ask[c].kind # "register"
    BY <1>1, <1>2, <1>6 DEF Unmet, Holds
  <2>5. UNCHANGED db BY <1>1, <2>1 DEF db
  <2> QED BY <1>1, <1>3, <1>5, <2>1, <2>2, <2>3, <2>4, <2>5, Refused
<1>7. CASE Newcomer(c) \notin users /\ Company(c) \in tenants
  <2>1. /\ users' = users \cup {Newcomer(c)} /\ wrote' = [wrote EXCEPT ![c] = TRUE]
        /\ IF role[c] # None THEN Goto(c, "findRole") /\ role' = role ELSE AfterUser(c)
    BY <1>2, <1>4, <1>7 DEF SaveUser, Insert, Inserted, Newcomer
  <2>2. Footprint(c)
    <3>1. CASE role[c] # None
      BY <1>1, <1>2, <1>5, <2>1, <3>1, GotoFacts DEF Footprint, Functions
    <3>2. CASE role[c] = None
      BY <1>1, <1>2, <1>5, <2>1, <3>2, AfterUserFacts DEF Footprint, Functions
    <3> QED BY <3>1, <3>2
  <2>3. TypeOK'
    <3>1. ask[c].email \in Emails BY <1>1, <1>2, AskFacts
    <3> QED BY <1>1, <1>2, <1>4, <1>7, <2>1, <3>1 DEF TypeOK
  <2>4. wrote'[c] = TRUE BY <2>1, <1>2 DEF Functions
  <2>5. \A e \in drivers' : e.user # Newcomer(c) BY <1>1, <1>2, <1>7 DEF TypeOK
  <2>6. CASE role[c] # None
    <3>1. pc'[c] = "findRole" /\ answer' = answer /\ role' = role
      BY <2>1, <2>6, GotoFacts
    <3>2. Owned' BY <2>2, <3>1, <1>1, GoingOn DEF Early, Busy
    <3>3. Routed(c)'
      BY <3>1, <2>4, <1>1, <1>2, <1>4 DEF Routed, Stages, Settling, Ending, Busy
    <3>4. Holds(c)'
      <4>1. role[c] \in RoleNames BY <1>1, <1>2, <2>6, AskFacts
      <4> QED BY <4>1, <3>1, <2>1, <2>4, <1>1, <1>2, <1>4, <1>5
          DEF Holds, Settling, Ending, Busy, Early, UserKinds
    <3>5. Unmet(c)'
      BY <3>1, <2>1, <2>5, <1>1, <1>2, <1>4, <1>5 DEF Unmet, Settling, Ending, Busy
    <3> QED BY <2>2, <2>3, <3>2, <3>3, <3>4, <3>5, StepKeeps
  <2>7. CASE role[c] = None
    <3>1. AfterUser(c) BY <2>1, <2>7
    <3>2. role[c] # Admin BY <2>7, AccountsAssumption
    <3> QED BY <3>1, <3>2, <2>1, <2>2, <2>3, <2>4, <2>5, <1>1, <1>5, AfterUserKeeps
  <2> QED BY <2>6, <2>7
<1> QED BY <1>6, <1>7

LEMMA FindRoleKeeps ==
  ASSUME IInv, NEW c \in Clients, FindRole(c) PROVE IInv'
<1>1. /\ Busy(c) /\ UNCHANGED <<db, ask, raced, user, role, wrote>> /\ pc[c] = "findRole"
      /\ DOMAIN user = Clients /\ DOMAIN role = Clients
  BY DEF FindRole, Busy, db, ctl, IInv, Functions
<1>2. Routed(c) /\ Holds(c) /\ Unmet(c)
  BY DEF IInv
<1>3. Newcomer(c)' = Newcomer(c) /\ Company(c)' = Company(c) BY <1>1 DEF Newcomer, Company
<1>4. CASE <<Company(c), role[c]>> \in roles
  <2>1. Goto(c, "findUserRole") BY <1>4 DEF FindRole, Company
  <2>2. pc'[c] = "findUserRole" /\ answer' = answer BY <2>1, GotoFacts
  <2>3. Routed(c)'
    BY <2>2, <1>1, <1>2, <1>3 DEF Routed, Stages, Settling, Ending, Busy
  <2>4. Holds(c)'
    BY <2>2, <1>1, <1>2, <1>3, <1>4 DEF Holds, Settling, Ending, Busy, Early, db
  <2>5. Unmet(c)'
    BY <2>2, <1>1, <1>2, <1>3 DEF Unmet, Settling, Ending, Busy, db
  <2> QED BY <1>1, <2>1, <2>3, <2>4, <2>5, ReadOn DEF Early
<1>5. CASE <<Company(c), role[c]>> \notin roles
  <2>1. Goto(c, "saveRole") BY <1>5 DEF FindRole, Company
  <2>2. pc'[c] = "saveRole" /\ answer' = answer BY <2>1, GotoFacts
  <2>3. Routed(c)'
    BY <2>2, <1>1, <1>2, <1>3 DEF Routed, Stages, Settling, Ending, Busy
  <2>4. Holds(c)'
    BY <2>2, <1>1, <1>2, <1>3 DEF Holds, Settling, Ending, Busy, Early, db
  <2>5. Unmet(c)'
    BY <2>2, <1>1, <1>2, <1>3, <1>5 DEF Unmet, Settling, Ending, Busy, db
  <2> QED BY <1>1, <2>1, <2>3, <2>4, <2>5, ReadOn DEF Early
<1> QED BY <1>4, <1>5

LEMMA SaveRoleKeeps ==
  ASSUME IInv, NEW c \in Clients, SaveRole(c) PROVE IInv'
<1>1. /\ Busy(c) /\ pc[c] = "saveRole" /\ roles' = roles \cup {<<Company(c), role[c]>>}
      /\ UNCHANGED <<tenants, granted, users, userRoles, drivers, mailed, ask, raced, user, role>>
  BY DEF SaveRole, Busy, ctl, Company
<1>2. Routed(c) /\ Holds(c) /\ Unmet(c) /\ TypeOK /\ Functions BY DEF IInv
<1>3. Newcomer(c).company = Company(c) /\ Newcomer(c)' = Newcomer(c) /\ Company(c)' = Company(c)
  BY <1>1 DEF Newcomer, User, Company
<1>4. CASE <<Company(c), role[c]>> \in roles
  <2>1. Leave(c, "conflict") /\ wrote' = wrote
    BY <1>4 DEF SaveRole, Insert, Refusal, Company
  <2>2. "conflict" \in Status \ {None, "ok"} BY DEF Status, None
  <2>3. UNCHANGED db BY <1>1, <1>4 DEF db
  <2>4. c \in raced BY <1>1, <1>2, <1>4 DEF Unmet
  <2> QED BY <1>1, <1>2, <2>1, <2>2, <2>3, <2>4, Refused DEF Functions
<1>5. CASE <<Company(c), role[c]>> \notin roles
  <2>1. wrote' = [wrote EXCEPT ![c] = TRUE] /\ Goto(c, "findUserRole")
    BY <1>5 DEF SaveRole, Insert, Company
  <2>2. Footprint(c)
    BY <1>1, <1>2, <2>1, GotoFacts DEF Footprint, Functions
  <2>3. TypeOK'
    <3>1. Company(c) \in tenants /\ role[c] \in RoleNames
      BY <1>1, <1>2, <1>3 DEF Holds, Settling, TypeOK
    <3> QED BY <1>1, <1>2, <3>1 DEF TypeOK
  <2>4. pc'[c] = "findUserRole" /\ answer' = answer BY <2>1, GotoFacts
  <2>5. wrote'[c] = TRUE BY <2>1, <1>2 DEF Functions
  <2>6. Owned' BY <2>2, <2>4, <1>1, GoingOn DEF Early, Busy
  <2>7. Routed(c)'
    BY <2>4, <2>5, <1>1, <1>2, <1>3 DEF Routed, Stages, Settling, Ending, Busy
  <2>8. Holds(c)'
    <3>1. ask[c].kind # "createDriver" BY <1>1, <1>2 DEF Routed, Settling, UserKinds
    <3> QED BY <3>1, <2>4, <2>5, <1>1, <1>2, <1>3 DEF Holds, Settling, Ending, Busy, Early
  <2>9. Unmet(c)'
    <3>1. c \notin raced /\ ask[c].kind \in DriverKinds => \A e \in drivers : e.user # user[c]
      <4>1. ask[c].kind \in DriverKinds /\ c \notin raced /\ wrote[c] =>
              \A e \in drivers : e.user # user[c]
        BY <1>1, <1>2 DEF Unmet, Settling
      <4>2. wrote[c] BY <1>1, <1>2 DEF Holds, Settling
      <4> QED BY <4>1, <4>2
    <3> QED BY <3>1, <2>4, <1>1, <1>2, <1>3 DEF Unmet, Settling, Ending, Busy
  <2> QED BY <2>2, <2>3, <2>6, <2>7, <2>8, <2>9, StepKeeps
<1> QED BY <1>4, <1>5

LEMMA FindUserRoleKeeps ==
  ASSUME IInv, NEW c \in Clients, FindUserRole(c) PROVE IInv'
<1>1. /\ Busy(c) /\ UNCHANGED <<db, ask, raced, user, wrote>> /\ pc[c] = "findUserRole"
      /\ DOMAIN user = Clients /\ DOMAIN role = Clients
  BY DEF FindUserRole, Busy, db, ctl, IInv, Functions
<1>2. Routed(c) /\ Holds(c) /\ Unmet(c) /\ TypeOK /\ Functions BY DEF IInv
<1>3. Newcomer(c)' = Newcomer(c) /\ Company(c)' = Company(c) BY <1>1 DEF Newcomer, Company
<1>4. user[c] = Newcomer(c) /\ user[c] \in users BY <1>1, <1>2 DEF Holds, Settling
<1>5. CASE <<user[c], role[c]>> \in userRoles
  <2>1. AfterUser(c) BY <1>5 DEF FindUserRole
  <2>2. Footprint(c) BY <1>1, <1>2, <2>1, AfterUserFacts DEF Footprint, Functions, db
  <2>3. TypeOK' BY <1>1, <1>2, TypeKept
  <2>4. wrote[c] = TRUE BY <1>1, <1>2 DEF Holds, Settling
  <2>5. c \notin raced /\ ask[c].kind \in DriverKinds =>
           \A e \in drivers' : e.user # Newcomer(c)
    BY <1>1, <1>2, <1>4, <2>4 DEF Unmet, db, Settling
  <2> QED BY <1>1, <1>4, <1>5, <2>1, <2>2, <2>3, <2>4, <2>5, AfterUserKeeps DEF db
<1>6. CASE <<user[c], role[c]>> \notin userRoles
  <2>1. Goto(c, "saveUserRole") /\ role' = role BY <1>6 DEF FindUserRole
  <2>2. pc'[c] = "saveUserRole" /\ answer' = answer BY <2>1, GotoFacts
  <2>3. Routed(c)'
    BY <2>2, <1>1, <1>2, <1>3 DEF Routed, Stages, Settling, Ending, Busy
  <2>4. Holds(c)'
    BY <2>1, <2>2, <1>1, <1>2, <1>3 DEF Holds, Settling, Ending, Busy, Early, db
  <2>5. Unmet(c)'
    BY <2>1, <2>2, <1>1, <1>2, <1>3 DEF Unmet, Settling, Ending, Busy, db
  <2> QED BY <1>1, <2>1, <2>3, <2>4, <2>5, ReadOn DEF Early
<1> QED BY <1>5, <1>6

LEMMA SaveUserRoleKeeps ==
  ASSUME IInv, NEW c \in Clients, SaveUserRole(c) PROVE IInv'
<1>1. /\ Busy(c) /\ pc[c] = "saveUserRole" /\ AfterUser(c)
      /\ userRoles' = userRoles \cup {<<user[c], role[c]>>} /\ wrote' = [wrote EXCEPT ![c] = TRUE]
      /\ UNCHANGED <<tenants, roles, granted, users, drivers, mailed, ask, raced, user>>
  BY DEF SaveUserRole, Busy, ctl
<1>2. Routed(c) /\ Holds(c) /\ Unmet(c) /\ TypeOK /\ Functions BY DEF IInv
<1>3. user[c] = Newcomer(c) /\ user[c] \in users /\ <<Company(c), role[c]>> \in roles /\ wrote[c] = TRUE
      /\ Newcomer(c).company = Company(c)
  BY <1>1, <1>2 DEF Holds, Settling, Newcomer, User, Company
<1>4. Footprint(c) BY <1>1, <1>2, AfterUserFacts DEF Footprint, Functions
<1>5. TypeOK' BY <1>1, <1>2, <1>3 DEF TypeOK
<1>6. wrote'[c] = TRUE BY <1>1, <1>2 DEF Functions
<1>7. c \notin raced /\ ask[c].kind \in DriverKinds =>
         \A e \in drivers' : e.user # Newcomer(c)
  BY <1>1, <1>2, <1>3 DEF Unmet, Settling
<1> QED BY <1>1, <1>3, <1>4, <1>5, <1>6, <1>7, AfterUserKeeps

-----------------------------------------------------------------------------
(* Invitations and drivers                                                 *)

LEMMA LoadTenantKeeps ==
  ASSUME IInv, NEW c \in Clients, LoadTenant(c) PROVE IInv'
<1>1. Busy(c) /\ UNCHANGED <<db, ask, raced, user, role, wrote>> /\ pc[c] = "loadTenant"
      /\ DOMAIN user = Clients /\ DOMAIN role = Clients
  BY DEF LoadTenant, Busy, db, ctl, IInv, Functions
<1>2. Routed(c) /\ Holds(c) /\ Unmet(c) /\ wrote[c] = FALSE
      /\ ask[c].kind \in {"inviteUser", "inviteDriver"}
  BY <1>1 DEF IInv, Holds, Early, Settling, Ending, Routed
<1>3. CASE Company(c) \notin tenants
  <2>1. Leave(c, "notFound") BY <1>3 DEF LoadTenant, Company
  <2>2. "notFound" \in Status \ {None, "ok"} BY DEF Status, None
  <2> QED BY <1>1, <1>2, <2>1, <2>2, Refused
<1>4. ASSUME NEW l \in {"checkUser", "findAnyUser"}, Goto(c, l),
             l = "checkUser" => ask[c].kind = "inviteUser",
             l = "findAnyUser" => ask[c].kind = "inviteDriver"
      PROVE  IInv'
  <2>2. pc'[c] = l /\ answer' = answer BY <1>4, GotoFacts
  <2>3. Routed(c)'
    BY <2>2, <1>1, <1>2, <1>4 DEF Routed, Stages, Settling, Ending, Busy
  <2>4. Holds(c)'
    BY <2>2, <1>1, <1>2 DEF Holds, Settling, Ending, Busy
  <2>5. Unmet(c)'
    BY <2>2, <1>1, <1>2 DEF Unmet, Settling, Ending, Busy
  <2> QED BY <1>1, <1>4, <2>3, <2>4, <2>5, ReadOn DEF Early
<1>5. CASE Company(c) \in tenants /\ ask[c].kind = "inviteUser"
  <2>1. Goto(c, "checkUser") BY <1>5 DEF LoadTenant, Company
  <2> QED BY <2>1, <1>4, <1>5
<1>6. CASE Company(c) \in tenants /\ ask[c].kind = "inviteDriver"
  <2>1. Goto(c, "findAnyUser") BY <1>6 DEF LoadTenant, Company
  <2> QED BY <2>1, <1>4, <1>6
<1> QED BY <1>2, <1>3, <1>5, <1>6

LEMMA CheckUserKeeps ==
  ASSUME IInv, NEW c \in Clients, CheckUser(c) PROVE IInv'
<1>1. Busy(c) /\ UNCHANGED <<db, ask, raced, user, role, wrote>> /\ pc[c] = "checkUser"
      /\ DOMAIN user = Clients /\ DOMAIN role = Clients
  BY DEF CheckUser, Busy, db, ctl, IInv, Functions
<1>2. Routed(c) /\ Holds(c) /\ Unmet(c) /\ wrote[c] = FALSE /\ ask[c].kind = "inviteUser"
  BY <1>1 DEF IInv, Holds, Early, Settling, Ending, Routed
<1>3. CASE Newcomer(c) \in users
  <2>1. Leave(c, "conflict") BY <1>3 DEF CheckUser, Newcomer
  <2>2. "conflict" \in Status \ {None, "ok"} BY DEF Status, None
  <2> QED BY <1>1, <1>2, <2>1, <2>2, Refused
<1>4. CASE Newcomer(c) \notin users
  <2>1. Goto(c, "findUser") BY <1>4 DEF CheckUser, Newcomer
  <2>2. pc'[c] = "findUser" /\ answer' = answer BY <2>1, GotoFacts
  <2>3. Routed(c)'
    <3>1. Company(c) # None
      <4>1. Company(c) \in Companies BY <1>1, <1>2, AskFacts
      <4> QED BY <4>1, AccountsAssumption
    <3> QED BY <2>2, <3>1, <1>1, <1>2
        DEF Routed, Stages, Settling, Ending, Busy, Company, UserKinds
  <2>4. Holds(c)'
    BY <2>2, <1>1, <1>2 DEF Holds, Settling, Ending, Busy
  <2>5. Unmet(c)'
    BY <2>2, <1>1, <1>2 DEF Unmet, Settling, Ending, Busy
  <2> QED BY <1>1, <2>1, <2>3, <2>4, <2>5, ReadOn DEF Early
<1> QED BY <1>3, <1>4

LEMMA FindAnyUserKeeps ==
  ASSUME IInv, NEW c \in Clients, FindAnyUser(c) PROVE IInv'
<1>1. Busy(c) /\ UNCHANGED <<db, ask, raced, role, wrote>> /\ pc[c] = "findAnyUser"
      /\ DOMAIN user = Clients /\ DOMAIN role = Clients
  BY DEF FindAnyUser, Busy, db, ctl, IInv, Functions
<1>2. Routed(c) /\ Holds(c) /\ Unmet(c) /\ wrote[c] = FALSE /\ ask[c].kind = "inviteDriver"
  BY <1>1 DEF IInv, Holds, Early, Settling, Ending, Routed
<1>3. CASE {u \in users : u.email = ask[c].email} = {}
  <2>1. Goto(c, "findUser") /\ user' = user BY <1>3 DEF FindAnyUser
  <2>2. pc'[c] = "findUser" /\ answer' = answer BY <2>1, GotoFacts
  <2>3. Routed(c)'
    <3>1. Company(c) # None
      <4>1. Company(c) \in Companies BY <1>1, <1>2, AskFacts
      <4> QED BY <4>1, AccountsAssumption
    <3> QED BY <2>2, <3>1, <1>1, <1>2
        DEF Routed, Stages, Settling, Ending, Busy, Company, UserKinds
  <2>4. Holds(c)'
    BY <2>1, <2>2, <1>1, <1>2 DEF Holds, Settling, Ending, Busy
  <2>5. Unmet(c)'
    BY <2>1, <2>2, <1>1, <1>2 DEF Unmet, Settling, Ending, Busy
  <2> QED BY <1>1, <2>1, <2>3, <2>4, <2>5, ReadOn DEF Early
<1>4. CASE {u \in users : u.email = ask[c].email} # {}
  <2>1. Goto(c, "mail") BY <1>4 DEF FindAnyUser
  <2>2. PICK u \in users : u.email = ask[c].email /\ user' = [user EXCEPT ![c] = u]
    BY <1>4 DEF FindAnyUser
  <2>3. DOMAIN user' = Clients /\ user'[c] = u /\ \A d \in Clients \ {c} : user'[d] = user[d]
    BY <1>1, <2>2
  <2>4. pc'[c] = "mail" /\ answer' = answer BY <2>1, GotoFacts
  <2>5. Routed(c)'
    BY <2>4, <1>1, <1>2 DEF Routed, Stages, Settling, Ending, Busy
  <2>6. Holds(c)'
    BY <2>2, <2>3, <2>4, <1>1, <1>2 DEF Holds, Settling, Ending, Busy, db
  <2>7. Unmet(c)'
    BY <2>4, <1>1, <1>2 DEF Unmet, Settling, Ending, Busy
  <2> QED BY <1>1, <2>1, <2>3, <2>5, <2>6, <2>7, ReadOn DEF Early
<1> QED BY <1>3, <1>4

LEMMA SendMailKeeps ==
  ASSUME IInv, NEW c \in Clients, SendMail(c) PROVE IInv'
<1>1. /\ Busy(c) /\ pc[c] = "mail"
      /\ UNCHANGED <<tenants, roles, granted, users, userRoles, drivers, ask, raced, user, role,
                     wrote>>
  BY DEF SendMail, Busy
<1>2. /\ Routed(c) /\ Holds(c) /\ Unmet(c) /\ TypeOK /\ Functions
      /\ ask[c].kind \in {"inviteUser", "inviteDriver"}
  BY <1>1 DEF IInv, Routed
<1>3. user[c] \in users /\ user[c].email = ask[c].email BY <1>1, <1>2 DEF Holds
<1>4. CASE mailed' = mailed /\ Leave(c, "failed")
  <2>1. "failed" \in Status \ {None, "ok"} BY DEF Status, None
  <2>2. UNCHANGED db BY <1>1, <1>4 DEF db
  <2> QED BY <1>1, <1>2, <1>4, <2>1, <2>2, Refused DEF Functions
<1>5. CASE /\ mailed' = mailed \cup {user[c]}
           /\ IF ask[c].kind = "inviteDriver" THEN Goto(c, "findDriver") ELSE Leave(c, "ok")
  <2>1. TypeOK' BY <1>1, <1>2, <1>3, <1>5 DEF TypeOK
  <2>2. CASE ask[c].kind = "inviteDriver"
    <3>1. Goto(c, "findDriver") BY <1>5, <2>2
    <3>2. pc'[c] = "findDriver" /\ answer' = answer BY <3>1, GotoFacts
    <3>3. Footprint(c) BY <1>1, <1>2, <3>1, GotoFacts DEF Footprint, Functions
    <3>4. Owned' BY <1>1, <3>2, <3>3, GoingOn DEF Early, Busy
    <3>5. Routed(c)'
      BY <3>2, <2>2, <1>1, <1>2 DEF Routed, Stages, Settling, Ending, Busy
    <3>6. Holds(c)'
      BY <3>2, <2>2, <1>1, <1>2, <1>3 DEF Holds, Settling, Ending, Busy
    <3>7. Unmet(c)'
      BY <3>2, <2>2, <1>1, <1>2 DEF Unmet, Settling, Ending, Busy
    <3> QED BY <2>1, <3>3, <3>4, <3>5, <3>6, <3>7, StepKeeps
  <2>3. CASE ask[c].kind # "inviteDriver"
    <3>1. Leave(c, "ok") BY <1>5, <2>3
    <3>2. Footprint(c) BY <1>1, <1>2, <3>1, LeaveFacts DEF Footprint, Functions
    <3>3. Owned' BY <1>1, <1>2, <3>2, OwnedKept DEF Owner
    <3>4. wrote'[c] \in BOOLEAN BY <1>1, <1>2 DEF Routed
    <3> QED BY <1>2, <2>1, <3>1, <3>2, <3>3, <3>4, Answered
  <2> QED BY <2>2, <2>3
<1> QED BY <1>4, <1>5 DEF SendMail

LEMMA FindDriverKeeps ==
  ASSUME IInv, NEW c \in Clients, FindDriver(c) PROVE IInv'
<1>1. Busy(c) /\ UNCHANGED <<db, ask, raced, user, role, wrote>> /\ pc[c] = "findDriver"
      /\ DOMAIN user = Clients /\ DOMAIN role = Clients
  BY DEF FindDriver, Busy, db, ctl, IInv, Functions
<1>2. /\ Routed(c) /\ Holds(c) /\ Unmet(c) /\ ask[c].kind \in {"registerDriver", "inviteDriver"}
      /\ ask[c].kind \in DriverKinds
  BY <1>1 DEF IInv, Routed, DriverKinds
<1>3. CASE DriverHere(c) /\ ask[c].kind = "inviteDriver"
  <2>1. Leave(c, "conflict") BY <1>3 DEF FindDriver
  <2>2. "conflict" \in Status \ {None, "ok"} BY DEF Status, None
  <2>3. c \notin raced => wrote[c] # TRUE
    BY <1>1, <1>2, <1>3 DEF Unmet, DriverHere, Ending
  <2>4. wrote[c] \in BOOLEAN BY <1>2 DEF Routed
  <2> QED BY <1>1, <1>2, <2>1, <2>2, <2>3, <2>4, Refused
<1>4. CASE DriverHere(c) /\ ask[c].kind = "registerDriver"
  <2>1. Leave(c, "ok") BY <1>4 DEF FindDriver
  <2> QED BY <1>1, <1>4, <2>1, AnsweredAfterRead
<1>5. CASE ~DriverHere(c)
  <2>1. Goto(c, "saveDriver") BY <1>5 DEF FindDriver
  <2>2. pc'[c] = "saveDriver" /\ answer' = answer BY <2>1, GotoFacts
  <2>3. Routed(c)'
    BY <2>2, <1>1, <1>2 DEF Routed, Stages, Settling, Ending, Busy
  <2>4. Holds(c)'
    BY <2>2, <1>1, <1>2 DEF Holds, Settling, Ending, Busy, db
  <2>5. Unmet(c)'
    BY <2>2, <1>1, <1>2 DEF Unmet, Settling, Ending, Busy, db
  <2> QED BY <1>1, <2>1, <2>3, <2>4, <2>5, ReadOn DEF Early
<1> QED BY <1>2, <1>3, <1>4, <1>5

LEMMA SaveDriverKeeps ==
  ASSUME IInv, NEW c \in Clients, SaveDriver(c) PROVE IInv'
<1> DEFINE dr == [user |-> user[c], company |-> ask[c].company,
                  cpf |-> IF ask[c].kind = "createDriver" THEN ask[c].cpf ELSE Placeholder]
<1>1. /\ Busy(c) /\ pc[c] = "saveDriver"
      /\ UNCHANGED <<tenants, roles, granted, users, userRoles, mailed, ask, raced, user, role>>
  BY DEF SaveDriver, Busy, ctl
<1>2. /\ Routed(c) /\ Holds(c) /\ Unmet(c) /\ TypeOK /\ Functions /\ ask[c].kind \in DriverKinds
      /\ ask[c].kind # "register"
  BY <1>1 DEF IInv, Routed, DriverKinds
<1>3. wrote[c] => ask[c].kind # "createDriver" BY <1>1, <1>2 DEF Holds
<1>4. ask[c].kind # "createDriver" => user[c] \in users BY <1>1, <1>2 DEF Holds
<1>5. CASE DriverTaken(dr) \/ dr.user \notin users
  <2>1. /\ \E s \in {"conflict", "badReference"} : Leave(c, s)
        /\ wrote' = wrote /\ drivers' = drivers
    BY <1>2, <1>5 DEF SaveDriver, Insert, Inserted, Refusal, DriverKinds
  <2>2. PICK s \in {"conflict", "badReference"} : Leave(c, s) BY <2>1
  <2>3. s \in Status \ {None, "ok"} BY DEF Status, None
  <2>4. c \notin raced /\ wrote[c] => \E e \in drivers : e.cpf = Placeholder
    <3> SUFFICES ASSUME c \notin raced, wrote[c] PROVE \E e \in drivers : e.cpf = Placeholder
      OBVIOUS
    <3>1. dr.user = user[c] /\ dr.cpf = Placeholder BY <1>3
    <3>2. PICK e \in drivers : e.user = dr.user \/ e.cpf = dr.cpf
      BY <1>3, <1>4, <1>5, <3>1 DEF DriverTaken
    <3>3. e.user # user[c] BY <1>1, <1>2 DEF Unmet, Ending
    <3> QED BY <3>1, <3>2, <3>3
  <2>5. UNCHANGED db BY <1>1, <2>1 DEF db
  <2> QED BY <1>1, <1>2, <2>1, <2>2, <2>3, <2>4, <2>5, Refused DEF Functions
<1>6. CASE ~DriverTaken(dr) /\ dr.user \in users
  <2>1. drivers' = drivers \cup {dr} /\ wrote' = [wrote EXCEPT ![c] = TRUE] /\ Leave(c, "ok")
    BY <1>6 DEF SaveDriver, Insert, Inserted
  <2>2. dr.user = user[c] OBVIOUS
  <2>3. Footprint(c)
    <3> HIDE DEF dr
    <3> QED BY <1>1, <1>2, <2>1, <2>2, LeaveFacts DEF Footprint, Functions
  <2>4. TypeOK'
    <3> HIDE DEF dr
    <3> QED BY <1>1, <1>2, <1>6, <2>1 DEF TypeOK, DriverTaken
  <2>5. Owned' BY <1>1, <1>2, <2>3, OwnedKept DEF Owner
  <2>6. wrote'[c] \in BOOLEAN BY <2>1, <1>2 DEF Functions
  <2> QED BY <1>2, <2>1, <2>3, <2>4, <2>5, <2>6, Answered
<1> QED BY <1>5, <1>6

-----------------------------------------------------------------------------
(* The beginning of a request and of a run                                 *)

\* Requests that share no named thing share no company and no e-mail.
LEMMA StrangersAreDisjoint ==
  ASSUME NEW a, NEW b, (Things(a) \cap Things(b)) \ Unnamed = {}
  PROVE  /\ a.company # None => a.company # b.company
         /\ a.email # None => a.email \notin {b.email, b.user.email}
         /\ a.user.email # None => a.user.email \notin {b.email, b.user.email}
<1>1. \A n, x : x # None => <<n, x>> \notin Unnamed BY DEF Unnamed
<1>2. \A n, x : <<n, x>> \in Things(a) /\ <<n, x>> \in Things(b) => x = None
  BY <1>1
<1>3. \A d \in {a, b} : <<"email", d.email>> \in Things(d)
                        /\ <<"email", d.user.email>> \in Things(d)
                        /\ <<"company", d.company>> \in Things(d)
  BY DEF Things
<1> QED BY <1>2, <1>3

LEMMA BeginKeeps ==
  ASSUME IInv, NEW c \in Clients, Begin(c) PROVE IInv'
<1>1. PICK a \in Asks :
        /\ ask' = [ask EXCEPT ![c] = a] /\ pc' = [pc EXCEPT ![c] = FirstStep[a.kind]]
        /\ raced' = IF Rivals(c, a) = {} THEN raced \ {c} ELSE raced \cup Rivals(c, a) \cup {c}
        /\ user' = [user EXCEPT ![c] = a.user] /\ role' = [role EXCEPT ![c] = a.role]
  BY DEF Begin
<1>2. /\ UNCHANGED db /\ excused' = excused /\ pc[c] = "idle"
      /\ answer' = [answer EXCEPT ![c] = None] /\ wrote' = [wrote EXCEPT ![c] = FALSE]
  BY DEF Begin, db
<1>3. Functions BY DEF IInv
<1>4. \A d \in Clients \ {c} :
        /\ pc'[d] = pc[d] /\ ask'[d] = ask[d] /\ user'[d] = user[d] /\ role'[d] = role[d]
        /\ answer'[d] = answer[d] /\ wrote'[d] = wrote[d] /\ (d \notin raced' => d \notin raced)
  BY <1>1, <1>2, <1>3 DEF Functions
<1>5. /\ pc'[c] = FirstStep[a.kind] /\ ask'[c] = a /\ user'[c] = a.user /\ role'[c] = a.role
      /\ answer'[c] = None /\ wrote'[c] = FALSE
  BY <1>1, <1>2, <1>3 DEF Functions
<1>6. Functions'
  BY <1>1, <1>2, <1>3 DEF Functions, Rivals
<1>7. TypeOK' BY <1>2, TypeKept DEF IInv
<1>8. \A d \in Clients \ {c} : Routed(d)' /\ Holds(d)' /\ Unmet(d)'
  <2> TAKE d \in Clients \ {c}
  <2>1. Routed(d) /\ Holds(d) /\ Unmet(d) BY DEF IInv
  <2>2. Routed(d)' BY <2>1, <1>4 DEF Routed, Busy, Company
  <2>3. Holds(d)' BY <2>1, <1>2, <1>4 DEF Holds, Busy, Company, Newcomer, db
  <2>4. Unmet(d)' BY <2>1, <1>2, <1>4 DEF Unmet, Busy, Company, Newcomer, db
  <2> QED BY <2>2, <2>3, <2>4
<1>9. Apart'
  <2> SUFFICES ASSUME NEW b \in Clients, NEW d \in Clients, b # d, Busy(b)', Busy(d)',
                      b \notin raced'
               PROVE  Disjoint(b, d)'
    BY DEF Apart
  <2>1. CASE b # c /\ d # c
    <3>1. Disjoint(b, d) BY <2>1, <1>4 DEF IInv, Apart, Busy
    <3> QED BY <3>1, <2>1, <1>4 DEF Disjoint, Company
  <2>2. CASE b = c
    <3>1. Rivals(c, a) = {} BY <2>2, <1>1
    <3>2. Busy(d) BY <2>2, <1>4 DEF Busy
    <3>3. (Things(a) \cap Things(ask[d])) \ Unnamed = {} BY <3>1, <3>2, <2>2 DEF Rivals
    <3>4. ask'[b] = a /\ ask'[d] = ask[d] BY <2>2, <1>4, <1>5
    <3> QED BY <3>3, <3>4, StrangersAreDisjoint DEF Disjoint, Company
  <2>3. CASE d = c
    <3>1. b \notin Rivals(c, a) BY <1>1
    <3>2. Busy(b) BY <2>3, <1>4 DEF Busy
    <3>3. (Things(a) \cap Things(ask[b])) \ Unnamed = {} BY <3>1, <3>2, <2>3 DEF Rivals
    <3>4. (Things(ask[b]) \cap Things(a)) \ Unnamed = {} BY <3>3
    <3>5. ask'[d] = a /\ ask'[b] = ask[b] BY <2>3, <1>4, <1>5
    <3> QED BY <3>4, <3>5, StrangersAreDisjoint DEF Disjoint, Company
  <2> QED BY <2>1, <2>2, <2>3
<1>10. Owned'
  <2> SUFFICES ASSUME NEW t \in tenants, t \notin excused
               PROVE  Administered(t)' \/ \E d \in Clients : Owner(d, t)'
    BY <1>2 DEF Owned, db
  <2>1. Administered(t) \/ \E d \in Clients : Owner(d, t) BY DEF IInv, Owned
  <2>2. CASE Administered(t) BY <2>2, <1>2 DEF Administered, db
  <2>3. CASE \E d \in Clients : Owner(d, t)
    <3>1. PICK d \in Clients : Owner(d, t) BY <2>3
    <3>2. d # c BY <3>1, <1>2 DEF Owner, Busy
    <3>3. Owner(d, t)' BY <3>1, <3>2, <1>4 DEF Owner, Busy, Company
    <3> QED BY <3>3
  <2> QED BY <2>1, <2>2, <2>3
<1>11. /\ a.kind \in Kinds /\ a.company \in Companies \cup {None}
       /\ a.kind # "join" => a.company # None
  <2>1. DOMAIN FirstStep = Kinds BY DEF FirstStep, Kinds, UserKinds
  <2> QED BY <2>1, AsksAssumption
<1>12. /\ a.kind \in {"register", "join"} => pc'[c] = "findEmail"
       /\ a.kind \in {"createUser", "registerDriver"} => pc'[c] = "findUser"
       /\ a.kind \in {"inviteUser", "inviteDriver"} => pc'[c] = "loadTenant"
       /\ a.kind = "createDriver" => pc'[c] = "saveDriver"
       /\ a.kind = "createTenant" => pc'[c] = "saveTenant"
  BY <1>5 DEF FirstStep
<1>13. a.kind \in {"register", "join", "createUser", "registerDriver", "inviteUser",
                   "inviteDriver", "createDriver", "createTenant"}
  BY <1>11 DEF Kinds, UserKinds
<1>14. Routed(c)'
  BY <1>5, <1>11, <1>12, <1>13
     DEF Routed, Stages, Settling, Ending, Busy, Company, Status, UserKinds, DriverKinds
<1>15. Holds(c)'
  BY <1>5, <1>12, <1>13 DEF Holds, Settling, Ending, Busy
<1>16. Unmet(c)'
  BY <1>5, <1>12, <1>13 DEF Unmet, Settling, Ending, Busy
<1> QED BY <1>6, <1>7, <1>8, <1>9, <1>10, <1>14, <1>15, <1>16 DEF IInv

LEMMA InitHolds == Init => IInv
<1> SUFFICES ASSUME Init PROVE IInv
  OBVIOUS
<1>1. PICK d \in Starts :
        /\ tenants = d.tenants /\ users = d.users /\ drivers = d.drivers /\ granted = d.tenants
        /\ roles = d.tenants \X {Admin} /\ userRoles = d.users \X {Admin}
  BY DEF Init
<1>2. /\ mailed = {} /\ raced = {}
      /\ \A c \in Clients :
           /\ pc[c] = "idle" /\ ask[c] = NoAsk /\ answer[c] = None /\ wrote[c] = FALSE
  BY DEF Init
<1>3. TypeOK
  BY <1>1, <1>2, StartsAssumption, AccountsAssumption DEF TypeOK
<1>4. Functions BY DEF Init, Functions
<1>5. Apart BY <1>2 DEF Apart, Busy
<1>6. Owned
  <2>1. \A t \in tenants : Administered(t)
    BY <1>1, StartsAssumption DEF Administered
  <2> QED BY <2>1 DEF Owned
<1>7. \A c \in Clients : Routed(c) /\ Holds(c) /\ Unmet(c)
  <2> TAKE c \in Clients
  <2>1. NoAsk.kind = None BY DEF NoAsk
  <2>2. Routed(c) BY <1>2, <2>1 DEF Routed, Stages, Settling, Ending, Busy, Status
  <2>3. Holds(c) BY <1>2, <2>1 DEF Holds, Settling, Busy, None
  <2>4. Unmet(c) BY <1>2, <2>1 DEF Unmet, Settling, Ending, Busy, None
  <2> QED BY <2>2, <2>3, <2>4
<1> QED BY <1>3, <1>4, <1>5, <1>6, <1>7 DEF IInv

LEMMA StuttersKeep == IInv /\ UNCHANGED vars => IInv'
<1> SUFFICES ASSUME IInv, UNCHANGED vars PROVE IInv'
  OBVIOUS
<1>1. UNCHANGED <<tenants, roles, granted, users, userRoles, drivers, mailed, ask, pc, user, role,
                  answer, wrote, raced, excused>>
  BY DEF vars, db, ctl
<1>2. TypeOK' /\ Functions' BY <1>1 DEF IInv, TypeOK, Functions
<1>3. Apart' BY <1>1 DEF IInv, Apart, Busy, Disjoint, Company
<1>4. Owned' BY <1>1 DEF IInv, Owned, Owner, Administered, Busy, Company
<1>5. \A c \in Clients : Routed(c)' /\ Holds(c)' /\ Unmet(c)'
  <2> TAKE c \in Clients
  <2>1. Routed(c) /\ Holds(c) /\ Unmet(c) BY DEF IInv
  <2>2. Routed(c)' BY <2>1, <1>1 DEF Routed, Busy, Company
  <2>3. Holds(c)' BY <2>1, <1>1 DEF Holds, Busy, Company, Newcomer
  <2>4. Unmet(c)' BY <2>1, <1>1 DEF Unmet, Busy, Company, Newcomer
  <2> QED BY <2>2, <2>3, <2>4
<1> QED BY <1>2, <1>3, <1>4, <1>5 DEF IInv

LEMMA NextKeeps == IInv /\ [Next]_vars => IInv'
<1> SUFFICES ASSUME IInv, [Next]_vars PROVE IInv'
  OBVIOUS
<1>1. CASE UNCHANGED vars BY <1>1, StuttersKeep
<1>2. CASE Next
  <2>1. PICK c \in Clients :
          \/ Begin(c) \/ Cut(c)
          \/ FindEmail(c) \/ FindSlug(c) \/ SaveTenant(c) \/ SaveAdminRole(c) \/ GrantAll(c)
          \/ FindUser(c) \/ SaveUser(c) \/ FindRole(c) \/ SaveRole(c)
          \/ FindUserRole(c) \/ SaveUserRole(c)
          \/ LoadTenant(c) \/ CheckUser(c) \/ FindAnyUser(c) \/ SendMail(c)
          \/ FindDriver(c) \/ SaveDriver(c)
    BY <1>2 DEF Next
  <2> QED BY <2>1, BeginKeeps, CutKeeps, FindEmailKeeps, FindSlugKeeps, SaveTenantKeeps,
             SaveAdminRoleKeeps, GrantAllKeeps, FindUserKeeps, SaveUserKeeps, FindRoleKeeps,
             SaveRoleKeeps, FindUserRoleKeeps, SaveUserRoleKeeps, LoadTenantKeeps, CheckUserKeeps,
             FindAnyUserKeeps, SendMailKeeps, FindDriverKeeps, SaveDriverKeeps
<1> QED BY <1>1, <1>2

LEMMA InvariantHolds == Spec => []IInv
BY InitHolds, NextKeeps, PTL DEF Spec

-----------------------------------------------------------------------------
(* Theorems                                                                *)

\* db of the account tables refer to rows that exist, and tax numbers and users belong
\* to one driver each, whatever is asked and wherever requests break off.
THEOREM TypeCorrect == Spec => []TypeOK
<1>1. IInv => TypeOK BY DEF IInv
<1> QED BY <1>1, InvariantHolds, PTL

\* register makes the company several statements before its administrator; unless it
\* broke off or raced, one of the two is there: the administrator, or the request that
\* will make him.
THEOREM OrphansAreExplained == Spec => []OrphansHaveACause
<1>1. IInv => OrphansHaveACause BY DEF IInv, Owned, Owner, OrphansHaveACause, Company
<1> QED BY <1>1, InvariantHolds, PTL

\* A registration answered ok stays one that works: the administrator role was given to
\* the very user that registered, and given every permission.
THEOREM RegistrationsWork == Spec => []RegisteredCompaniesWork
<1>1. IInv => RegisteredCompaniesWork
  BY DEF IInv, Holds, RegisteredCompaniesWork, Company, Newcomer
<1> QED BY <1>1, InvariantHolds, PTL

\* Without a transaction, a refusal still leaves the database as it was, as long as
\* nobody else is about the same company, e-mail or tax number; but for the user of a
\* driver whose placeholder tax number is taken.
THEOREM RefusalsAreClean == Spec => []RefusalsLeaveNothing
<1>1. IInv => RefusalsLeaveNothing BY DEF IInv, Unmet, RefusalsLeaveNothing
<1> QED BY <1>1, InvariantHolds, PTL

\* Only requests that are being served are answered, each by its own last statement.
LEMMA AnswersAreOnesOwn ==
  ASSUME IInv, NEW c \in Clients, NEW d \in Clients, c # d,
         \/ Begin(c) \/ Cut(c)
         \/ FindEmail(c) \/ FindSlug(c) \/ SaveTenant(c) \/ SaveAdminRole(c) \/ GrantAll(c)
         \/ FindUser(c) \/ SaveUser(c) \/ FindRole(c) \/ SaveRole(c)
         \/ FindUserRole(c) \/ SaveUserRole(c)
         \/ LoadTenant(c) \/ CheckUser(c) \/ FindAnyUser(c) \/ SendMail(c)
         \/ FindDriver(c) \/ SaveDriver(c)
  PROVE  answer'[d] = answer[d]
<1>1. DOMAIN answer = Clients BY DEF IInv, Functions
<1>2. \A s : Leave(c, s) => answer'[d] = answer[d] BY <1>1 DEF Leave
<1>3. \A l : Goto(c, l) => answer'[d] = answer[d] BY DEF Goto
<1>4. AfterUser(c) => answer'[d] = answer[d] BY AfterUserFacts
<1>5. CASE Begin(c) BY <1>1, <1>5 DEF Begin
<1>6. CASE Cut(c) BY <1>2, <1>6 DEF Cut
<1>7. CASE FindEmail(c) BY <1>2, <1>3, <1>7 DEF FindEmail
<1>8. CASE FindSlug(c) BY <1>2, <1>3, <1>8 DEF FindSlug
<1>9. CASE SaveTenant(c) BY <1>2, <1>3, <1>9 DEF SaveTenant, Insert
<1>10. CASE SaveAdminRole(c) BY <1>2, <1>3, <1>10 DEF SaveAdminRole, Insert
<1>11. CASE GrantAll(c) BY <1>2, <1>11 DEF GrantAll
<1>12. CASE FindUser(c) BY <1>2, <1>3, <1>12 DEF FindUser
<1>13. CASE SaveUser(c)
  BY <1>2, <1>3, <1>4, <1>13 DEF SaveUser, Insert
<1>14. CASE FindRole(c) BY <1>3, <1>14 DEF FindRole
<1>15. CASE SaveRole(c) BY <1>2, <1>3, <1>15 DEF SaveRole, Insert
<1>16. CASE FindUserRole(c) BY <1>3, <1>4, <1>16 DEF FindUserRole
<1>17. CASE SaveUserRole(c) BY <1>4, <1>17 DEF SaveUserRole
<1>18. CASE LoadTenant(c) BY <1>2, <1>3, <1>18 DEF LoadTenant
<1>19. CASE CheckUser(c) BY <1>2, <1>3, <1>19 DEF CheckUser
<1>20. CASE FindAnyUser(c) BY <1>3, <1>20 DEF FindAnyUser
<1>21. CASE SendMail(c) BY <1>2, <1>3, <1>21 DEF SendMail
<1>22. CASE FindDriver(c) BY <1>2, <1>3, <1>22 DEF FindDriver
<1>23. CASE SaveDriver(c) BY <1>2, <1>23 DEF SaveDriver, Insert
<1> QED BY <1>5, <1>6, <1>7, <1>8, <1>9, <1>10, <1>11, <1>12, <1>13, <1>14, <1>15, <1>16, <1>17,
           <1>18, <1>19, <1>20, <1>21, <1>22, <1>23

\* A registration is answered ok by grantAllPermissions and by nothing else.
LEMMA GrantAllAnswers ==
  ASSUME IInv, NEW c \in Clients, Busy(c), ask[c].kind = "register", answer'[c] = "ok",
         \/ Begin(c) \/ Cut(c)
         \/ FindEmail(c) \/ FindSlug(c) \/ SaveTenant(c) \/ SaveAdminRole(c) \/ GrantAll(c)
         \/ FindUser(c) \/ SaveUser(c) \/ FindRole(c) \/ SaveRole(c)
         \/ FindUserRole(c) \/ SaveUserRole(c)
         \/ LoadTenant(c) \/ CheckUser(c) \/ FindAnyUser(c) \/ SendMail(c)
         \/ FindDriver(c) \/ SaveDriver(c)
  PROVE  GrantAll(c)
<1>1. DOMAIN answer = Clients /\ answer[c] # "ok" /\ Routed(c)
  BY DEF IInv, Functions, Routed, None
<1>2. \A s : Leave(c, s) => s = "ok" BY <1>1 DEF Leave
<1>3. \A l : ~Goto(c, l) BY <1>1 DEF Goto
<1>4. ~AfterUser(c) BY <1>3 DEF AfterUser
<1>5. \A cause : Refusal(c, cause) # "ok" BY DEF Refusal
<1>6. CASE Begin(c) BY <1>6 DEF Begin, Busy
<1>7. CASE Cut(c) BY <1>2, <1>7 DEF Cut
<1>8. CASE FindEmail(c) BY <1>2, <1>3, <1>8 DEF FindEmail
<1>9. CASE FindSlug(c) BY <1>2, <1>3, <1>9 DEF FindSlug
<1>10. CASE SaveTenant(c) BY <1>2, <1>3, <1>5, <1>10 DEF SaveTenant, Insert
<1>11. CASE SaveAdminRole(c) BY <1>2, <1>3, <1>5, <1>11 DEF SaveAdminRole, Insert
<1>12. CASE FindUser(c) BY <1>2, <1>3, <1>12 DEF FindUser
<1>13. CASE SaveUser(c) BY <1>2, <1>3, <1>4, <1>5, <1>13 DEF SaveUser, Insert
<1>14. CASE FindRole(c) BY <1>3, <1>14 DEF FindRole
<1>15. CASE SaveRole(c) BY <1>2, <1>3, <1>5, <1>15 DEF SaveRole, Insert
<1>16. CASE FindUserRole(c) BY <1>3, <1>4, <1>16 DEF FindUserRole
<1>17. CASE SaveUserRole(c) BY <1>4, <1>17 DEF SaveUserRole
<1>18. CASE LoadTenant(c) BY <1>1, <1>18 DEF LoadTenant, Routed
<1>19. CASE CheckUser(c) BY <1>1, <1>19 DEF CheckUser, Routed
<1>20. CASE FindAnyUser(c) BY <1>1, <1>20 DEF FindAnyUser, Routed
<1>21. CASE SendMail(c) BY <1>1, <1>21 DEF SendMail, Routed
<1>22. CASE FindDriver(c) BY <1>1, <1>22 DEF FindDriver, Routed
<1>23. CASE SaveDriver(c) BY <1>1, <1>23 DEF SaveDriver, Routed, DriverKinds
<1> QED BY <1>6, <1>7, <1>8, <1>9, <1>10, <1>11, <1>12, <1>13, <1>14, <1>15, <1>16, <1>17,
           <1>18, <1>19, <1>20, <1>21, <1>22, <1>23

\* The e-mail is looked for in every company in the first statement of register, and the
\* answer comes many statements later; it is still nobody else's, unless another request
\* about the e-mail overlapped.
THEOREM SignUpsKeepEmailsApart == Spec => SerialSignUpsKeepEmailsApart
<1> DEFINE A == \A c \in Clients \ raced :
                  Busy(c) /\ ask[c].kind = "register" /\ answer'[c] = "ok" =>
                    \A u \in users' : u.email = ask[c].email => u.company = ask[c].company
<1>1. IInv /\ Next => A
  <2> SUFFICES ASSUME IInv, Next, NEW d \in Clients \ raced, Busy(d), ask[d].kind = "register",
                      answer'[d] = "ok"
               PROVE  \A u \in users' : u.email = ask[d].email => u.company = ask[d].company
    OBVIOUS
  <2>1. PICK c \in Clients :
          \/ Begin(c) \/ Cut(c)
          \/ FindEmail(c) \/ FindSlug(c) \/ SaveTenant(c) \/ SaveAdminRole(c) \/ GrantAll(c)
          \/ FindUser(c) \/ SaveUser(c) \/ FindRole(c) \/ SaveRole(c)
          \/ FindUserRole(c) \/ SaveUserRole(c)
          \/ LoadTenant(c) \/ CheckUser(c) \/ FindAnyUser(c) \/ SendMail(c)
          \/ FindDriver(c) \/ SaveDriver(c)
    BY DEF Next
  <2>2. answer[d] # "ok" BY DEF IInv, Routed, None
  <2>3. c = d BY <2>1, <2>2, AnswersAreOnesOwn
  <2>4. GrantAll(d) BY <2>1, <2>3, GrantAllAnswers
  <2>5. pc[d] = "grantAll" /\ users' = users BY <2>4 DEF GrantAll
  <2>6. Unmet(d) BY DEF IInv
  <2> QED BY <2>5, <2>6 DEF Unmet, Company
<1>2. [][IInv /\ Next => A]_vars BY <1>1, PTL
<1>3. [][IInv /\ Next => A]_vars /\ []IInv /\ [][Next]_vars => [][A]_vars
  BY PTL
<1> QED BY <1>2, <1>3, InvariantHolds, PTL DEF Spec, SerialSignUpsKeepEmailsApart

===============================================================================
