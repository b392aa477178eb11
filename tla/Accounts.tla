------------------------------ MODULE Accounts ------------------------------
(***************************************************************************)
(* How companies, users and drivers come to be: register and               *)
(* registerDriver (auth.service.ts), create and invite (user.service.ts),  *)
(* invite, createFromUser and create (driver.service.ts) and create        *)
(* (tenant.service.ts).                                                    *)
(*                                                                         *)
(* None of them opens a transaction.  A request is a sequence of           *)
(* statements that commit one by one, others run in between, and it may    *)
(* break off after any of them: the process stops, or the database or the  *)
(* mail service cannot be reached.                                         *)
(***************************************************************************)
EXTENDS Naturals, FiniteSets, TLC

CONSTANTS
  Clients,      (* Requests served at the same time.                       *)
  Companies,    (* Tenants, by the slug made from their name.              *)
  Emails,
  RoleNames,    (* Names a role may have, 'admin' among them.              *)
  Cpfs,         (* Tax numbers that drivers are created with.              *)
  Asks,         (* What clients may ask for.                               *)
  Starts,       (* Databases a run may begin with.                         *)
  MaxRequests,  (* Bounds the requests ever begun,                         *)
  MaxCuts       (* and those that break off.                               *)

None == "none"
Admin == "admin"
Placeholder == "00000000000"   \* the cpf of a driver made by invite or createFromUser
User(t, e) == [company |-> t, email |-> e]
NoUser == User(None, None)
NoAsk == [kind |-> None, email |-> None, company |-> None, role |-> None,
          user |-> NoUser, cpf |-> None]

ASSUME AccountsAssumption ==
  /\ Admin \in RoleNames /\ Placeholder \notin Cpfs
  /\ None \notin Companies \cup Emails \cup RoleNames
  /\ MaxRequests \in Nat /\ MaxCuts \in Nat

VARIABLES
  tenants,      (* Rows of tenant: companies,                              *)
  roles,        (* of role: <<company, name>>,                             *)
  granted,      (* those whose admin role was given every permission,      *)
  users,        (* of user,                                                *)
  userRoles,    (* of user_role: <<user, name of a role of his company>>,  *)
  drivers,      (* of driver: user, company and cpf.                       *)
  mailed,       (* Users who were sent their password.                     *)
  begun, cuts, pc, ask,
  user,         (* The user a request found or made,                       *)
  role,         (* and the role it is about to give him.                   *)
  answer,       (* How a request ended.                                    *)
  wrote,        (* History: whether it has changed the database,           *)
  raced,        (* that it overlapped one about the same things,           *)
  excused       (* and companies made without a user, or whose registration
                   broke off or raced.                                     *)

db   == <<tenants, roles, granted, users, userRoles, drivers, mailed>>
ctl  == <<begun, cuts, ask>>
vars == <<db, ctl, pc, user, role, answer, wrote, raced, excused>>

UserKinds   == {"register", "join", "createUser", "inviteUser", "registerDriver", "inviteDriver"}
DriverKinds == {"registerDriver", "inviteDriver", "createDriver"}

\* What a request is about: requests that share something race.
Things(a) ==
  {<<"email", a.email>>, <<"email", a.user.email>>, <<"company", a.company>>, <<"cpf", a.cpf>>}
  \cup {<<"cpf", Placeholder>> : k \in {a.kind} \cap {"registerDriver", "inviteDriver"}}
Unnamed == {<<"email", None>>, <<"company", None>>, <<"cpf", None>>}

Busy(c) == pc[c] # "idle"
Rivals(c, a) ==
  {d \in Clients \ {c} : Busy(d) /\ (Things(a) \cap Things(ask[d])) \ Unnamed # {}}

-----------------------------------------------------------------------------

Init ==
  /\ \E d \in Starts :
       /\ tenants = d.tenants /\ users = d.users /\ drivers = d.drivers
       /\ granted = d.tenants
       /\ roles = d.tenants \X {Admin}
       /\ userRoles = d.users \X {Admin}
  /\ mailed = {} /\ begun = 0 /\ cuts = 0
  /\ pc = [c \in Clients |-> "idle"]
  /\ ask = [c \in Clients |-> NoAsk]
  /\ user = [c \in Clients |-> NoUser]
  /\ role = [c \in Clients |-> None]
  /\ answer = [c \in Clients |-> None]
  /\ wrote = [c \in Clients |-> FALSE]
  /\ raced = {} /\ excused = {}

FirstStep ==
  [register |-> "findEmail", join |-> "findEmail", createUser |-> "findUser",
   inviteUser |-> "loadTenant", registerDriver |-> "findUser", inviteDriver |-> "loadTenant",
   createDriver |-> "saveDriver", createTenant |-> "saveTenant"]

\* Nothing but the e-mail is asked of a user that is to be made; a driver is made of a
\* user of any company.
ASSUME AsksAssumption ==
  \A a \in Asks :
    /\ a.kind \in DOMAIN FirstStep /\ a.role \in RoleNames \cup {None}
    /\ a.company \in Companies \cup {None} /\ (a.kind # "join" => a.company # None)
    /\ a.kind \in UserKinds => a.email \in Emails

\* Companies there are at first are administered, and rows refer to rows.
ASSUME StartsAssumption ==
  \A d \in Starts :
    /\ d.tenants \subseteq Companies
    /\ \A u \in d.users : u = User(u.company, u.email) /\ u.company \in d.tenants /\ u.email \in Emails
    /\ \A t \in d.tenants : \E u \in d.users : u.company = t
    /\ \A e, f \in d.drivers : e.user \in d.users /\ (e.user = f.user \/ e.cpf = f.cpf => e = f)

Begin(c) ==
  /\ pc[c] = "idle" /\ begun < MaxRequests
  /\ \E a \in Asks :
       /\ ask' = [ask EXCEPT ![c] = a]
       /\ pc' = [pc EXCEPT ![c] = FirstStep[a.kind]]
       /\ raced' = IF Rivals(c, a) = {} THEN raced \ {c} ELSE raced \cup Rivals(c, a) \cup {c}
       /\ user' = [user EXCEPT ![c] = a.user]
       /\ role' = [role EXCEPT ![c] = a.role]
  /\ begun' = begun + 1
  /\ answer' = [answer EXCEPT ![c] = None]
  /\ wrote' = [wrote EXCEPT ![c] = FALSE]
  /\ UNCHANGED <<db, cuts, excused>>

Goto(c, l) == pc' = [pc EXCEPT ![c] = l] /\ UNCHANGED <<answer, excused>>

Leave(c, status) ==
  /\ pc' = [pc EXCEPT ![c] = "idle"]
  /\ answer' = [answer EXCEPT ![c] = status]
  /\ excused' = IF \/ /\ ask[c].kind = "register" /\ status # "ok"
                      /\ c \in raced \/ status = "cut"
                   \/ ask[c].kind = "createTenant" /\ status = "ok"
                THEN excused \cup {ask[c].company} ELSE excused

\* Between two statements, the request is never finished.
Cut(c) ==
  /\ Busy(c) /\ cuts < MaxCuts
  /\ cuts' = cuts + 1
  /\ Leave(c, "cut")
  /\ UNCHANGED <<db, begun, ask, user, role, wrote, raced>>

\* How an exception of the driver reaches the client: mapPostgresError answers 409 for a
\* duplicate and 400 for a missing reference; register has a catch of its own.
Refusal(c, cause) ==
  CASE cause = "duplicate" -> "conflict"
    [] cause = "reference" /\ ask[c].kind \in {"register", "join"} -> "failed"
    [] OTHER -> "badReference"

\* INSERT of a row that may be there already and needs the rows it refers to.
Insert(c, exists, referred, Then) ==
  IF exists THEN Leave(c, Refusal(c, "duplicate")) /\ UNCHANGED wrote
  ELSE IF ~referred THEN Leave(c, Refusal(c, "reference")) /\ UNCHANGED wrote
  ELSE Then /\ wrote' = [wrote EXCEPT ![c] = TRUE]
Inserted(set, row, exists, referred) ==
  IF exists \/ ~referred THEN set ELSE set \cup {row}

-----------------------------------------------------------------------------
(* register                                                                *)

\* A slip: only the company's own users are looked at.
KnownHere(t, e) == User(t, e) \in users

\* An e-mail is refused when any user of any company has it.
Known(t, e) == \E u \in users : u.email = e

FindEmail(c) ==
  /\ pc[c] = "findEmail"
  /\ LET a == ask[c] IN
     CASE Known(a.company, a.email) -> Leave(c, "conflict")
       [] ~Known(a.company, a.email) /\ a.kind = "register" -> Goto(c, "findSlug")
       [] ~Known(a.company, a.email) /\ a.kind = "join" /\ a.company = None -> Leave(c, "failed")
       [] OTHER -> Goto(c, "findUser")
  /\ UNCHANGED <<db, ctl, user, role, wrote, raced>>

FindSlug(c) ==
  /\ pc[c] = "findSlug"
  /\ IF ask[c].company \in tenants THEN Leave(c, "conflict") ELSE Goto(c, "saveTenant")
  /\ UNCHANGED <<db, ctl, user, role, wrote, raced>>

SaveTenant(c) ==
  /\ pc[c] = "saveTenant"
  /\ LET t == ask[c].company IN
     /\ Insert(c, t \in tenants, TRUE,
               IF ask[c].kind = "register" THEN Goto(c, "saveAdminRole") ELSE Leave(c, "ok"))
     /\ tenants' = tenants \cup {t}
  /\ UNCHANGED <<roles, granted, users, userRoles, drivers, mailed, ctl, user, role, raced>>

SaveAdminRole(c) ==
  /\ pc[c] = "saveAdminRole"
  /\ LET r == <<ask[c].company, Admin>> IN
     /\ Insert(c, r \in roles, TRUE, Goto(c, "findUser"))
     /\ roles' = roles \cup {r}
  /\ UNCHANGED <<tenants, granted, users, userRoles, drivers, mailed, ctl, user, role, raced>>

\* grantAllPermissions: one batch into a role nobody else knows yet.
GrantAll(c) ==
  /\ pc[c] = "grantAll"
  /\ granted' = granted \cup {ask[c].company}
  /\ wrote' = [wrote EXCEPT ![c] = TRUE]
  /\ Leave(c, "ok")
  /\ UNCHANGED <<tenants, roles, users, userRoles, drivers, mailed, ctl, user, role, raced>>

-----------------------------------------------------------------------------
(* UserService.create, which every way to a new user goes through          *)

\* A slip: a registration is answered before its user administers the company.
AfterUserTooEarly(c) ==
  CASE ask[c].kind \in {"inviteUser", "inviteDriver"} -> Goto(c, "mail") /\ UNCHANGED role
    [] ask[c].kind = "registerDriver" -> Goto(c, "findDriver") /\ UNCHANGED role
    [] OTHER -> Leave(c, "ok") /\ UNCHANGED role

\* A slip: the new administrator's role is left without permissions.
AfterUserUngranted(c) ==
  CASE ask[c].kind = "register" /\ role[c] # Admin ->
         Goto(c, "findUserRole") /\ role' = [role EXCEPT ![c] = Admin]
    [] ask[c].kind \in {"inviteUser", "inviteDriver"} -> Goto(c, "mail") /\ UNCHANGED role
    [] ask[c].kind = "registerDriver" -> Goto(c, "findDriver") /\ UNCHANGED role
    [] OTHER -> Leave(c, "ok") /\ UNCHANGED role

\* What follows once the user is there and has the role that was asked for.
AfterUser(c) ==
  CASE ask[c].kind = "register" /\ role[c] # Admin ->
         Goto(c, "findUserRole") /\ role' = [role EXCEPT ![c] = Admin]
    [] ask[c].kind = "register" /\ role[c] = Admin -> Goto(c, "grantAll") /\ UNCHANGED role
    [] ask[c].kind \in {"inviteUser", "inviteDriver"} -> Goto(c, "mail") /\ UNCHANGED role
    [] ask[c].kind = "registerDriver" -> Goto(c, "findDriver") /\ UNCHANGED role
    [] OTHER -> Leave(c, "ok") /\ UNCHANGED role

FindUser(c) ==
  /\ pc[c] = "findUser"
  /\ IF User(ask[c].company, ask[c].email) \in users THEN Leave(c, "conflict")
     ELSE Goto(c, "saveUser")
  /\ UNCHANGED <<db, ctl, user, role, wrote, raced>>

SaveUser(c) ==
  /\ pc[c] = "saveUser"
  /\ LET u == User(ask[c].company, ask[c].email)
         dup == u \in users  known == u.company \in tenants IN
     /\ users' = Inserted(users, u, dup, known)
     /\ user' = [user EXCEPT ![c] = u]
     /\ IF ask[c].role # None
        THEN Insert(c, dup, known, Goto(c, "findRole")) /\ UNCHANGED role
        ELSE IF dup \/ ~known THEN Insert(c, dup, known, TRUE) /\ UNCHANGED role
        ELSE AfterUser(c) /\ wrote' = [wrote EXCEPT ![c] = TRUE]
  /\ UNCHANGED <<tenants, roles, granted, userRoles, drivers, mailed, ctl, raced>>

\* A slip: the name is looked for as it was typed, and stored in lower case.
FindRoleAsTyped(c) ==
  /\ pc[c] = "findRole"
  /\ Goto(c, "saveRole")
  /\ UNCHANGED <<db, ctl, user, role, wrote, raced>>

\* ensureRoleForTenant
FindRole(c) ==
  /\ pc[c] = "findRole"
  /\ Goto(c, IF <<ask[c].company, role[c]>> \in roles THEN "findUserRole" ELSE "saveRole")
  /\ UNCHANGED <<db, ctl, user, role, wrote, raced>>

SaveRole(c) ==
  /\ pc[c] = "saveRole"
  /\ LET r == <<ask[c].company, role[c]>> IN
     /\ Insert(c, r \in roles, TRUE, Goto(c, "findUserRole"))
     /\ roles' = roles \cup {r}
  /\ UNCHANGED <<tenants, granted, users, userRoles, drivers, mailed, ctl, user, role, raced>>

\* addRole
FindUserRole(c) ==
  /\ pc[c] = "findUserRole"
  /\ IF <<user[c], role[c]>> \in userRoles THEN AfterUser(c)
     ELSE Goto(c, "saveUserRole") /\ UNCHANGED role
  /\ UNCHANGED <<db, ctl, user, wrote, raced>>

SaveUserRole(c) ==
  /\ pc[c] = "saveUserRole"
  /\ userRoles' = userRoles \cup {<<user[c], role[c]>>}
  /\ wrote' = [wrote EXCEPT ![c] = TRUE]
  /\ AfterUser(c)
  /\ UNCHANGED <<tenants, roles, granted, users, drivers, mailed, ctl, user, raced>>

-----------------------------------------------------------------------------
(* Invitations and drivers                                                 *)

\* The tenant is read first, for the text of the mail.
LoadTenant(c) ==
  /\ pc[c] = "loadTenant"
  /\ CASE ask[c].company \notin tenants -> Leave(c, "notFound")
       [] ask[c].company \in tenants /\ ask[c].kind = "inviteUser" -> Goto(c, "checkUser")
       [] OTHER -> Goto(c, "findAnyUser")
  /\ UNCHANGED <<db, ctl, user, role, wrote, raced>>

\* UserService.invite asks what create asks again.
CheckUser(c) ==
  /\ pc[c] = "checkUser"
  /\ IF User(ask[c].company, ask[c].email) \in users THEN Leave(c, "conflict")
     ELSE Goto(c, "findUser")
  /\ UNCHANGED <<db, ctl, user, role, wrote, raced>>

\* A driver may have an account already, in whichever company.
FindAnyUser(c) ==
  /\ pc[c] = "findAnyUser"
  /\ LET same == {u \in users : u.email = ask[c].email} IN
     IF same = {} THEN Goto(c, "findUser") /\ UNCHANGED user
     ELSE Goto(c, "mail") /\ \E u \in same : user' = [user EXCEPT ![c] = u]
  /\ UNCHANGED <<db, ctl, role, wrote, raced>>

\* The mail service may fail; the user stays.
SendMail(c) ==
  /\ pc[c] = "mail"
  /\ \/ /\ mailed' = mailed \cup {user[c]}
        /\ IF ask[c].kind = "inviteDriver" THEN Goto(c, "findDriver") ELSE Leave(c, "ok")
        /\ UNCHANGED cuts
     \/ /\ cuts < MaxCuts /\ cuts' = cuts + 1
        /\ Leave(c, "failed")
        /\ UNCHANGED mailed
  /\ UNCHANGED <<tenants, roles, granted, users, userRoles, drivers, begun, ask, user, role,
                 wrote, raced>>

DriverHere(c) == \E d \in drivers : d.user = user[c] /\ d.company = ask[c].company

\* invite refuses a driver of the company, createFromUser answers with him.
FindDriver(c) ==
  /\ pc[c] = "findDriver"
  /\ IF DriverHere(c) THEN Leave(c, IF ask[c].kind = "inviteDriver" THEN "conflict" ELSE "ok")
     ELSE Goto(c, "saveDriver")
  /\ UNCHANGED <<db, ctl, user, role, wrote, raced>>

\* driver.user_id and driver.cpf are unique, each by itself and in all companies.
DriverTaken(d) == \E e \in drivers : e.user = d.user \/ e.cpf = d.cpf

SaveDriver(c) ==
  /\ pc[c] = "saveDriver"
  /\ LET d == [user |-> user[c], company |-> ask[c].company,
               cpf |-> IF ask[c].kind = "createDriver" THEN ask[c].cpf ELSE Placeholder]
         known == d.user \in users IN
     /\ Insert(c, DriverTaken(d), known, Leave(c, "ok"))
     /\ drivers' = Inserted(drivers, d, DriverTaken(d), known)
  /\ UNCHANGED <<tenants, roles, granted, users, userRoles, mailed, ctl, user, role, raced>>

-----------------------------------------------------------------------------

Next == \E c \in Clients :
  \/ Begin(c) \/ Cut(c)
  \/ FindEmail(c) \/ FindSlug(c) \/ SaveTenant(c) \/ SaveAdminRole(c) \/ GrantAll(c)
  \/ FindUser(c) \/ SaveUser(c) \/ FindRole(c) \/ SaveRole(c)
  \/ FindUserRole(c) \/ SaveUserRole(c)
  \/ LoadTenant(c) \/ CheckUser(c) \/ FindAnyUser(c) \/ SendMail(c)
  \/ FindDriver(c) \/ SaveDriver(c)
Spec == Init /\ [][Next]_vars

-----------------------------------------------------------------------------
(* Properties                                                              *)

\* Rows refer to rows that exist, and a user drives for one company at most, as the
\* driver's OneToOne relation to the user has it.
TypeOK ==
  /\ tenants \subseteq Companies /\ granted \subseteq tenants
  /\ roles \subseteq tenants \X RoleNames
  /\ \A u \in users : u.company \in tenants /\ u.email \in Emails
  /\ \A l \in userRoles : l[1] \in users /\ <<l[1].company, l[2]>> \in roles
  /\ \A d, e \in drivers : d.user \in users /\ (d.user = e.user \/ d.cpf = e.cpf => d = e)
  /\ mailed \subseteq users

Administered(t) == \E u \in users : u.company = t /\ <<u, Admin>> \in userRoles

\* A company that nobody administers was made without a user (POST /tenants), or its
\* registration broke off or met another one for the same name or e-mail: a refused
\* registration leaves no company behind that would keep the name taken.
OrphansHaveACause ==
  \A t \in tenants \ excused :
    \/ Administered(t)
    \/ \E c \in Clients : Busy(c) /\ ask[c].kind = "register" /\ ask[c].company = t

\* Whoever is told that the company is registered can enter it and do everything there.
RegisteredCompaniesWork ==
  \A c \in Clients : ~Busy(c) /\ ask[c].kind = "register" /\ answer[c] = "ok" =>
    ask[c].company \in granted /\ <<User(ask[c].company, ask[c].email), Admin>> \in userRoles

\* Registering does not take an e-mail that is in use, unless two requests for the
\* e-mail overlap: the unique constraint spans one company only.
SerialSignUpsKeepEmailsApart ==
  [][\A c \in Clients \ raced :
       Busy(c) /\ ask[c].kind = "register" /\ answer'[c] = "ok" =>
         \A u \in users' : u.email = ask[c].email => u.company = ask[c].company]_vars

\* A request that met no other one and is refused has changed nothing.  Drivers are the
\* exception: their user is made first, and he stays when the tax number that stands in
\* for the unknown one belongs to a driver already.
RefusalsLeaveNothing ==
  \A c \in Clients \ raced :
    ~Busy(c) /\ answer[c] \in {"conflict", "badReference", "notFound"} /\ wrote[c] =>
      ask[c].kind \in DriverKinds /\ \E d \in drivers : d.cpf = Placeholder

\* 'Driver already registered in this company.' is the reason why an invitation that
\* met no other request is refused: a driver may work for several companies
\* (getMyTenants finds them all).
OnlyOwnDriversAreRefused ==
  \A c \in Clients \ raced :
    ~Busy(c) /\ ask[c].kind = "inviteDriver" /\ answer[c] = "conflict" => DriverHere(c)

=============================================================================
