------------------------------- MODULE Access -------------------------------
(***************************************************************************)
(* Who may do what inside one tenant: getUserPermissions and isTenantAdmin *)
(* (permission.service.ts) behind the module and permission guards, the    *)
(* grants of user.service.ts and role.service.ts, and the permissions an   *)
(* activated module brings to the administrators.                          *)
(*                                                                         *)
(* A request is a sequence of statements, each of which commits on its     *)
(* own; other requests run between them.  Two unique constraints, (user,   *)
(* role) and (user, permission), and (role, permission) likewise, turn a   *)
(* lost race into an error.                                                *)
(***************************************************************************)
EXTENDS PermissionCatalog, Naturals, Sequences

CONSTANTS
  Clients,      (* Requests served at the same time.                       *)
  Users,        (* User ids; naturals in the order of createdAt.           *)
  Roles,        (* Role ids.                                               *)
  System,       (* Roles with isSystem.                                    *)
  Asks,         (* What clients may ask for.                               *)
  Starts,       (* Databases a run may begin with.                         *)
  MaxRequests   (* Bounds the requests ever begun.                         *)

Essential == {"tenant", "auth", "user", "role", "permission", "tenant-module", "erp"}
Star == "*"
ModulesWithPermissions == {Catalog[p].module : p \in Slugs}
ByModule == [m \in ModulesWithPermissions |-> {p \in Slugs : Catalog[p].module = m}]
OfModule(m) == IF m \in ModulesWithPermissions THEN ByModule[m] ELSE {}

NoDoor == [module |-> None, handler |-> None, needs |-> None]
NoAsk == [kind |-> None, user |-> 0, role |-> None, slugs |-> <<>>, door |-> NoDoor,
          word |-> None]      \* word: the module or the role name in the request

Kinds == {"me", "enter", "addRole", "removeRole", "grant", "revoke", "addPerms",
          "dropPerms", "activate", "deactivate", "join", "update", "leave", "newRole", "rename",
          "delete"}

ASSUME AccessAssumption ==
  /\ Users \subseteq Nat \ {0} /\ System \subseteq Roles /\ MaxRequests \in Nat
  /\ \A a \in Asks :
       /\ a.kind \in Kinds /\ a.slugs \in Seq(STRING)
       /\ a.kind = "join" => a.user \in Users
       /\ a.kind = "newRole" => a.role \in Roles
  /\ \A d \in Starts :
       /\ d.users \subseteq Users /\ d.roles \subseteq Roles
       /\ d.adminNamed \in d.roles \cup {None}
       /\ d.userRoles \subseteq d.users \X d.roles
       /\ d.rolePerms \subseteq d.roles \X Slugs
       /\ d.active \cap Essential = {}

VARIABLES
  users,        (* Rows of the user table,                                 *)
  newest,       (* the last user created (a new user gets a new id),       *)
  roles,        (* of role,                                                *)
  adminNamed,   (* the role whose name is 'admin', if any,                 *)
  adminAlike,   (* the one whose name is 'Admin', if any,                  *)
  userRoles,    (* rows of user_role,                                      *)
  rolePerms,    (* of role_permission, and                                 *)
  direct,       (* of user_permission: TRUE grants, FALSE revokes.         *)
  active,       (* Modules of the tenant that are on.                      *)
  begun, pc, ask,
  got,          (* Slugs a request has collected so far.                   *)
  left,         (* Slugs it still has to write.                            *)
  seen,         (* Rows that came with the user or role it has loaded.     *)
  answer,       (* How it ended.                                           *)
  denied,       (* History: the revocations a lookup read.                 *)
  booted,       (* History: rows of user_role that Bootstrap wrote.         *)
  returned,     (* History: users removed, and inserted again by a save.    *)
  contested,    (* History: clients whose request overlaps one for its rows. *)
  promised      (* History: rows as the last undisputed request left them. *)

admins == <<adminNamed, adminAlike>>
db   == <<users, newest, roles, admins, userRoles, rolePerms, direct, active>>
ctl  == <<begun, ask, seen>>
boots == <<booted, returned>>
hist == <<denied, boots, contested, promised>>
vars == <<db, ctl, pc, got, left, answer, hist>>

-----------------------------------------------------------------------------
(* Rows a request is about, and what it promises of them when it succeeds. *)

Keys(a) ==
  CASE a.kind \in {"addRole", "removeRole"} -> {<<"role", a.user, a.role>>}
    [] a.kind \in {"grant", "revoke"} -> {<<"direct", a.user, a.slugs[1]>>}
    [] a.kind \in {"addPerms", "dropPerms"} ->
         {<<"perm", a.role, a.slugs[i]>> : i \in DOMAIN a.slugs}
    [] a.kind = "activate" -> {<<"perm", r, p>> : r \in Roles, p \in OfModule(a.word)}
    [] a.kind = "leave" -> {<<"role", a.user, r>> : r \in Roles}
                             \cup {<<"direct", a.user, p>> : p \in Slugs}
    [] a.kind = "delete" -> {<<"role", u, a.role>> : u \in Users}
                             \cup {<<"perm", a.role, p>> : p \in Slugs}
    [] a.kind \in {"newRole", "rename"} -> {<<"perm", a.role, p>> : p \in Slugs}
    [] OTHER -> {}

\* Unknown slugs are ignored, and a tenant without a role called admin gets no
\* permissions with its modules.
Promise(a) ==
  CASE a.kind = "addRole" -> {<<k, TRUE>> : k \in Keys(a)}
    [] a.kind \in {"addPerms", "grant"} ->
         {<<k, TRUE>> : k \in {k \in Keys(a) : k[3] \in Slugs}}
    [] a.kind \in {"removeRole", "dropPerms", "revoke"} ->
         {<<k, FALSE>> : k \in Keys(a)}
    [] a.kind = "activate" -> {<<<<"perm", adminNamed, p>>, TRUE>> :
                                  p \in IF adminNamed = None THEN {} ELSE OfModule(a.word)}
    [] OTHER -> {}

Holds(k) ==
  CASE k[1] = "role" -> <<k[2], k[3]>> \in userRoles
    [] k[1] = "perm" -> <<k[2], k[3]>> \in rolePerms
    [] k[1] = "direct" -> <<k[2], k[3]>> \in DOMAIN direct /\ direct[<<k[2], k[3]>>]

RolesOf(u) == {r \in Roles : <<u, r>> \in userRoles}

Busy(c) == pc[c] # "idle"
Others(c) == {d \in Clients \ {c} : Busy(d)}
Rivals(c, a) == {d \in Others(c) : Keys(ask[d]) \cap Keys(a) # {}}

-----------------------------------------------------------------------------

Init ==
  /\ \E d \in Starts :
       /\ users = d.users /\ newest \in users \cup {0} /\ (\A u \in users : u <= newest)
       /\ roles = d.roles /\ adminNamed = d.adminNamed /\ adminAlike = None
       /\ userRoles = d.userRoles /\ rolePerms = d.rolePerms /\ active = d.active
  /\ direct = [k \in {} |-> TRUE]
  /\ begun = 0
  /\ pc = [c \in Clients |-> "idle"]
  /\ ask = [c \in Clients |-> NoAsk]
  /\ got = [c \in Clients |-> {}]
  /\ left = [c \in Clients |-> <<>>]
  /\ seen = [c \in Clients |-> {}]
  /\ answer = [c \in Clients |-> None]
  /\ denied = [c \in Clients |-> {}]
  /\ booted = {} /\ returned = {} /\ contested = {} /\ promised = {}

FirstStep ==
  [me |-> "roles", enter |-> "module", addRole |-> "findRole", removeRole |-> "dropRole",
   grant |-> "findDirect", revoke |-> "findDirect", addPerms |-> "loadRole",
   dropPerms |-> "loadRole", activate |-> "switchOn", deactivate |-> "switchOff",
   join |-> "insertUser", update |-> "loadUser", leave |-> "loadUser",
   newRole |-> "saveRole", rename |-> "loadRole", delete |-> "loadRole"]

Begin(c) ==
  /\ pc[c] = "idle" /\ begun < MaxRequests
  /\ \E a \in Asks :
       /\ a.kind = "newRole" => a.role \notin roles \cup {ask[d].role : d \in Others(c)}
       /\ ask' = [ask EXCEPT ![c] = a]
       /\ pc' = [pc EXCEPT ![c] = FirstStep[a.kind]]
       /\ left' = [left EXCEPT ![c] = a.slugs]
       /\ contested' = contested \cup Rivals(c, a)
                          \cup (IF Rivals(c, a) = {} THEN {} ELSE {c})
       /\ promised' = {w \in promised : w[1] \notin Keys(a)}
  /\ begun' = begun + 1
  /\ got' = [got EXCEPT ![c] = {}]
  /\ denied' = [denied EXCEPT ![c] = {}]
  /\ answer' = [answer EXCEPT ![c] = None]
  /\ UNCHANGED <<db, seen, boots>>

Goto(c, l) == pc' = [pc EXCEPT ![c] = l]

\* The request is answered.  What it asked for is now on record, unless it was
\* refused or another request wanted some of the same rows meanwhile.
Leave(c, status) ==
  /\ Goto(c, "idle")
  /\ answer' = [answer EXCEPT ![c] = status]
  /\ promised' = promised \cup
       (IF status = "ok" /\ c \notin contested THEN Promise(ask[c]) ELSE {})
  /\ contested' = contested \ {c}

Stay(c) == UNCHANGED <<answer, promised, contested>>

\* INSERT: refused on a duplicate (409), or when the rows it refers to are gone (400).
Verdict(exists, referred) ==
  IF exists THEN "conflict" ELSE IF referred THEN "ok" ELSE "badReference"

\* Rows of user_role and user_permission that refer to a user, or of role_permission that
\* refer to a role: what findOne loads along with it.
Related(a) ==
  IF a.kind = "update"
  THEN {<<"role", a.user, r>> : r \in RolesOf(a.user)}
       \cup {<<"direct", a.user, p>> : p \in {p \in Slugs : <<a.user, p>> \in DOMAIN direct}}
  ELSE {<<"perm", a.role, p>> : p \in {p \in Slugs : <<a.role, p>> \in rolePerms}}

\* save takes away from a user or role the related rows that it was not loaded with; their
\* columns are NOT NULL, so that it fails if there are any.
Unlost(c) == Related(ask[c]) \subseteq seen[c]
Load(c) == seen' = [seen EXCEPT ![c] = Related(ask[c])]

\* A row that is inserted is another one than any loaded before.
New(keys) == seen' = [d \in Clients |-> seen[d] \ keys]

-----------------------------------------------------------------------------
(* getUserPermissions                                                      *)

Lookup(c) == ask[c].kind \in {"me", "enter"}

\* The guards' verdict on what was found: a wildcard opens every door.
Judge(c, names) ==
  LET need == ask[c].door.needs IN
  CASE ask[c].kind = "me" -> "menu"
    [] ask[c].kind = "enter" /\ (Star \in names \/ need \in names) -> "ok"
    [] ask[c].kind = "enter" /\ need = "can_manage_modules" -> "isAdmin"
    [] OTHER -> "forbidden"

Found(c, names) ==
  /\ got' = [got EXCEPT ![c] = names]
  /\ LET v == Judge(c, names) IN
     IF v \in {"menu", "isAdmin"} THEN Goto(c, v) /\ Stay(c) ELSE Leave(c, v)

\* ModuleGuard, and the early return of PermissionGuard for a door without permission.
CheckModule(c) ==
  /\ pc[c] = "module"
  /\ LET d == ask[c].door IN
     CASE d.module \notin active \cup Essential \cup {None} -> Leave(c, "moduleOff")
       [] d.module \in active \cup Essential \cup {None} /\ d.needs = None -> Leave(c, "ok")
       [] OTHER -> Goto(c, "roles") /\ Stay(c)
  /\ UNCHANGED <<db, ctl, got, left, denied, boots>>

\* The name is compared in lower case.
Administers(r) == r \in {adminNamed, adminAlike} \ {None} \/ r \in System
FromRoles(u) ==
  {p \in Slugs : \E r \in RolesOf(u) : <<r, p>> \in rolePerms}
  \cup {s \in {Star} : \E r \in RolesOf(u) : Administers(r)}

ReadRoles(c) ==
  /\ pc[c] = "roles"
  /\ got' = [got EXCEPT ![c] = FromRoles(ask[c].user)]
  /\ Goto(c, IF RolesOf(ask[c].user) = {} THEN "belongs" ELSE "direct")
  /\ Stay(c) /\ UNCHANGED <<db, ctl, left, denied, boots>>

CheckBelongs(c) ==
  /\ pc[c] = "belongs"
  /\ Goto(c, IF ask[c].user \in users THEN "count" ELSE "direct")
  /\ Stay(c) /\ UNCHANGED <<db, ctl, got, left, denied, boots>>

CountAssignments(c) ==
  /\ pc[c] = "count"
  /\ Goto(c, IF userRoles = {} THEN "first" ELSE "sole")
  /\ Stay(c) /\ UNCHANGED <<db, ctl, got, left, denied, boots>>

\* A slip: whoever asks while nobody has a role counts as the first user.
AnyoneIsFirst(u) == u \in users

IsFirst(u) == u \in users /\ \A v \in users : u <= v

FindFirst(c) ==
  /\ pc[c] = "first"
  /\ Goto(c, IF IsFirst(ask[c].user) THEN "adminRole" ELSE "sole")
  /\ Stay(c) /\ UNCHANGED <<db, ctl, got, left, denied, boots>>

FindAdminRole(c) ==
  /\ pc[c] = "adminRole"
  /\ IF adminNamed = None THEN Found(c, {Star}) /\ UNCHANGED left
     ELSE /\ Goto(c, "boot")
          /\ left' = [left EXCEPT ![c] = <<adminNamed>>]
          /\ Stay(c) /\ UNCHANGED got
  /\ UNCHANGED <<db, ctl, denied, boots>>

\* The first user of a tenant without assignments becomes its administrator.
Bootstrap(c) ==
  /\ pc[c] = "boot"
  /\ LET u == ask[c].user  r == left[c][1]
         v == Verdict(<<u, r>> \in userRoles, u \in users /\ r \in roles) IN
     IF v = "ok"
     THEN /\ userRoles' = userRoles \cup {<<u, r>>}
          /\ booted' = booted \cup {<<u, r>>}
          /\ New({<<"role", u, r>>})
          /\ Found(c, {Star})
     ELSE Leave(c, v) /\ UNCHANGED <<userRoles, booted, got, seen>>
  /\ UNCHANGED <<users, newest, roles, admins, rolePerms, direct, active, begun, ask,
                 left, denied, returned>>

CountUsers(c) ==
  /\ pc[c] = "sole"
  /\ IF Cardinality(users) <= 1 THEN Found(c, {Star})
     ELSE Goto(c, "direct") /\ Stay(c) /\ UNCHANGED got
  /\ UNCHANGED <<db, ctl, left, denied, boots>>

\* A slip: the revocation is forgotten when the slug comes from a role.
ResolvedRolesWin(fromRoles, granted, revoked) ==
  LET names == fromRoles \cup (granted \ revoked)
  IN  names \cup UNION {Catalog[p].deps : p \in names \ {Star}}

\* The user's own rows: revocations take slugs away, then every slug that is left
\* brings the permissions it depends on, one level deep.
Resolved(fromRoles, granted, revoked) ==
  LET names == (fromRoles \cup granted) \ revoked
  IN  names \cup UNION {Catalog[p].deps : p \in names \ {Star}}

ReadDirect(c) ==
  /\ pc[c] = "direct"
  /\ LET mine(v) == {k[2] : k \in {k \in DOMAIN direct : k[1] = ask[c].user /\ direct[k] = v}} IN
     /\ denied' = [denied EXCEPT ![c] = mine(FALSE)]
     /\ Found(c, Resolved(got[c], mine(TRUE), mine(FALSE)))
  /\ UNCHANGED <<db, ctl, left, boots>>

\* A wildcard is shown as the permissions of the modules that are on (findAll).
Menu == UNION {OfModule(m) : m \in active \cup Essential}

ShowMenu(c) ==
  /\ pc[c] = "menu"
  /\ Leave(c, "ok")
  /\ UNCHANGED <<db, ctl, got, left, denied, boots>>

\* Administrators may manage modules whatever their permissions are.
IsTenantAdmin(c) ==
  /\ pc[c] = "isAdmin"
  /\ Leave(c, IF \E r \in RolesOf(ask[c].user) : Administers(r) THEN "ok" ELSE "forbidden")
  /\ UNCHANGED <<db, ctl, got, left, denied, boots>>

-----------------------------------------------------------------------------
(* Roles of a user                                                         *)

FindRole(c) ==
  /\ pc[c] = "findRole"
  /\ IF <<ask[c].user, ask[c].role>> \in userRoles THEN Leave(c, "ok")
     ELSE Goto(c, "insertRole") /\ Stay(c)
  /\ UNCHANGED <<db, ctl, got, left, denied, boots>>

InsertRole(c) ==
  /\ pc[c] = "insertRole"
  /\ LET k == <<ask[c].user, ask[c].role>>
         v == Verdict(k \in userRoles, k[1] \in users /\ k[2] \in roles) IN
     /\ userRoles' = IF v = "ok" THEN userRoles \cup {k} ELSE userRoles
     /\ New(IF v = "ok" THEN Keys(ask[c]) ELSE {})
     /\ Leave(c, v)
  /\ UNCHANGED <<users, newest, roles, admins, rolePerms, direct, active, begun, ask,
                 got, left, denied, boots>>

DropRole(c) ==
  /\ pc[c] = "dropRole"
  /\ userRoles' = userRoles \ {<<ask[c].user, ask[c].role>>}
  /\ booted' = booted \ {<<ask[c].user, ask[c].role>>}
  /\ Leave(c, "ok")
  /\ UNCHANGED <<users, newest, roles, admins, rolePerms, direct, active, ctl, got, left,
                 denied, returned>>

-----------------------------------------------------------------------------
(* Grants and revocations of single permissions                            *)

DirectKey(c) == <<ask[c].user, ask[c].slugs[1]>>
Wanted(c) == ask[c].kind = "grant"
WithDirect(k, v) == [j \in DOMAIN direct \cup {k} |-> IF j = k THEN v ELSE direct[j]]

\* Unknown slugs are ignored.
FindDirect(c) ==
  /\ pc[c] = "findDirect"
  /\ IF ask[c].slugs[1] \notin Slugs THEN Leave(c, "ok")
     ELSE /\ Goto(c, IF DirectKey(c) \in DOMAIN direct THEN "saveDirect" ELSE "insertDirect")
          /\ Stay(c)
  /\ UNCHANGED <<db, ctl, got, left, denied, boots>>

\* A save of a row that is gone meanwhile inserts it again, under its id.
SaveDirect(c) ==
  /\ pc[c] = "saveDirect"
  /\ LET k == DirectKey(c)
         v == Verdict(FALSE, k[1] \in users) IN
     /\ direct' = IF v = "ok" THEN WithDirect(k, Wanted(c)) ELSE direct
     /\ Leave(c, v)
  /\ UNCHANGED <<users, newest, roles, admins, userRoles, rolePerms, active, ctl, got,
                 left, denied, boots>>

InsertDirect(c) ==
  /\ pc[c] = "insertDirect"
  /\ LET k == DirectKey(c)
         v == Verdict(k \in DOMAIN direct, k[1] \in users) IN
     /\ direct' = IF v = "ok" THEN WithDirect(k, Wanted(c)) ELSE direct
     /\ New(IF v = "ok" THEN Keys(ask[c]) ELSE {})
     /\ Leave(c, v)
  /\ UNCHANGED <<users, newest, roles, admins, userRoles, rolePerms, active, begun, ask,
                 got, left, denied, boots>>

-----------------------------------------------------------------------------
(* Roles and their permissions                                             *)

LoadRole(c) ==
  /\ pc[c] = "loadRole"
  /\ CASE ask[c].role \notin roles -> Leave(c, "notFound") /\ UNCHANGED seen
       [] ask[c].role \in roles /\ ask[c].kind = "delete" /\ ask[c].role \in System ->
            Leave(c, "forbidden") /\ UNCHANGED seen
       [] OTHER ->
            /\ Goto(c, [addPerms |-> "eachPerm", dropPerms |-> "dropPerm",
                        rename |-> "saveRole", delete |-> "removeRole"][ask[c].kind])
            /\ Stay(c)
            /\ IF ask[c].kind = "rename" THEN Load(c) ELSE UNCHANGED seen
  /\ UNCHANGED <<db, begun, ask, got, left, denied, boots>>

\* findOne at the end answers with the role as it is now.
Reread(c) == Leave(c, IF ask[c].role \in roles THEN "ok" ELSE "notFound")

EachPerm(c) ==
  /\ pc[c] = "eachPerm"
  /\ IF left[c] = <<>> THEN Reread(c) /\ UNCHANGED left
     ELSE IF Head(left[c]) \notin Slugs \/ <<ask[c].role, Head(left[c])>> \in rolePerms
     THEN left' = [left EXCEPT ![c] = Tail(@)] /\ UNCHANGED pc /\ Stay(c)
     ELSE Goto(c, "insertPerm") /\ UNCHANGED left /\ Stay(c)
  /\ UNCHANGED <<db, ctl, got, denied, boots>>

InsertPerm(c) ==
  /\ pc[c] = "insertPerm"
  /\ LET k == <<ask[c].role, Head(left[c])>>
         v == Verdict(k \in rolePerms, k[1] \in roles) IN
     IF v = "ok"
     THEN /\ rolePerms' = rolePerms \cup {k}
          /\ New({<<"perm", k[1], k[2]>>})
          /\ left' = [left EXCEPT ![c] = Tail(@)]
          /\ Goto(c, "eachPerm") /\ Stay(c)
     ELSE Leave(c, v) /\ UNCHANGED <<rolePerms, left, seen>>
  /\ UNCHANGED <<users, newest, roles, admins, userRoles, direct, active, begun, ask, got,
                 denied, boots>>

DropPerm(c) ==
  /\ pc[c] = "dropPerm"
  /\ IF left[c] = <<>> THEN Reread(c) /\ UNCHANGED <<rolePerms, left>>
     ELSE /\ rolePerms' = rolePerms \ {<<ask[c].role, Head(left[c])>>}
          /\ left' = [left EXCEPT ![c] = Tail(@)]
          /\ UNCHANGED pc /\ Stay(c)
  /\ UNCHANGED <<users, newest, roles, admins, userRoles, direct, active, ctl, got,
                 denied, boots>>

\* Who has a name when a role has been given it, or another one.
Renamed(holder, r, given) == IF given THEN r ELSE IF holder = r THEN None ELSE holder

\* create, and update with a new name (word).  Only one role of a tenant has a given
\* name; a role that is gone meanwhile is inserted again, bare.
SaveRole(c) ==
  /\ pc[c] = "saveRole"
  /\ LET r == ask[c].role  name == ask[c].word IN
     IF \/ name = "admin" /\ adminNamed \notin {None, r}
        \/ name = "Admin" /\ adminAlike \notin {None, r}
     THEN Leave(c, "conflict") /\ UNCHANGED <<roles, admins>>
     ELSE IF ~Unlost(c) THEN Leave(c, "error") /\ UNCHANGED <<roles, admins>>
     ELSE /\ roles' = roles \cup {r}
          /\ adminNamed' = Renamed(adminNamed, r, name = "admin")
          /\ adminAlike' = Renamed(adminAlike, r, name = "Admin")
          /\ Leave(c, "ok")
  /\ seen' = [seen EXCEPT ![c] = {}]
  /\ UNCHANGED <<users, newest, userRoles, rolePerms, direct, active, begun, ask, got,
                 left, denied, boots>>

\* The assignments and the permissions of a role go with it (ON DELETE CASCADE).
RemoveRole(c) ==
  /\ pc[c] = "removeRole"
  /\ LET r == ask[c].role IN
     /\ roles' = roles \ {r}
     /\ adminNamed' = Renamed(adminNamed, r, FALSE)
     /\ adminAlike' = Renamed(adminAlike, r, FALSE)
     /\ userRoles' = {k \in userRoles : k[2] # r}
     /\ rolePerms' = {k \in rolePerms : k[1] # r}
     /\ booted' = {k \in booted : k[2] # r}
  /\ Leave(c, "ok")
  /\ UNCHANGED <<users, newest, direct, active, ctl, got, left, denied, returned>>

-----------------------------------------------------------------------------
(* Modules, and the permissions they bring                                 *)

\* ModuleActivation refines this step; here the module is simply on.
SwitchOn(c) ==
  /\ pc[c] = "switchOn"
  /\ active' = active \cup ({ask[c].word} \ Essential)
  /\ Goto(c, "findAdmin") /\ Stay(c)
  /\ UNCHANGED <<users, newest, roles, admins, userRoles, rolePerms, direct, ctl, got,
                 left, denied, boots>>

FindAdmin(c) ==
  /\ pc[c] = "findAdmin"
  /\ IF adminNamed = None \/ OfModule(ask[c].word) = {} THEN Leave(c, "ok") /\ UNCHANGED left
     ELSE /\ left' = [left EXCEPT ![c] = <<adminNamed>>]
          /\ Goto(c, "readGrants") /\ Stay(c)
  /\ UNCHANGED <<db, ctl, got, denied, boots>>

\* A slip: a role that has some permissions of the module is taken to have them all.
NewGrantsNone(r, m) == {p \in OfModule(m) : \A q \in OfModule(m) : <<r, q>> \notin rolePerms}

\* grantPermissions: which of them are new,
NewGrants(r, m) == {p \in OfModule(m) : <<r, p>> \notin rolePerms}

ReadGrants(c) ==
  /\ pc[c] = "readGrants"
  /\ LET new == NewGrants(left[c][1], ask[c].word) IN
     /\ got' = [got EXCEPT ![c] = new]
     /\ IF new = {} THEN Leave(c, "ok") ELSE Goto(c, "saveGrants") /\ Stay(c)
  /\ UNCHANGED <<db, ctl, left, denied, boots>>

\* and all of them in one transaction.  grantModulePermissionsToAdmin logs a failure
\* and answers as if nothing had happened.
SaveGrants(c) ==
  /\ pc[c] = "saveGrants"
  /\ LET rows == {<<left[c][1], p>> : p \in got[c]}
         v == Verdict(rows \cap rolePerms # {}, left[c][1] \in roles) IN
     /\ rolePerms' = IF v = "ok" THEN rolePerms \cup rows ELSE rolePerms
     /\ New(IF v = "ok" THEN {<<"perm", k[1], k[2]>> : k \in rows} ELSE {})
  /\ Leave(c, "ok")
  /\ UNCHANGED <<users, newest, roles, admins, userRoles, direct, active, begun, ask,
                 got, left, denied, boots>>

SwitchOff(c) ==
  /\ pc[c] = "switchOff"
  /\ active' = active \ {ask[c].word}
  /\ Leave(c, IF ask[c].word \in Essential THEN "essential" ELSE "ok")
  /\ UNCHANGED <<users, newest, roles, admins, userRoles, rolePerms, direct, ctl, got,
                 left, denied, boots>>

-----------------------------------------------------------------------------
(* Users come and go; Accounts has their creation step by step.            *)

InsertUser(c) ==
  /\ pc[c] = "insertUser"
  /\ IF newest < ask[c].user
     THEN users' = users \cup {ask[c].user} /\ newest' = ask[c].user /\ Leave(c, "ok")
     ELSE UNCHANGED <<users, newest>> /\ Leave(c, "conflict")
  /\ UNCHANGED <<roles, admins, userRoles, rolePerms, direct, active, ctl, got, left,
                 denied, boots>>

LoadUser(c) ==
  /\ pc[c] = "loadUser"
  /\ CASE ask[c].user \notin users -> Leave(c, "notFound") /\ UNCHANGED seen
       [] ask[c].user \in users /\ ask[c].kind = "leave" ->
            Goto(c, "removeUser") /\ Stay(c) /\ UNCHANGED seen
       [] OTHER -> Goto(c, "saveUser") /\ Stay(c) /\ Load(c)
  /\ UNCHANGED <<db, begun, ask, got, left, denied, boots>>

\* After the hash of the new password.  A user who was removed meanwhile is inserted
\* again, with the id and the time of creation it was loaded with, and without roles.
SaveUser(c) ==
  /\ pc[c] = "saveUser"
  /\ LET u == ask[c].user IN
     IF Unlost(c)
     THEN users' = users \cup {u} /\ returned' = returned \cup ({u} \ users) /\ Leave(c, "ok")
     ELSE UNCHANGED <<users, returned>> /\ Leave(c, "error")
  /\ seen' = [seen EXCEPT ![c] = {}]
  /\ UNCHANGED <<newest, roles, admins, userRoles, rolePerms, direct, active, begun, ask,
                 got, left, denied, booted>>

RemoveUser(c) ==
  /\ pc[c] = "removeUser"
  /\ LET u == ask[c].user IN
     /\ users' = users \ {u}
     /\ userRoles' = {k \in userRoles : k[1] # u}
     /\ direct' = [k \in {k \in DOMAIN direct : k[1] # u} |-> direct[k]]
     /\ booted' = {k \in booted : k[1] # u}
     /\ returned' = returned \ {u}
  /\ Leave(c, "ok")
  /\ UNCHANGED <<newest, roles, admins, rolePerms, active, ctl, got, left, denied>>

-----------------------------------------------------------------------------

Resolve(c) ==
  \/ CheckModule(c) \/ ReadRoles(c) \/ CheckBelongs(c) \/ CountAssignments(c)
  \/ FindFirst(c) \/ FindAdminRole(c) \/ Bootstrap(c) \/ CountUsers(c)
  \/ ReadDirect(c) \/ ShowMenu(c) \/ IsTenantAdmin(c)
Administer(c) ==
  \/ FindRole(c) \/ InsertRole(c) \/ DropRole(c)
  \/ FindDirect(c) \/ SaveDirect(c) \/ InsertDirect(c)
  \/ LoadRole(c) \/ EachPerm(c) \/ InsertPerm(c) \/ DropPerm(c)
  \/ SaveRole(c) \/ RemoveRole(c)
  \/ SwitchOn(c) \/ FindAdmin(c) \/ ReadGrants(c) \/ SaveGrants(c) \/ SwitchOff(c)
  \/ InsertUser(c) \/ LoadUser(c) \/ SaveUser(c) \/ RemoveUser(c)

Next == \E c \in Clients : Begin(c) \/ Resolve(c) \/ Administer(c)
Spec == Init /\ [][Next]_vars

-----------------------------------------------------------------------------
(* Properties                                                              *)

\* Rows refer to rows that exist, whatever is removed between two statements.
TypeOK ==
  /\ users \subseteq Users /\ roles \subseteq Roles
  /\ {adminNamed, adminAlike} \subseteq roles \cup {None}
  /\ userRoles \subseteq users \X roles
  /\ rolePerms \subseteq roles \X Slugs
  /\ DOMAIN direct \subseteq users \X Slugs
  /\ active \cap Essential = {}
  /\ \A c \in Clients : Lookup(c) => got[c] \subseteq Slugs \cup {Star}

Answered(c) == ~Busy(c) /\ Lookup(c) /\ answer[c] \in {"ok", "forbidden"}

\* Dependencies are followed one level deep.  That is enough for the permissions the
\* seed writes: whoever may do something may also do all that it depends on, however
\* roles, grants and revocations were combined and whatever changed in between.
ResolvedIsClosed ==
  \A c \in Clients : Answered(c) =>
    \A p \in got[c] \ {Star} : Star \in got[c] \/ Catalog[p].deps \subseteq got[c]

\* A revoked permission is in force only for administrators, or because another
\* permission of the user depends on it.
RevocationsNeedAReason ==
  \A c \in Clients : Answered(c) /\ Star \notin got[c] =>
    \A p \in denied[c] \cap got[c] : \E q \in got[c] \ denied[c] : p \in Catalog[q].deps

\* Asking first makes at most one of the tenant's users an administrator, also when
\* several ask at once and users are removed between their statements.  Only a user who
\* was removed, and whom the save of an earlier update has put back in the first place,
\* becomes one beside a younger one.
OneBootstrappedAdmin ==
  \A k, l \in booted : k[1] < l[1] => k[1] \in returned

\* The same without that exception.
NoSecondAdmin == \A k, l \in booted : k[1] = l[1]

\* Unless requests for a same row overlapped, a row is as the last of them that
\* was answered with success promised: a role given is held, a permission revoked is
\* off, and administrators hold the permissions of a module that was activated.  Only
\* the bootstrap overrules a request: it gives the admin role back to a first user.
AnsweredChangesHold ==
  \A w \in promised : Holds(w[1]) = w[2] \/ w[1] \in {<<"role", k[1], k[2]>> : k \in booted}

\* What an administrator is shown can be used: the module a door requires is on
\* whenever the permission it requires is listed.
MenusOpenDoors ==
  LET menu == Menu  on == active \cup Essential \cup {None}
  IN  \A d \in AllDoors : d.needs \in menu => d.module \in on

=============================================================================
