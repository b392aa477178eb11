------------------------------ MODULE Seeding -------------------------------
(***************************************************************************)
(* What every container does before it serves: docker/entrypoint.sh runs   *)
(* seed(), whose statements commit one by one, and starts the application  *)
(* however the seed ended.  Several containers start at the same time,     *)
(* break off and are restarted, and the ones that serve already change     *)
(* what the others are seeding.                                            *)
(***************************************************************************)
EXTENDS Naturals, SequencesExt, PermissionCatalog

CONSTANTS
  Replicas,     (* Containers.                                             *)
  PERMISSIONS,  (* The permissions of this release, some of the catalog's. *)
  Sample,       (* The plans and modules of the demo company a run seeds.  *)
  Starts,       (* Databases a run may begin with.                         *)
  MaxCrashes,   (* Bounds the containers that stop while they seed,        *)
  MaxFailures,  (* the statements the database does not answer,            *)
  MaxEdits      (* and the changes made through the API.                   *)

DEMO_MODULES ==
  <<"ecommerce", "order_management", "delivery", "fleet_management",
   "drivers_management", "financial", "user", "team_permissions", "activity_log",
   "inventory", "multi_organization", "document", "advanced_reports">>
PLANS == <<"starter", "profissional", "ceo", "enterprise">>
DemoModules == ToSet(DEMO_MODULES)

Permissions == ToSet(PERMISSIONS)

ASSUME SeedingAssumption ==
  /\ Permissions \subseteq Slugs
  /\ MaxCrashes \in Nat /\ MaxFailures \in Nat /\ MaxEdits \in Nat
  \* Whatever the demo company works with, its administrator has permissions for.
  /\ \A m \in DemoModules : \E p \in Slugs : Catalog[p].module = m

-----------------------------------------------------------------------------
\* One item per row that is looked for and, if need be, inserted.
Rows(kind, names) == {[kind |-> kind, name |-> n] : n \in names}
The(kind) == [kind |-> kind, name |-> None]
Company == The("tenant")
AdminRole == The("role")
AdminUser == The("user")
AdminLink == The("userRole")
Singles == {Company, AdminRole, AdminUser, AdminLink}
AllRows == Rows("permission", Permissions) \cup Rows("plan", Sample \cap ToSet(PLANS)) \cup Singles
             \cup Rows("module", Sample \cap DemoModules)

Each(kind, names) == [i \in DOMAIN names |-> [kind |-> kind, name |-> names[i]]]
Sampled(names) == SelectSeq(names, LAMBDA n : n \in Sample)

\* The program: items in the order of the source.
Program ==
  Each("permission", PERMISSIONS) \o Each("plan", Sampled(PLANS))
  \o <<Company, AdminRole, The("grants"), AdminUser, AdminLink>>
  \o Each("module", Sampled(DEMO_MODULES))

VARIABLES
  rows,         (* Rows that exist,                                        *)
  granted,      (* permissions the demo administrators' role has,          *)
  off,          (* modules whose record says inactive,                     *)
  onboarded,    (* the flag in the company's configuration, and            *)
  theme,        (* a choice of the customer's in it.                       *)
  pc,           (* Where a container is,                                   *)
  at,           (* the item it is at,                                      *)
  copy,         (* the configuration it loaded,                            *)
  new,          (* the permissions it is about to grant,                   *)
  outcome,      (* and how its seed ended.                                 *)
  crashes, failures, edits,
  disturbed     (* History: who was seeding while the API changed things.  *)

db     == <<rows, granted, off, onboarded, theme>>
local  == <<copy, new, outcome>>
bounds == <<crashes, failures, edits>>
vars   == <<db, pc, at, local, bounds, disturbed>>

-----------------------------------------------------------------------------

Init ==
  /\ \E d \in Starts :
       /\ rows = d.rows /\ granted = d.granted
       /\ off = {} /\ onboarded = d.onboarded /\ theme = "default"
  /\ pc = [r \in Replicas |-> "down"]
  /\ at = [r \in Replicas |-> 1]
  /\ copy = [r \in Replicas |-> "default"]
  /\ new = [r \in Replicas |-> {}]
  /\ outcome = [r \in Replicas |-> None]
  /\ crashes = 0 /\ failures = 0 /\ edits = 0 /\ disturbed = {}

Goto(r, l) == pc' = [pc EXCEPT ![r] = l]
Seeds(r) == pc[r] \in {"find", "save", "update"}

\* restart: unless-stopped.
Boot(r) ==
  /\ pc[r] = "down"
  /\ Goto(r, "find")
  /\ at' = [at EXCEPT ![r] = 1]
  /\ outcome' = [outcome EXCEPT ![r] = None]
  /\ disturbed' = disturbed \ {r}
  /\ UNCHANGED <<db, copy, new, bounds>>

Crash(r) ==
  /\ Seeds(r) /\ crashes < MaxCrashes
  /\ crashes' = crashes + 1
  /\ Goto(r, "down")
  /\ UNCHANGED <<db, at, local, failures, edits, disturbed>>

\* npm run seed || echo: the application starts whether the seed succeeded or not.
Serve(r, how) ==
  /\ Goto(r, "serving")
  /\ outcome' = [outcome EXCEPT ![r] = how]

Finish(r) ==
  /\ pc[r] = "find" /\ at[r] > Len(Program)
  /\ Serve(r, "seeded")
  /\ UNCHANGED <<db, at, copy, new, bounds, disturbed>>

FailStatement(r) ==
  /\ Seeds(r) /\ failures < MaxFailures
  /\ failures' = failures + 1
  /\ Serve(r, "failed")
  /\ UNCHANGED <<db, at, copy, new, crashes, edits, disturbed>>

-----------------------------------------------------------------------------
(* seed()                                                                  *)

Item(r) == Program[at[r]]
At(r, l, kind) == pc[r] = l /\ at[r] <= Len(Program) /\ Item(r).kind = kind
NextItem(r) == Goto(r, "find") /\ at' = [at EXCEPT ![r] = @ + 1]

\* Look for the row; when it is there, go on.
FindOrSave(r) ==
  /\ IF Item(r) \in rows THEN NextItem(r) ELSE Goto(r, "save") /\ UNCHANGED at
  /\ UNCHANGED <<db, local, bounds, disturbed>>

\* INSERT; a duplicate ends the seed.
Insert(r) ==
  /\ IF Item(r) \in rows THEN Serve(r, "failed") /\ UNCHANGED <<rows, at>>
     ELSE rows' = rows \cup {Item(r)} /\ NextItem(r) /\ UNCHANGED outcome
  /\ UNCHANGED <<copy, new, bounds, disturbed>>

\* A slip: a permission is inserted without a look.
SeedPermissionBlindly(r) ==
  \/ At(r, "find", "permission") /\ Goto(r, "save") /\ UNCHANGED <<db, at, local, bounds, disturbed>>
  \/ At(r, "save", "permission") /\ Insert(r) /\ UNCHANGED <<granted, off, onboarded, theme>>

\* A permission and a plan that exist are updated to what the release says, which
\* changes nothing that is modelled.
SeedPermission(r) ==
  \/ At(r, "find", "permission") /\ FindOrSave(r)
  \/ At(r, "save", "permission") /\ Insert(r) /\ UNCHANGED <<granted, off, onboarded, theme>>

SeedPlan(r) ==
  \/ At(r, "find", "plan") /\ FindOrSave(r)
  \/ At(r, "save", "plan") /\ Insert(r) /\ UNCHANGED <<granted, off, onboarded, theme>>

\* A slip: the configuration is written from scratch.
MergedAfresh(mine) == "default"

\* The flag goes into the configuration that was loaded, and all of it is written.
Merged(mine) == mine

FindTenant(r) ==
  /\ At(r, "find", "tenant")
  /\ copy' = [copy EXCEPT ![r] = theme]
  /\ Goto(r, IF Company \in rows THEN "update" ELSE "save")
  /\ UNCHANGED <<db, at, new, outcome, bounds, disturbed>>

UpdateTenant(r) ==
  /\ At(r, "update", "tenant")
  /\ onboarded' = TRUE
  /\ theme' = Merged(copy[r])
  /\ NextItem(r)
  /\ UNCHANGED <<rows, granted, off, local, bounds, disturbed>>

InsertTenant(r) ==
  /\ At(r, "save", "tenant") /\ Insert(r)
  /\ onboarded' = (onboarded \/ Company \notin rows)
  /\ UNCHANGED <<granted, off, theme>>

SeedTenant(r) == FindTenant(r) \/ UpdateTenant(r) \/ InsertTenant(r)

SeedAdminRole(r) ==
  \/ At(r, "find", "role") /\ FindOrSave(r)
  \/ At(r, "save", "role") /\ Insert(r) /\ UNCHANGED <<granted, off, onboarded, theme>>

\* A slip: a role that has some permissions is taken to have them all.
MissingOnlyAtFirst ==
  IF granted = {} THEN Permissions ELSE {}

\* Permissions of the database that the role does not have.
Missing == {p \in Permissions : [kind |-> "permission", name |-> p] \in rows} \ granted

AssignPermissions(r) ==
  \/ /\ At(r, "find", "grants")
     /\ new' = [new EXCEPT ![r] = Missing]
     /\ IF Missing = {} THEN NextItem(r) ELSE Goto(r, "save") /\ UNCHANGED at
     /\ UNCHANGED <<db, copy, outcome, bounds, disturbed>>
  \/ /\ At(r, "save", "grants")
     /\ IF new[r] \cap granted # {} THEN Serve(r, "failed") /\ UNCHANGED <<granted, at>>
        ELSE granted' = granted \cup new[r] /\ NextItem(r) /\ UNCHANGED outcome
     /\ UNCHANGED <<rows, off, onboarded, theme, copy, new, bounds, disturbed>>

SeedAdminUser(r) ==
  \/ At(r, "find", "user") /\ FindOrSave(r)
  \/ At(r, "save", "user") /\ Insert(r) /\ UNCHANGED <<granted, off, onboarded, theme>>

AssignRole(r) ==
  \/ At(r, "find", "userRole") /\ FindOrSave(r)
  \/ At(r, "save", "userRole") /\ Insert(r) /\ UNCHANGED <<granted, off, onboarded, theme>>

\* A module that was switched off keeps its record and stays off.
SeedModule(r) ==
  \/ At(r, "find", "module") /\ FindOrSave(r)
  \/ At(r, "save", "module") /\ Insert(r) /\ UNCHANGED <<granted, off, onboarded, theme>>

Seed(r) ==
  \/ SeedPermission(r) \/ SeedPlan(r) \/ SeedTenant(r) \/ SeedAdminRole(r)
  \/ AssignPermissions(r) \/ SeedAdminUser(r) \/ AssignRole(r) \/ SeedModule(r)
  \/ Finish(r)

-----------------------------------------------------------------------------
(* The API of a container that serves                                      *)

Edit ==
  /\ edits < MaxEdits /\ edits' = edits + 1
  /\ \E r \in Replicas : pc[r] = "serving"
  /\ disturbed' = disturbed \cup {r \in Replicas : Seeds(r)}
  /\ UNCHANGED <<rows, pc, at, local, crashes, failures>>

Deactivate ==
  /\ Edit
  /\ \E m \in DemoModules \ off :
       [kind |-> "module", name |-> m] \in rows /\ off' = off \cup {m}
  /\ UNCHANGED <<granted, onboarded, theme>>

DropPermission ==
  /\ Edit
  /\ \E p \in granted : granted' = granted \ {p}
  /\ UNCHANGED <<off, onboarded, theme>>

Redecorate ==
  /\ Edit
  /\ Company \in rows /\ theme' = "dark" /\ theme # "dark"
  /\ UNCHANGED <<granted, off, onboarded>>

-----------------------------------------------------------------------------

Next ==
  \/ \E r \in Replicas : Boot(r) \/ Crash(r) \/ FailStatement(r) \/ Seed(r)
  \/ Deactivate \/ DropPermission \/ Redecorate

\* A container is restarted when it stops, and the seed has nothing to wait for.
Fairness == \A r \in Replicas : WF_vars(Boot(r)) /\ WF_vars(Seed(r))
FairSpec == Init /\ [][Next]_vars /\ Fairness

-----------------------------------------------------------------------------
(* Properties                                                              *)

\* Rows refer to rows that exist.
TypeOK ==
  /\ rows \subseteq AllRows /\ theme \in {"default", "dark"}
  /\ granted \subseteq {p \in Permissions : [kind |-> "permission", name |-> p] \in rows}
  /\ granted # {} => AdminRole \in rows
  /\ AdminLink \in rows => {AdminRole, AdminUser} \subseteq rows
  /\ rows \cap ({AdminRole, AdminUser} \cup Rows("module", DemoModules)) # {} => Company \in rows

Complete == rows = AllRows /\ granted = Permissions /\ onboarded

\* A seed that ends well leaves nothing out, also when other containers seeded at the
\* same time or broke off, unless the API took something back meanwhile.
FinishedSeedsAreComplete ==
  [][\A r \in Replicas : outcome'[r] = "seeded" /\ outcome[r] = None =>
       r \in disturbed \/ Complete]_vars

\* A new start does not undo what a customer chose, unless it was chosen while the seed
\* had the company's row in hand: the modules he switched off stay off and his
\* configuration stays.
SerialSeedsKeepChoices ==
  [][\A r \in Replicas \ disturbed : at'[r] # at[r] => off' = off /\ theme' = theme]_vars

\* Unless a statement fails or the API takes something back, the demo company gets
\* complete: of containers that disturb each other one gets through, and one that
\* stopped is restarted.
SeedCompletes == <>(Complete \/ failures + edits > 0)

\* '[entrypoint] Seed skipped or already applied.'
SkippedMeansApplied ==
  \A r \in Replicas : outcome[r] = "failed" /\ edits = 0 => Complete

=============================================================================
