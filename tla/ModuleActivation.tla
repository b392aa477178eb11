--------------------------- MODULE ModuleActivation ---------------------------
(***************************************************************************)
(* The modules of one tenant and its onboarding: activateModule and        *)
(* deactivateModule of tenant-module.service.ts, complete and skip of      *)
(* onboarding.service.ts, and updateConfig of tenant.service.ts.           *)
(*                                                                         *)
(* None of these handlers uses a transaction.  Each await is a step: other *)
(* requests run between the count of the active modules, the merge of the  *)
(* records left under older names, the save, and the save of the tenant.   *)
(***************************************************************************)
EXTENDS Naturals, FiniteSets

CONSTANTS
  Workers,      (* Requests served at the same time.                        *)
  Modules,      (* Canonical module ids.                                    *)
  CanonicalOf,  (* Older names of modules, and the module each names.       *)
  Essential,    (* Modules the plan does not count.                         *)
  Suggested,    (* Modules that onboarding offers.                          *)
  Limit,        (* maxBillableModules of the tenant's plan.                 *)
  InitialTables, (* What tenant_module may hold at the start, oldest first. *)
  MaxRows,      (* Bounds the ids of rows.                                  *)
  Requests,     (* What clients may ask for.                                *)
  MaxRequests,  (* Bounds the requests ever begun.                          *)
  MayFail       (* Statements may fail.                                     *)

None == "none"
Kinds == {"activate", "deactivate", "complete", "skip", "configure"}
Names == Modules \cup DOMAIN CanonicalOf
RowIds == 1..MaxRows

Request ==
  [kind   : Kinds,
   module : Names \cup {None},            \* the id in the URL or the body
   flag   : {"on", "off", None},         \* onboardingCompleted in the body
   header : BOOLEAN]                      \* the request names its tenant in x-tenant-id

ASSUME CatalogAssumption ==
  /\ None \notin Names
  /\ CanonicalOf \in [DOMAIN CanonicalOf -> Modules]
  /\ DOMAIN CanonicalOf \cap Modules = {}
  /\ Essential \subseteq Modules /\ Suggested \subseteq Modules
  /\ {Limit, MaxRows, MaxRequests} \subseteq Nat
  /\ MayFail \in BOOLEAN

ASSUME RowsAssumption ==
  \A t \in InitialTables :
    /\ DOMAIN t \subseteq RowIds
    /\ t \in [DOMAIN t -> [module : Names, active : BOOLEAN]]
    /\ \A i, j \in DOMAIN t : t[i].module = t[j].module => i = j

ASSUME RequestAssumption ==
  /\ Requests \subseteq Request
  /\ \A q \in Requests :
       q.kind \in {"activate", "deactivate", "complete"} <=> q.module # None

VARIABLES
  rows,       (* tenant_module: the rows of the tenant, by id.              *)
  onboarded,  (* tenant.config.onboardingCompleted.                         *)
  granted,    (* Modules whose permissions the admin role has.              *)
  begun,      (* Requests begun so far.                                     *)
  pc,         (* Where a worker stands.                                     *)
  job,        (* The request it serves.                                     *)
  mem,        (* The records it has loaded and is about to save.            *)
  settled,    (* History: what was on when the last request was answered.   *)
  answer,     (* History: that answer.                                      *)
  overlap     (* History: two requests were served at the same time.        *)

disk == <<rows, onboarded, granted>>
hist == <<settled, answer>>
vars == <<disk, begun, pc, job, mem, hist, overlap>>

-----------------------------------------------------------------------------
(* Records and names.                                                      *)

NoRequest == [kind |-> None, module |-> None, flag |-> None, header |-> FALSE]
Fresh == 0        \* the id of a record that has no row yet
NoRecord == [id |-> Fresh, module |-> None, active |-> FALSE]
NoMemory ==
  [rec |-> NoRecord, dups |-> {}, keep |-> FALSE, gate |-> FALSE, last |-> FALSE,
   config |-> FALSE, set |-> {}]

Resting == {"idle", "failed"}

normalizeModuleId(name) ==
  IF name \in DOMAIN CanonicalOf THEN CanonicalOf[name] ELSE name

EnabledIn(table) ==
  {normalizeModuleId(table[i].module) : i \in {j \in DOMAIN table : table[j].active}}

\* The tenant starts within its plan.
ASSUME PlanAssumption ==
  /\ IsFiniteSet(Workers) /\ Workers # {}
  /\ \A t \in InitialTables : Cardinality(EnabledIn(t) \ Essential) <= Limit

Enabled == EnabledIn(rows)
Billable == Enabled \ Essential

\* billableActiveCount >= maxModules; the mutant counts one module too many.
AtLimitOffByOne == Cardinality(Billable) > Limit
AtLimit == Cardinality(Billable) >= Limit

\* The records of a module under any of its names.
Records(m) == {i \in DOMAIN rows : normalizeModuleId(rows[i].module) = m}

\* The one under the canonical name, or else the oldest.
pickPreferredRecord(m) ==
  CHOOSE i \in Records(m) :
    \/ rows[i].module = m
    \/ /\ \A j \in Records(m) : rows[j].module # m
       /\ \A j \in Records(m) : i <= j

\* The others, which are to be removed.  The mutant takes all older names for them.
olderNames(m) == {i \in Records(m) : rows[i].module # m}
duplicateRecords(m) == Records(m) \ {pickPreferredRecord(m)}

\* The preferred record under its canonical name, active if any of them is.  The
\* mutant forgets the other records.
mergedRecordAlone(m) ==
  LET i == pickPreferredRecord(m)
  IN [id |-> i, module |-> m, active |-> rows[i].active]
mergedRecord(m) ==
  LET i == pickPreferredRecord(m)
  IN [id |-> i, module |-> m, active |-> \E j \in Records(m) : rows[j].active]

\* The id of a new row; nobody holds it.
UnusedIds ==
  {i \in RowIds \ DOMAIN rows : \A w \in Workers : i \notin mem[w].dups \cup {mem[w].rec.id}}
UnusedId == CHOOSE i \in UnusedIds : TRUE

-----------------------------------------------------------------------------
(* The steps of a request.                                                 *)

Init ==
  /\ rows \in InitialTables
  /\ onboarded \in BOOLEAN
  /\ granted = Enabled
  /\ begun = 0
  /\ pc = [w \in Workers |-> "idle"]
  /\ job = [w \in Workers |-> NoRequest]
  /\ mem = [w \in Workers |-> NoMemory]
  /\ settled = [enabled |-> Enabled, onboarded |-> onboarded]
  /\ answer = [kind |-> None, module |-> None, ok |-> TRUE]
  /\ overlap = FALSE

Goto(w, l) == pc' = [pc EXCEPT ![w] = l]
Module(w) == normalizeModuleId(job[w].module)

\* What a request is about: complete takes the id as it comes.
Named(w) == IF job[w].kind = "complete" THEN job[w].module ELSE Module(w)

\* The request is answered.
Reply(w, ok) ==
  /\ Goto(w, "idle")
  /\ job' = [job EXCEPT ![w] = NoRequest]
  /\ mem' = [mem EXCEPT ![w] = NoMemory]
  /\ settled' = [enabled |-> EnabledIn(rows'), onboarded |-> onboarded']
  /\ answer' = [kind |-> job[w].kind, module |-> Named(w), ok |-> ok]

Refuse(w) == UNCHANGED disk /\ Reply(w, FALSE)

FirstStep == [activate |-> "count", deactivate |-> "find", complete |-> "flag",
              skip |-> "flag", configure |-> "tenant"]

\* OnboardingEnforcementGuard lets complete, skip and activate pass, and whoever
\* does not name the tenant in the header.  deactivateModule refuses an essential
\* module before it reads anything.
Barred(q) ==
  \/ q.kind \in {"deactivate", "configure"} /\ q.header /\ ~onboarded
  \/ q.kind = "deactivate" /\ normalizeModuleId(q.module) \in Essential

Begin(w, q) ==
  /\ pc[w] \in Resting
  /\ begun < MaxRequests
  /\ begun' = begun + 1
  /\ job' = [job EXCEPT ![w] = q]
  /\ Goto(w, IF Barred(q) THEN "refuse" ELSE FirstStep[q.kind])
  /\ overlap' = (overlap \/ \E v \in Workers : pc[v] \notin Resting)
  /\ UNCHANGED <<disk, mem, hist>>

Blocked(w) == pc[w] = "refuse" /\ Refuse(w) /\ UNCHANGED <<begun, overlap>>

\* complete and skip read the tenant: 'O onboarding já foi concluído.'  complete
\* compares the id of the body, not the module it names, with those it offers.
ReadFlag(w) ==
  /\ pc[w] = "flag"
  /\ IF onboarded \/ (job[w].kind = "complete" /\ job[w].module \notin Suggested \ Essential)
     THEN Refuse(w)
     ELSE /\ Goto(w, IF job[w].kind = "complete" THEN "usage" ELSE "tenant")
          /\ UNCHANGED <<disk, job, mem, hist>>
  /\ UNCHANGED <<begun, overlap>>

\* complete refuses at the limit.
CheckUsage(w) ==
  /\ pc[w] = "usage"
  /\ IF AtLimit THEN Refuse(w)
     ELSE Goto(w, "count") /\ UNCHANGED <<disk, job, mem, hist>>
  /\ UNCHANGED <<begun, overlap>>

\* activateModule counts; at the limit a first merge decides whether it goes on.
Count(w) ==
  /\ pc[w] = "count"
  /\ mem' = [mem EXCEPT ![w].gate = AtLimit]
  /\ Goto(w, "find")
  /\ UNCHANGED <<disk, begun, job, hist, overlap>>

\* mergeLegacyRecords loads the records of the module ...
Find(w) ==
  /\ pc[w] = "find"
  /\ IF Records(Module(w)) = {} THEN Goto(w, "merged") /\ UNCHANGED mem
     ELSE LET rec  == mergedRecord(Module(w))
              dups == duplicateRecords(Module(w))
              keep == rows[rec.id] # [module |-> rec.module, active |-> rec.active] IN
          /\ mem' = [mem EXCEPT ![w].rec = rec, ![w].dups = dups, ![w].keep = keep]
          /\ Goto(w, IF dups # {} THEN "remove" ELSE IF keep THEN "select" ELSE "merged")
  /\ UNCHANGED <<disk, begun, job, hist, overlap>>

\* ... removes the duplicates, and saves the preferred record if it has changed.
Remove(w) ==
  /\ pc[w] = "remove"
  /\ rows' = [i \in DOMAIN rows \ mem[w].dups |-> rows[i]]
  /\ mem' = [mem EXCEPT ![w].dups = {}]
  /\ Goto(w, IF mem[w].keep THEN "select" ELSE "merged")
  /\ UNCHANGED <<onboarded, granted, begun, job, hist, overlap>>

\* The merge has returned a record or null.
Merged(w) ==
  /\ pc[w] = "merged"
  /\ LET rec == mem[w].rec  on == job[w].kind # "deactivate" IN
     \/ mem[w].gate /\ ~rec.active /\ Refuse(w)
     \/ /\ mem[w].gate /\ rec.active
        /\ mem' = [mem EXCEPT ![w] = NoMemory]
        /\ Goto(w, "find") /\ UNCHANGED <<disk, job, hist>>
     \/ ~mem[w].gate /\ rec = NoRecord /\ ~on /\ UNCHANGED disk /\ Reply(w, TRUE)
     \/ /\ ~mem[w].gate /\ (rec # NoRecord \/ on)
        /\ mem' = [mem EXCEPT ![w].rec = [id |-> rec.id, module |-> Module(w), active |-> on],
                              ![w].last = TRUE]
        /\ Goto(w, "select") /\ UNCHANGED <<disk, job, hist>>
  /\ UNCHANGED <<begun, overlap>>

\* save selects the row and compares: it updates what differs, and inserts the
\* record if the row is not there (any more).
Select(w) ==
  /\ pc[w] = "select"
  /\ mem[w].rec.id = Fresh => UnusedIds # {}          \* MaxRows bounds the ids
  /\ LET rec == mem[w].rec
         id  == IF rec.id = Fresh THEN UnusedId ELSE rec.id
         set == IF id \notin DOMAIN rows THEN {"id", "module", "active"}
                ELSE {c \in {"module", "active"} : rec[c] # rows[id][c]} IN
     /\ mem' = [mem EXCEPT ![w].rec.id = id, ![w].set = set]
     /\ Goto(w, IF set # {} THEN "write" ELSE IF mem[w].last THEN "saved" ELSE "merged")
  /\ UNCHANGED <<disk, begun, job, hist, overlap>>

\* The primary key, and the unique constraint on tenant and module; the mutant has
\* none.
NeverViolates(w) == FALSE /\ w \in Workers
Violates(w) ==
  LET rec == mem[w].rec IN
  \/ "id" \in mem[w].set /\ rec.id \in DOMAIN rows
  \/ /\ "module" \in mem[w].set
     /\ rec.id \in DOMAIN rows \/ "id" \in mem[w].set
     /\ \E i \in DOMAIN rows \ {rec.id} : rows[i].module = rec.module

Abandon(w) ==
  /\ Goto(w, "failed")
  /\ job' = [job EXCEPT ![w] = NoRequest]
  /\ mem' = [mem EXCEPT ![w] = NoMemory]
  /\ UNCHANGED <<disk, begun, hist, overlap>>

\* An UPDATE of a row that was deleted in between affects nothing.
Write(w) ==
  /\ pc[w] = "write"
  /\ LET rec == mem[w].rec  set == mem[w].set IN
     \/ Violates(w) /\ Abandon(w)
     \/ /\ ~Violates(w)
        /\ rows' = [i \in DOMAIN rows \cup (IF "id" \in set THEN {rec.id} ELSE {}) |->
                      IF i # rec.id THEN rows[i]
                      ELSE [module |-> IF "module" \in set THEN rec.module ELSE rows[i].module,
                            active |-> IF "active" \in set THEN rec.active ELSE rows[i].active]]
        /\ Goto(w, IF mem[w].last THEN "saved" ELSE "merged")
        /\ UNCHANGED <<onboarded, granted, begun, job, mem, hist, overlap>>

\* deactivateModule is through.  activateModule grants the module's permissions to
\* the admin role, and goes on if that fails.
Saved(w) ==
  /\ pc[w] = "saved"
  /\ \/ job[w].kind = "deactivate" /\ UNCHANGED disk /\ Reply(w, TRUE)
     \/ /\ job[w].kind # "deactivate"
        /\ \E given \in SUBSET {Module(w)} : granted' = granted \cup given
        /\ UNCHANGED <<rows, onboarded>>
        /\ IF job[w].kind = "activate" THEN Reply(w, TRUE)
           ELSE Goto(w, "tenant") /\ UNCHANGED <<job, mem, hist>>
  /\ UNCHANGED <<begun, overlap>>

\* updateConfig loads the tenant and merges the body into its configuration.
ReadTenant(w) ==
  /\ pc[w] = "tenant"
  /\ LET q == job[w] IN
     mem' = [mem EXCEPT ![w].config = IF q.kind # "configure" THEN TRUE
                                      ELSE IF q.flag = None THEN onboarded ELSE q.flag = "on"]
  /\ Goto(w, "compare")
  /\ UNCHANGED <<disk, begun, job, hist, overlap>>

\* save compares the configuration with the row's, whoever has changed that.
CompareTenant(w) ==
  /\ pc[w] = "compare"
  /\ Goto(w, IF mem[w].config # onboarded THEN "store" ELSE "report")
  /\ UNCHANGED <<disk, begun, job, mem, hist, overlap>>

StoreTenant(w) ==
  /\ pc[w] = "store"
  /\ onboarded' = mem[w].config
  /\ Goto(w, "report")
  /\ UNCHANGED <<rows, granted, begun, job, mem, hist, overlap>>

\* complete and skip read the active modules for their answer.
Report(w) == /\ pc[w] = "report" /\ UNCHANGED <<disk, begun, overlap>> /\ Reply(w, TRUE)

Fail(w) == MayFail /\ pc[w] \notin Resting /\ Abandon(w)

Step(w) ==
  \/ Blocked(w) \/ ReadFlag(w) \/ CheckUsage(w) \/ Count(w) \/ Find(w) \/ Remove(w)
  \/ Merged(w) \/ Select(w) \/ Write(w) \/ Saved(w)
  \/ ReadTenant(w) \/ CompareTenant(w) \/ StoreTenant(w) \/ Report(w)

Next == \E w \in Workers : (\E q \in Requests : Begin(w, q)) \/ Step(w) \/ Fail(w)

Spec == Init /\ [][Next]_vars

-----------------------------------------------------------------------------
(* Properties.                                                             *)

Record == [id : RowIds \cup {Fresh}, module : Modules \cup {None}, active : BOOLEAN]

\* The types; a resting worker holds nothing; no two rows of the same name.
TypeOK ==
  /\ DOMAIN rows \subseteq RowIds
  /\ rows \in [DOMAIN rows -> [module : Names, active : BOOLEAN]]
  /\ \A i, j \in DOMAIN rows : rows[i].module = rows[j].module => i = j
  /\ onboarded \in BOOLEAN /\ overlap \in BOOLEAN /\ granted \subseteq Modules
  /\ begun \in 0..MaxRequests
  /\ pc \in [Workers -> Resting \cup {"refuse", "flag", "usage", "count", "find", "remove",
                                      "merged", "select", "write", "saved", "tenant",
                                      "compare", "store", "report"}]
  /\ \A w \in Workers :
       /\ job[w] \in Request \cup {NoRequest} /\ mem[w].rec \in Record
       /\ pc[w] \in Resting => job[w] = NoRequest /\ mem[w] = NoMemory
       /\ pc[w] = "write" => mem[w].set # {}

\* A module that has a record keeps one, in whatever order merges delete, rename
\* and insert: the request that turns it on again finds its record.
RecordsSurvive ==
  [][\A m \in Modules : Records(m) # {} => Records(m)' # {}]_vars

\* Requests that overlap exceed the plan by at most one module each, in whatever
\* order they count, merge and save.
OvershootIsBounded ==
  Cardinality(Billable) <= Limit + Cardinality(Workers) - 1

\* One request at a time, and as long as statements succeed, the handlers do to
\* the tenant's modules what the catalog promises.
Catalog == INSTANCE ModuleCatalog WITH
  InitiallyOn <- {EnabledIn(t) : t \in InitialTables},
  Names <- Names, enabled <- settled.enabled, onboarded <- settled.onboarded, answer <- answer
ImplementsCatalog == Catalog!Spec

\* tenant-module.service.ts:232, 'permite até ... módulos ativos': no more modules
\* are on than the plan allows.
PlanLimitHolds == Cardinality(Billable) <= Limit

\* onboarding.service.spec.ts:70, 'rejects completion when onboarding is already
\* done': once done it stays done, unless a client asks otherwise.
OnboardingStaysDone ==
  [][\A w \in Workers :
       job[w].flag # "off" /\ pc[w] = "store" /\ pc'[w] = "report" /\ onboarded =>
         onboarded']_vars

=============================================================================
