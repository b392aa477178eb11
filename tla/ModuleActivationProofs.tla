------------------------ MODULE ModuleActivationProofs ------------------------
(***************************************************************************)
(* Modules keep their records and plans are exceeded by no more than one   *)
(* module per request, for any requests, aliases and tables.               *)
(*                                                                         *)
(* The inductive invariant says of every request what it holds (Formed);   *)
(* that the record it loaded is, whatever others have done since, still    *)
(* the one that a merge prefers, and the record it is about to make still  *)
(* has its module to itself or a row under the canonical name in its way   *)
(* (Attached); that no request removes what another one saves (Apart);     *)
(* and that the modules which are on, together with those which requests   *)
(* past their count will turn on, exceed the plan by less than one per     *)
(* request (Potential).                                                    *)
(***************************************************************************)
EXTENDS ModuleActivation, FiniteSetTheorems, WellFoundedInduction, TLAPS

TenantModule == [module : Names, active : BOOLEAN]
Columns == {"id", "module", "active"}
Memory ==
  [rec : Record, dups : SUBSET RowIds, keep : BOOLEAN, gate : BOOLEAN, last : BOOLEAN,
   config : BOOLEAN, set : SUBSET Columns]
About == {"activate", "deactivate", "complete"}

\* A table of the tenant: no two rows of the same name.
Table(t) ==
  /\ DOMAIN t \subseteq RowIds
  /\ t \in [DOMAIN t -> TenantModule]
  /\ \A i, j \in DOMAIN t : t[i].module = t[j].module => i = j

\* The records of a module in a table, and the one among them that a merge keeps.
RecordsIn(t, m) == {i \in DOMAIN t : normalizeModuleId(t[i].module) = m}
IsPreferred(t, i, m) ==
  /\ i \in RecordsIn(t, m)
  /\ \/ t[i].module = m
     \/ \A j \in RecordsIn(t, m) : t[j].module # m /\ i <= j

\* A module without a record, or with one under its canonical name: a new record of
\* it either is the only one or violates the unique constraint.
Closed(t, m) == RecordsIn(t, m) = {} \/ \E i \in DOMAIN t : t[i].module = m

\* What no step does to the table, whatever it removes, renames or inserts.
Tame(t, s) ==
  \A m \in Modules :
    /\ RecordsIn(t, m) # {} => RecordsIn(s, m) # {}
    /\ \A i \in DOMAIN s : IsPreferred(t, i, m) => IsPreferred(s, i, m)
    /\ \A i \in RecordsIn(t, m) \cap DOMAIN s : i \in RecordsIn(s, m)
    /\ Closed(t, m) => Closed(s, m)

\* What a request q at step p holds in its memory k.
Formed(p, q, k) ==
  /\ p \notin Resting => q \in Requests
  /\ p \in {"usage", "count", "find", "remove", "merged", "select", "write", "saved"} =>
       q.kind \in About
  /\ p \in Resting \cup {"refuse", "flag", "usage", "count"} => k = NoMemory
  /\ p = "find" => k.rec = NoRecord /\ k.dups = {}
  /\ p \in {"remove", "select", "write"} => k.rec.module = normalizeModuleId(q.module)
  /\ k.rec.id # Fresh => k.rec.module = normalizeModuleId(q.module)
                         /\ q \in Requests /\ q.kind \in About
  /\ p = "write" => k.rec.id # Fresh /\ k.set # {} /\ ("id" \in k.set => k.set = Columns)
  /\ p = "remove" <=> k.dups # {}

\* How what it holds relates to the table.
Attached(t, p, q, k) ==
  /\ k.rec.id \in DOMAIN t => IsPreferred(t, k.rec.id, k.rec.module)
  /\ k.dups # {} => k.rec.id \in DOMAIN t
  /\ k.dups \cap DOMAIN t \subseteq RecordsIn(t, k.rec.module)
  /\ p \in {"merged", "select", "write"} /\ k.rec.id \notin DOMAIN t =>
       Closed(t, normalizeModuleId(q.module))

\* What the memories k and l of two requests have to do with each other.
Apart(t, k, l) ==
  /\ k.rec.id \notin l.dups
  /\ k.rec.id = l.rec.id /\ k.rec.id # Fresh => k.rec.id \in DOMAIN t

\* A request that may still turn its module on: it passed the count, or it found
\* the module on.
Committed(p, q, k) ==
  \/ /\ p \in {"find", "remove", "merged", "select", "write"}
     /\ q.kind # "deactivate" /\ ~k.gate
  \/ p \in {"remove", "merged", "select", "write"} /\ k.rec.active

Pending == {Module(w) : w \in {v \in Workers : Committed(pc[v], job[v], mem[v])}}
Potential == (Enabled \cup Pending) \ Essential

\* The conjuncts of the inductive invariant.
Shaped ==
  /\ TypeOK
  /\ job \in [Workers -> Request \cup {NoRequest}]
  /\ mem \in [Workers -> Memory]
  /\ \A w \in Workers : Formed(pc[w], job[w], mem[w])

Merging ==
  /\ \A w \in Workers : Attached(rows, pc[w], job[w], mem[w])
  /\ \A v, w \in Workers : (v # w => Apart(rows, mem[v], mem[w]))
                           /\ mem[w].rec.id \notin mem[w].dups

Bounded == Cardinality(Potential) <= Limit + Cardinality(Workers) - 1

IInv == Shaped /\ Merging /\ Bounded

-----------------------------------------------------------------------------
(* What a step of one request w does, as far as the invariant is concerned. *)

Stages == Resting \cup
  {"refuse", "flag", "usage", "count", "find", "remove", "merged", "select", "write", "saved",
   "tenant", "compare", "store", "report"}

\* The other requests stand where they stood.
Alone(w) ==
  /\ pc' = [pc EXCEPT ![w] = pc'[w]]
  /\ job' = [job EXCEPT ![w] = job'[w]]
  /\ mem' = [mem EXCEPT ![w] = mem'[w]]

\* The step keeps to the types and shapes.
Orderly(w) ==
  /\ Alone(w)
  /\ pc'[w] \in Stages /\ job'[w] \in Request \cup {NoRequest} /\ mem'[w] \in Memory
  /\ pc'[w] \in Resting => job'[w] = NoRequest
  /\ Formed(pc'[w], job'[w], mem'[w])
  /\ onboarded' \in BOOLEAN /\ overlap' \in BOOLEAN
  /\ granted' \subseteq Modules /\ begun' \in 0..MaxRequests

\* It removes no records but the duplicates it has found, inserts none but its own,
\* and is left with a record that nobody removes.
Careful(w) ==
  /\ Table(rows') /\ Tame(rows, rows')
  /\ DOMAIN rows' \subseteq DOMAIN rows \cup {mem[w].rec.id}
  /\ DOMAIN rows \subseteq DOMAIN rows' \cup mem[w].dups
  /\ Attached(rows', pc'[w], job'[w], mem'[w])
  /\ mem'[w].rec.id \notin mem'[w].dups
  /\ \A v \in Workers \ {w} : Apart(rows', mem[v], mem'[w]) /\ Apart(rows', mem'[w], mem[v])

\* It turns nothing on that was neither on nor pending.
Modest(w) ==
  /\ Enabled' \subseteq Enabled \cup Pending
  /\ Committed(pc'[w], job'[w], mem'[w]) =>
       normalizeModuleId(job'[w].module) \in Enabled \cup Pending

Sound(w) == Orderly(w) /\ Careful(w) /\ Modest(w)

-----------------------------------------------------------------------------
(* How far a request has come that is served alone: t is the table, on     *)
(* whether onboarding is over, s what was settled by the last answer.      *)

IsFull(S) == Cardinality(S \ Essential) >= Limit
Late == {"tenant", "compare", "store", "report"}
Underway == Late \cup {"usage", "count", "find", "remove", "merged", "select", "write", "saved"}

\* The modules that are on.
Standing(t, s, p, q) ==
  LET m == normalizeModuleId(q.module) IN
  /\ p \in Resting \cup {"refuse", "flag", "usage", "count", "find", "remove", "merged"} =>
       EnabledIn(t) = s.enabled
  /\ p \in {"select", "write"} => EnabledIn(t) \ {m} = s.enabled \ {m}
  /\ p = "saved" => EnabledIn(t) = IF q.kind = "deactivate" THEN s.enabled \ {m}
                                   ELSE s.enabled \cup {m}
  /\ p \in Late => EnabledIn(t) = IF q.kind = "complete" THEN s.enabled \cup {m}
                                  ELSE s.enabled

\* What the request has been checked for.
Entitled(on, s, p, q, k) ==
  LET m == normalizeModuleId(q.module) IN
  /\ on = IF p = "report" THEN k.config ELSE s.onboarded
  /\ p = "refuse" => \/ q.kind \in {"deactivate", "configure"} /\ ~s.onboarded
                     \/ q.kind = "deactivate" /\ m \in Essential
  /\ p = "flag" => q.kind \in {"complete", "skip"}
  /\ p = "usage" => q.kind = "complete"
  /\ p = "count" => q.kind \in {"activate", "complete"}
  /\ p \in Late => q.kind \in {"complete", "skip", "configure"}
  /\ p \in Late \ {"tenant"} /\ q.kind # "configure" => k.config
  /\ p \in Underway =>
       /\ q.kind \in {"complete", "skip"} => ~s.onboarded
       /\ q.kind = "complete" => q.module = m /\ m \in Suggested \ Essential /\ ~k.gate
       /\ q.kind = "complete" /\ p # "usage" => ~IsFull(s.enabled)
       /\ q.kind = "deactivate" => m \notin Essential /\ ~k.gate
       /\ q.kind = "activate" /\ p # "count" =>
            IF k.gate THEN IsFull(s.enabled) ELSE m \in s.enabled \/ ~IsFull(s.enabled)

\* What it holds of the module's records.
Grasping(t, s, p, q, k) ==
  LET m == normalizeModuleId(q.module) IN
  /\ p \in {"find", "remove", "merged"} => ~k.last
  /\ p = "remove" =>
       /\ RecordsIn(t, m) = k.dups \cup {k.rec.id}
       /\ k.rec.active <=> m \in s.enabled
       /\ ~k.keep => t[k.rec.id] = [module |-> m, active |-> k.rec.active]
  /\ p = "merged" =>
       \/ k.rec = NoRecord /\ RecordsIn(t, m) = {}
       \/ /\ RecordsIn(t, m) = {k.rec.id}
          /\ t[k.rec.id] = [module |-> m, active |-> k.rec.active]
  /\ p \in {"select", "write"} =>
       /\ k.rec.id \in DOMAIN t => RecordsIn(t, m) = {k.rec.id}
       /\ k.rec.id \notin DOMAIN t => RecordsIn(t, m) = {} /\ k.last
       /\ k.last => ~k.gate /\ (k.rec.active <=> q.kind # "deactivate")
       /\ ~k.last => (k.rec.active <=> m \in s.enabled)
  /\ p = "saved" => ~k.gate
  /\ p = "write" =>
       /\ k.rec.id \notin DOMAIN t <=> "id" \in k.set
       /\ k.rec.id \in DOMAIN t =>
            /\ "module" \notin k.set => t[k.rec.id].module = m
            /\ "active" \notin k.set => t[k.rec.id].active = k.rec.active

Follows(w) ==
  /\ Standing(rows, settled, pc[w], job[w])
  /\ Entitled(onboarded, settled, pc[w], job[w], mem[w])
  /\ Grasping(rows, settled, pc[w], job[w], mem[w])
RInv == \A w \in Workers : Follows(w)

-----------------------------------------------------------------------------
(* Lemmas about names and tables.                                          *)

LEMMA Canonical ==
  /\ \A n \in Names : normalizeModuleId(n) \in Modules
  /\ \A m \in Modules : normalizeModuleId(m) = m
  /\ normalizeModuleId(None) = None /\ None \notin Names
BY CatalogAssumption DEF normalizeModuleId, Names

LEMMA Kinded ==
  /\ None \notin Kinds /\ About \subseteq Kinds
  /\ \A q \in Requests :
       /\ q \in Request /\ q.kind \in Kinds
       /\ q.kind \in About => /\ q.module \in Names
                              /\ normalizeModuleId(q.module) \in Modules
       /\ q.kind \notin About => normalizeModuleId(q.module) = None
BY RequestAssumption, Canonical DEF Request, Kinds, About, None

\* The ids below another are well-founded, so that a set of rows has an oldest one.
Older == {ij \in Nat \X Nat : ij[1] < ij[2]}

LEMMA HasOldest ==
  ASSUME NEW T \in SUBSET Nat, T # {}
  PROVE  \E i \in T : \A j \in T : i <= j
<1>1. IsWellFoundedOn(Older, Nat) BY NatLessThanWellFounded DEF OpToRel, Older
<1>2. \A i, j \in Nat : i < j => <<i, j>> \in Older BY DEF Older
<1>3. \E i \in T : \A j \in T : <<j, i>> \notin Older
  BY <1>1, WFMin, Zenon
<1>4. PICK i \in T : \A j \in T : <<j, i>> \notin Older BY <1>3
<1>5. \A j \in T : ~ (j < i) BY <1>2, <1>4
<1>6. \A j \in T : i <= j BY <1>5
<1> QED BY <1>6

\* A module that has records has one that a merge keeps, and only one.
LEMMA PreferredExists ==
  ASSUME NEW t, Table(t), NEW m, RecordsIn(t, m) # {}
  PROVE  \E i \in RecordsIn(t, m) : IsPreferred(t, i, m)
<1>1. CASE \E i \in RecordsIn(t, m) : t[i].module = m
  BY <1>1 DEF IsPreferred
<1>2. CASE \A i \in RecordsIn(t, m) : t[i].module # m
  <2>1. RecordsIn(t, m) \in SUBSET Nat BY DEF RecordsIn, Table, RowIds
  <2>2. PICK i \in RecordsIn(t, m) : \A j \in RecordsIn(t, m) : i <= j
    BY <2>1, HasOldest
  <2> QED BY <1>2, <2>2 DEF IsPreferred
<1> QED BY <1>1, <1>2

LEMMA PreferredIsUnique ==
  ASSUME NEW t, Table(t), NEW m, NEW i, NEW j,
         IsPreferred(t, i, m), IsPreferred(t, j, m)
  PROVE  i = j
<1>1. i \in RecordsIn(t, m) /\ j \in RecordsIn(t, m) /\ i \in Nat /\ j \in Nat
  BY DEF IsPreferred, RecordsIn, Table, RowIds
<1>2. CASE t[i].module = m /\ t[j].module = m
  BY <1>1, <1>2 DEF RecordsIn, Table
<1>3. CASE ~(t[i].module = m /\ t[j].module = m)
  BY <1>1, <1>3 DEF IsPreferred
<1> QED BY <1>2, <1>3

\* A row under the canonical name is the preferred one.
LEMMA CanonicalIsPreferred ==
  ASSUME NEW t, Table(t), NEW m \in Modules, NEW i \in DOMAIN t, t[i].module = m
  PROVE  IsPreferred(t, i, m)
BY Canonical DEF IsPreferred, RecordsIn

LEMMA UntouchedIsTame == ASSUME NEW t PROVE Tame(t, t)
BY DEF Tame

\* Removing records of a module other than the preferred one.
LEMMA RemovalIsTame ==
  ASSUME NEW t, Table(t), NEW m, NEW D, NEW p,
         IsPreferred(t, p, m), p \notin D, D \cap DOMAIN t \subseteq RecordsIn(t, m),
         NEW s, s = [i \in DOMAIN t \ D |-> t[i]]
  PROVE  Table(s) /\ Tame(t, s)
<1>1. DOMAIN s = DOMAIN t \ D /\ \A i \in DOMAIN s : s[i] = t[i]
  OBVIOUS
<1>2. Table(s)
  <2>1. s \in [DOMAIN s -> TenantModule] BY <1>1 DEF Table
  <2> QED BY <1>1, <2>1 DEF Table
<1>3. \A n : RecordsIn(s, n) = RecordsIn(t, n) \ D BY <1>1 DEF RecordsIn
<1>4. p \in RecordsIn(t, m) /\ p \in DOMAIN s BY <1>1 DEF IsPreferred, RecordsIn
<1>5. ASSUME NEW n \in Modules
      PROVE  /\ RecordsIn(t, n) # {} => RecordsIn(s, n) # {}
             /\ \A i \in DOMAIN s : IsPreferred(t, i, n) => IsPreferred(s, i, n)
             /\ \A i \in RecordsIn(t, n) \cap DOMAIN s : i \in RecordsIn(s, n)
             /\ Closed(t, n) => Closed(s, n)
  <2>1. n # m => RecordsIn(s, n) = RecordsIn(t, n)
    BY <1>3 DEF RecordsIn
  <2>2. RecordsIn(t, n) # {} => RecordsIn(s, n) # {}
    BY <1>3, <1>4, <2>1
  <2>3. ASSUME NEW i \in DOMAIN s, IsPreferred(t, i, n) PROVE IsPreferred(s, i, n)
    <3>1. i \in RecordsIn(s, n) /\ s[i] = t[i] BY <1>1, <1>3, <2>3 DEF IsPreferred
    <3>2. \A j \in RecordsIn(s, n) : j \in RecordsIn(t, n) /\ s[j] = t[j]
      BY <1>1, <1>3 DEF RecordsIn
    <3> QED BY <2>3, <3>1, <3>2 DEF IsPreferred
  <2>4. ASSUME NEW i \in DOMAIN t, t[i].module = n PROVE i \in DOMAIN s
    <3>1. IsPreferred(t, i, n) BY <2>4, CanonicalIsPreferred
    <3>2. CASE n = m
      <4>1. i = p BY <3>1, <3>2, PreferredIsUnique
      <4> QED BY <1>4, <4>1
    <3>3. CASE n # m
      BY <1>1, <3>1, <3>3 DEF IsPreferred, RecordsIn
    <3> QED BY <3>2, <3>3
  <2>5. Closed(t, n) => Closed(s, n)
    BY <1>1, <1>3, <2>4 DEF Closed
  <2> QED BY <1>1, <1>3, <2>2, <2>3, <2>5
<1> QED BY <1>2, <1>5 DEF Tame

\* Saving the preferred record of a module, under its name or the canonical one.
LEMMA UpdateIsTame ==
  ASSUME NEW t, Table(t), NEW m \in Modules, NEW p, IsPreferred(t, p, m),
         NEW r \in TenantModule, r.module \in {t[p].module, m},
         \A i \in DOMAIN t \ {p} : t[i].module # r.module,
         NEW s, s = [i \in DOMAIN t |-> IF i = p THEN r ELSE t[i]]
  PROVE  Table(s) /\ Tame(t, s)
<1>1. /\ DOMAIN s = DOMAIN t /\ p \in DOMAIN t /\ s[p] = r
      /\ \A i \in DOMAIN t \ {p} : s[i] = t[i]
  BY DEF IsPreferred, RecordsIn
<1>2. normalizeModuleId(r.module) = m /\ normalizeModuleId(t[p].module) = m
  BY Canonical DEF IsPreferred, RecordsIn
<1>3. Table(s)
  <2>1. s \in [DOMAIN s -> TenantModule] BY <1>1 DEF Table
  <2>2. ASSUME NEW i \in DOMAIN s, NEW j \in DOMAIN s, s[i].module = s[j].module
        PROVE  i = j
    <3>1. CASE i = p \/ j = p BY <1>1, <2>2, <3>1
    <3>2. CASE i # p /\ j # p BY <1>1, <2>2, <3>2 DEF Table
    <3> QED BY <3>1, <3>2
  <2>3. DOMAIN s \subseteq RowIds BY <1>1 DEF Table
  <2> QED BY <2>1, <2>2, <2>3 DEF Table
<1>4. \A n : RecordsIn(s, n) = RecordsIn(t, n)
  BY <1>1, <1>2 DEF RecordsIn
<1>5. ASSUME NEW n \in Modules, NEW i \in DOMAIN s, IsPreferred(t, i, n)
      PROVE  IsPreferred(s, i, n)
  <2>1. i \in RecordsIn(s, n) BY <1>4, <1>5 DEF IsPreferred
  <2>2. CASE n = m
    <3>1. i = p BY <1>5, <2>2, PreferredIsUnique
    <3>2. CASE r.module = m BY <1>1, <2>1, <2>2, <3>1, <3>2 DEF IsPreferred
    <3>3. CASE r.module = t[p].module
      <4>1. \A j \in RecordsIn(s, n) : j \in RecordsIn(t, n) /\ s[j].module = t[j].module
        BY <1>1, <1>4, <3>3 DEF RecordsIn
      <4>2. s[i].module = t[i].module BY <1>1, <3>1, <3>3
      <4> QED BY <1>5, <2>1, <4>1, <4>2 DEF IsPreferred
    <3> QED BY <3>2, <3>3
  <2>3. CASE n # m
    <3>1. p \notin RecordsIn(t, n) BY <1>2, <2>3 DEF RecordsIn
    <3>2. \A j \in RecordsIn(s, n) : j \in RecordsIn(t, n) /\ s[j] = t[j]
      BY <1>1, <1>4, <3>1 DEF RecordsIn
    <3>3. s[i] = t[i] BY <2>1, <3>2
    <3> QED BY <1>5, <2>1, <3>2, <3>3 DEF IsPreferred
  <2> QED BY <2>2, <2>3
<1>6. ASSUME NEW n \in Modules, Closed(t, n) PROVE Closed(s, n)
  <2>1. ASSUME NEW i \in DOMAIN t, t[i].module = n
        PROVE  \E j \in DOMAIN s : s[j].module = n
    <3>1. CASE i = p
      <4>1. n = m BY <1>2, <2>1, <3>1, Canonical
      <4> QED BY <1>1, <2>1, <3>1, <4>1
    <3>2. CASE i # p BY <1>1, <2>1, <3>2
    <3> QED BY <3>1, <3>2
  <2> QED BY <1>4, <1>6, <2>1 DEF Closed
<1> QED BY <1>3, <1>4, <1>5, <1>6 DEF Tame

\* Inserting a record where no record was when its module was looked for.
LEMMA InsertIsTame ==
  ASSUME NEW t, Table(t), NEW m \in Modules, Closed(t, m), NEW p \in RowIds, p \notin DOMAIN t,
         NEW r \in TenantModule, r.module = m,
         \A i \in DOMAIN t : t[i].module # m,
         NEW s, s = [i \in DOMAIN t \cup {p} |-> IF i = p THEN r ELSE t[i]]
  PROVE  Table(s) /\ Tame(t, s) /\ IsPreferred(s, p, m)
<1>1. /\ DOMAIN s = DOMAIN t \cup {p} /\ s[p] = r
      /\ \A i \in DOMAIN t : s[i] = t[i]
  OBVIOUS
<1>2. RecordsIn(t, m) = {} BY DEF Closed
<1>3. Table(s)
  <2>1. s \in [DOMAIN s -> TenantModule] BY <1>1 DEF Table
  <2>2. ASSUME NEW i \in DOMAIN s, NEW j \in DOMAIN s, s[i].module = s[j].module
        PROVE  i = j
    <3>1. CASE i = p \/ j = p BY <1>1, <2>2, <3>1
    <3>2. CASE i # p /\ j # p BY <1>1, <2>2, <3>2 DEF Table
    <3> QED BY <3>1, <3>2
  <2>3. DOMAIN s \subseteq RowIds BY <1>1 DEF Table
  <2> QED BY <2>1, <2>2, <2>3 DEF Table
<1>4. IsPreferred(s, p, m) BY <1>1, <1>3, CanonicalIsPreferred
<1>5. ASSUME NEW n, n # m PROVE RecordsIn(s, n) = RecordsIn(t, n)
  <2>1. p \notin RecordsIn(s, n) BY <1>1, <1>5, Canonical DEF RecordsIn
  <2> QED BY <1>1, <2>1 DEF RecordsIn
<1>6. ASSUME NEW n \in Modules
      PROVE  /\ RecordsIn(t, n) # {} => RecordsIn(s, n) # {}
             /\ \A i \in DOMAIN s : IsPreferred(t, i, n) => IsPreferred(s, i, n)
             /\ \A i \in RecordsIn(t, n) \cap DOMAIN s : i \in RecordsIn(s, n)
             /\ Closed(t, n) => Closed(s, n)
  <2>1. CASE n = m
    BY <1>1, <1>2, <1>4, <2>1 DEF IsPreferred, Closed
  <2>2. CASE n # m
    <3>1. \A i \in RecordsIn(s, n) : i \in RecordsIn(t, n) /\ s[i] = t[i]
      BY <1>1, <1>5, <2>2 DEF RecordsIn
    <3>2. ASSUME NEW i \in DOMAIN s, IsPreferred(t, i, n) PROVE IsPreferred(s, i, n)
      <4>1. i \in RecordsIn(s, n) BY <1>5, <2>2, <3>2 DEF IsPreferred
      <4> QED BY <1>5, <2>2, <3>1, <3>2, <4>1 DEF IsPreferred
    <3>3. Closed(t, n) => Closed(s, n) BY <1>1, <1>5, <2>2 DEF Closed
    <3> QED BY <1>5, <2>2, <3>2, <3>3
  <2> QED BY <2>1, <2>2
<1> QED BY <1>3, <1>4, <1>6 DEF Tame

-----------------------------------------------------------------------------
(* An orderly and careful step of one request keeps the invariant.         *)

\* What a request holds of its module.
LEMMA Held ==
  ASSUME Shaped, NEW w \in Workers
  PROVE  /\ mem[w] \in Memory /\ mem[w].rec \in Record /\ Formed(pc[w], job[w], mem[w])
         /\ mem[w].rec.id # Fresh => mem[w].rec.module \in Modules
         /\ pc[w] \in {"usage", "count", "find", "remove", "merged", "select", "write", "saved"} =>
              Module(w) \in Modules
         /\ mem[w].dups # {} => mem[w].rec.module \in Modules
<1>1. mem[w] \in Memory /\ mem[w].rec \in Record /\ Formed(pc[w], job[w], mem[w])
  BY DEF Shaped, Memory
<1>2. \A q \in Requests : q.kind \in About => normalizeModuleId(q.module) \in Modules
  BY Kinded
<1> QED BY <1>1, <1>2 DEF Formed, Module, Resting

LEMMA RowsAreATable ==
  ASSUME Shaped
  PROVE  Table(rows) /\ Fresh \notin DOMAIN rows
BY DEF Shaped, TypeOK, Table, TenantModule, RowIds, Fresh

LEMMA ShapedKept ==
  ASSUME Shaped, NEW w \in Workers, Orderly(w), Table(rows')
  PROVE  Shaped'
<1>1. \A v \in Workers \ {w} : pc'[v] = pc[v] /\ job'[v] = job[v] /\ mem'[v] = mem[v]
  BY DEF Orderly, Alone, Shaped, TypeOK
<1>2. pc' \in [Workers -> Stages] /\ job' \in [Workers -> Request \cup {NoRequest}]
      /\ mem' \in [Workers -> Memory]
  BY DEF Orderly, Alone, Shaped, TypeOK, Stages
<1>3. \A v \in Workers : Formed(pc'[v], job'[v], mem'[v])
  BY <1>1 DEF Orderly, Shaped
<1>4. ASSUME NEW v \in Workers
      PROVE  /\ job'[v] \in Request \cup {NoRequest} /\ mem'[v].rec \in Record
             /\ pc'[v] \in Resting => job'[v] = NoRequest /\ mem'[v] = NoMemory
             /\ pc'[v] = "write" => mem'[v].set # {}
  <2>1. job'[v] \in Request \cup {NoRequest} /\ mem'[v].rec \in Record
    BY <1>2 DEF Memory
  <2>2. pc'[v] \in Resting => job'[v] = NoRequest
    BY <1>1 DEF Orderly, Shaped, TypeOK
  <2> QED BY <1>3, <2>1, <2>2 DEF Formed
<1>5. TypeOK'
  BY <1>2, <1>4 DEF TypeOK, Table, TenantModule, Orderly, Stages
<1> QED BY <1>2, <1>3, <1>5 DEF Shaped

LEMMA MergingKept ==
  ASSUME Shaped, Merging, NEW w \in Workers, Orderly(w), Careful(w)
  PROVE  Merging'
<1>1. \A v \in Workers \ {w} : pc'[v] = pc[v] /\ job'[v] = job[v] /\ mem'[v] = mem[v]
  BY DEF Orderly, Alone, Shaped, TypeOK
<1>2. Fresh \notin DOMAIN rows' /\ Fresh \notin DOMAIN rows
  BY RowsAreATable DEF Careful, Table, RowIds, Fresh
<1>3. ASSUME NEW v \in Workers \ {w} PROVE Attached(rows', pc[v], job[v], mem[v])
  <2> DEFINE k == mem[v]
  <2>1. /\ Attached(rows, pc[v], job[v], k) /\ Formed(pc[v], job[v], k)
        /\ Apart(rows, k, mem[w]) /\ Apart(rows, mem[w], k)
    BY Held DEF Merging
  <2>2. k.rec.id # Fresh => k.rec.module \in Modules BY Held
  <2>3. k.dups # {} => k.rec.module \in Modules BY Held
  <2>4. k.rec.id \in DOMAIN rows' => IsPreferred(rows', k.rec.id, k.rec.module)
    <3>1. k.rec.id \in DOMAIN rows' => k.rec.id \in DOMAIN rows
      BY <1>2, <2>1 DEF Careful, Apart
    <3> QED BY <1>2, <2>1, <2>2, <3>1 DEF Careful, Tame, Attached
  <2>5. k.dups # {} => k.rec.id \in DOMAIN rows'
    BY <2>1 DEF Attached, Apart, Careful
  <2>6. k.dups \cap DOMAIN rows' \subseteq RecordsIn(rows', k.rec.module)
    <3>1. ASSUME NEW i \in k.dups, i \in DOMAIN rows' PROVE i \in DOMAIN rows
      BY <2>1, <3>1 DEF Careful, Apart
    <3>2. k.dups \cap DOMAIN rows' \subseteq RecordsIn(rows, k.rec.module)
      BY <2>1, <3>1 DEF Attached
    <3> QED BY <2>3, <3>2 DEF Careful, Tame
  <2>7. pc[v] \in {"merged", "select", "write"} /\ k.rec.id \notin DOMAIN rows' =>
          Closed(rows', normalizeModuleId(job[v].module))
    <3>1. k.rec.id \notin DOMAIN rows' => k.rec.id \notin DOMAIN rows
      BY <2>1 DEF Careful, Apart
    <3>2. pc[v] \in {"merged", "select", "write"} => Module(v) \in Modules BY Held
    <3> QED BY <2>1, <3>1, <3>2 DEF Careful, Tame, Attached, Module
  <2> QED BY <2>4, <2>5, <2>6, <2>7 DEF Attached
<1>4. ASSUME NEW v \in Workers \ {w}, NEW u \in Workers \ {w}, v # u
      PROVE  Apart(rows', mem[v], mem[u])
  <2>1. Apart(rows, mem[v], mem[u]) /\ Apart(rows, mem[v], mem[w])
    BY <1>4 DEF Merging
  <2> QED BY <2>1 DEF Apart, Careful
<1>5. \A v \in Workers : Attached(rows', pc'[v], job'[v], mem'[v])
  BY <1>1, <1>3 DEF Careful
<1>6. \A v, u \in Workers : v # u => Apart(rows', mem'[v], mem'[u])
  BY <1>1, <1>4 DEF Careful
<1>7. \A v \in Workers : mem'[v].rec.id \notin mem'[v].dups
  BY <1>1 DEF Careful, Merging
<1> QED BY <1>5, <1>6, <1>7 DEF Merging

-----------------------------------------------------------------------------
(* The bound on the plan.                                                  *)

\* The values of a function on a finite set.
LEMMA Image ==
  ASSUME NEW S, IsFiniteSet(S), NEW f
  PROVE  /\ IsFiniteSet({f[x] : x \in S})
         /\ Cardinality({f[x] : x \in S}) <= Cardinality(S)
<1> DEFINE T == {f[x] : x \in S}
           g == [x \in S |-> f[x]]
<1>1. g \in Surjection(S, T) BY DEF Surjection
<1> HIDE DEF g, T
<1>2. IsFiniteSet(T) /\ Cardinality(T) <= Cardinality(S) BY <1>1, FS_Surjection
<1> QED BY <1>2 DEF T

LEMMA EnabledIsFinite ==
  ASSUME NEW t, Table(t)
  PROVE  IsFiniteSet(EnabledIn(t)) /\ EnabledIn(t) \subseteq Modules
<1> DEFINE on == {j \in DOMAIN t : t[j].active}
           f == [i \in on |-> normalizeModuleId(t[i].module)]
<1>1. IsFiniteSet(RowIds)
  <2>1. 1 \in Int /\ MaxRows \in Int BY CatalogAssumption
  <2>2. IsFiniteSet(1..MaxRows) BY <2>1, FS_Interval
  <2> QED BY <2>2 DEF RowIds
<1>2. IsFiniteSet(on)
  <2>1. on \subseteq RowIds BY DEF Table
  <2> QED BY <1>1, <2>1, FS_Subset
<1>3. IsFiniteSet({f[i] : i \in on}) BY <1>2, Image
<1>4. EnabledIn(t) = {f[i] : i \in on} BY DEF EnabledIn
<1>5. EnabledIn(t) \subseteq Modules BY Canonical DEF EnabledIn, Table, TenantModule
<1> QED BY <1>3, <1>4, <1>5

LEMMA PendingIsFinite ==
  ASSUME NEW S, S \subseteq Workers, NEW f
  PROVE  /\ IsFiniteSet({f[w] : w \in S})
         /\ Cardinality({f[w] : w \in S}) <= Cardinality(Workers)
         /\ Cardinality({f[w] : w \in S}) \in Nat /\ Cardinality(Workers) \in Nat
<1>1. IsFiniteSet(S) /\ Cardinality(S) <= Cardinality(Workers)
  BY PlanAssumption, FS_Subset
<1>2. IsFiniteSet({f[w] : w \in S}) /\ Cardinality({f[w] : w \in S}) <= Cardinality(S)
  BY <1>1, Image
<1>3. /\ Cardinality({f[w] : w \in S}) \in Nat /\ Cardinality(Workers) \in Nat
      /\ Cardinality(S) \in Nat
  BY <1>1, <1>2, PlanAssumption, FS_CardinalityType
<1> QED BY <1>1, <1>2, <1>3

LEMMA PotentialIsFinite ==
  ASSUME Shaped
  PROVE  IsFiniteSet(Potential)
<1> DEFINE f == [w \in Workers |-> Module(w)]
           S == {v \in Workers : Committed(pc[v], job[v], mem[v])}
<1>1. IsFiniteSet({f[w] : w \in S}) BY PendingIsFinite
<1>2. Pending = {f[w] : w \in S} BY DEF Pending
<1>3. IsFiniteSet(Enabled) BY RowsAreATable, EnabledIsFinite DEF Enabled
<1>4. IsFiniteSet(Enabled \cup Pending) BY <1>1, <1>2, <1>3, FS_Union
<1>5. Potential \subseteq Enabled \cup Pending BY DEF Potential
<1> QED BY <1>4, <1>5, FS_Subset

LEMMA BoundedKept ==
  ASSUME Shaped, Bounded, NEW w \in Workers, Orderly(w), Table(rows'), Modest(w)
  PROVE  Bounded'
<1>1. \A v \in Workers \ {w} : pc'[v] = pc[v] /\ job'[v] = job[v] /\ mem'[v] = mem[v]
  BY DEF Orderly, Alone, Shaped, TypeOK
<1>2. \A v \in Workers : Module(v) = normalizeModuleId(job[v].module)
  BY DEF Module
<1>3. ASSUME NEW v \in Workers, Committed(pc'[v], job'[v], mem'[v])
      PROVE  normalizeModuleId(job'[v].module) \in Enabled \cup Pending
  <2>1. CASE v = w BY <1>3, <2>1 DEF Modest
  <2>2. CASE v # w
    <3>1. Committed(pc[v], job[v], mem[v]) BY <1>1, <1>3, <2>2
    <3> QED BY <1>1, <2>2, <3>1 DEF Pending, Module
  <2> QED BY <2>1, <2>2
<1>4. Pending' \subseteq Enabled \cup Pending BY <1>3 DEF Pending, Module
<1>5. Potential' \subseteq Potential BY <1>4 DEF Potential, Modest
<1>6. Cardinality(Potential') <= Cardinality(Potential) /\ IsFiniteSet(Potential')
      /\ IsFiniteSet(Potential)
  BY <1>5, PotentialIsFinite, FS_Subset
<1>7. Cardinality(Potential') \in Nat /\ Cardinality(Potential) \in Nat
      /\ Cardinality(Workers) \in Nat /\ Limit \in Nat
  BY <1>6, FS_CardinalityType, PlanAssumption, CatalogAssumption
<1> HIDE DEF Potential
<1> QED BY <1>6, <1>7 DEF Bounded

\* Whoever counts fewer modules than the plan allows adds one to them, and so may
\* every other request that is on its way.
LEMMA BelowTheLimit ==
  ASSUME Shaped, ~AtLimit, NEW pending,
         \E S \in SUBSET Workers : \E f : pending = {f[w] : w \in S}
  PROVE  Cardinality((Enabled \cup pending) \ Essential) <= Limit + Cardinality(Workers) - 1
<1>1. PICK S \in SUBSET Workers : \E f : pending = {f[w] : w \in S} OBVIOUS
<1>2. PICK f : pending = {f[w] : w \in S} BY <1>1
<1>3. /\ IsFiniteSet(pending) /\ Cardinality(pending) <= Cardinality(Workers)
      /\ Cardinality(pending) \in Nat /\ Cardinality(Workers) \in Nat
  BY <1>2, PendingIsFinite
<1>4. IsFiniteSet(Billable)
  <2>1. IsFiniteSet(Enabled) BY RowsAreATable, EnabledIsFinite DEF Enabled
  <2>2. Billable \subseteq Enabled BY DEF Billable
  <2> QED BY <2>1, <2>2, FS_Subset
<1>5. Cardinality(Billable) \in Nat /\ Cardinality(Billable) <= Limit - 1 /\ Limit \in Nat
  BY <1>4, FS_CardinalityType, CatalogAssumption DEF AtLimit
<1>6. IsFiniteSet(Billable \cup pending)
      /\ Cardinality(Billable \cup pending) <= Cardinality(Billable) + Cardinality(pending)
  <2>1. /\ IsFiniteSet(Billable \cup pending)
        /\ Cardinality(Billable \cup pending)
             = Cardinality(Billable) + Cardinality(pending) - Cardinality(Billable \cap pending)
    BY <1>3, <1>4, FS_Union
  <2>2. IsFiniteSet(Billable \cap pending)
    <3>1. Billable \cap pending \subseteq Billable OBVIOUS
    <3> QED BY <1>4, <3>1, FS_Subset
  <2>3. Cardinality(Billable \cap pending) \in Nat BY <2>2, FS_CardinalityType
  <2> QED BY <1>3, <1>5, <2>1, <2>3
<1>7. (Enabled \cup pending) \ Essential \subseteq Billable \cup pending BY DEF Billable
<1>8. /\ Cardinality((Enabled \cup pending) \ Essential) <= Cardinality(Billable \cup pending)
      /\ IsFiniteSet((Enabled \cup pending) \ Essential)
  BY <1>6, <1>7, FS_Subset
<1>9. /\ Cardinality((Enabled \cup pending) \ Essential) \in Nat
      /\ Cardinality(Billable \cup pending) \in Nat
  BY <1>6, <1>8, FS_CardinalityType
<1> QED BY <1>3, <1>5, <1>6, <1>8, <1>9

-----------------------------------------------------------------------------
(* What makes a step sound.                                                *)

LEMMA SoundStep ==
  ASSUME IInv, NEW w \in Workers, Sound(w)
  PROVE  IInv'
<1>1. Table(rows') BY DEF Sound, Careful
<1>2. Shaped' BY <1>1, ShapedKept DEF IInv, Sound
<1>3. Merging' BY MergingKept DEF IInv, Sound
<1>4. Bounded' BY <1>1, BoundedKept DEF IInv, Sound
<1> QED BY <1>2, <1>3, <1>4 DEF IInv

\* The memories of others are apart from a memory without a record.
LEMMA ApartFromNothing ==
  ASSUME Shaped, NEW k \in Memory, k.dups = {}, k.rec.id = Fresh, NEW t, NEW v \in Workers
  PROVE  Apart(t, mem[v], k) /\ Apart(t, k, mem[v])
<1>1. Fresh \notin mem[v].dups BY Held DEF Memory, RowIds, Fresh
<1> QED BY <1>1 DEF Apart

LEMMA NothingHeld ==
  NoMemory \in Memory /\ NoMemory.rec.id = Fresh /\ NoMemory.dups = {}
  /\ NoMemory.rec = NoRecord /\ ~NoMemory.rec.active /\ ~NoMemory.gate
BY DEF NoMemory, NoRecord, Memory, Record, Columns, Fresh

\* A step that changes no rows and not which records the request holds.
LEMMA HoldingIsCareful ==
  ASSUME IInv, NEW w \in Workers, rows' = rows,
         mem'[w].rec.id = mem[w].rec.id, mem'[w].dups = mem[w].dups,
         Attached(rows, pc'[w], job'[w], mem'[w])
  PROVE  Careful(w)
<1>1. Table(rows) BY RowsAreATable DEF IInv
<1>2. \A v \in Workers \ {w} : Apart(rows, mem[v], mem'[w]) /\ Apart(rows, mem'[w], mem[v])
  BY DEF Apart, IInv, Merging
<1>3. mem[w].rec.id \notin mem[w].dups BY DEF IInv, Merging
<1> QED BY <1>1, <1>2, <1>3, UntouchedIsTame DEF Careful

\* A step that only moves the request on, whatever flags it sets.
LEMMA MoveIsSound ==
  ASSUME IInv, NEW w \in Workers, Orderly(w), rows' = rows, job'[w] = job[w],
         mem'[w].rec.id = mem[w].rec.id, mem'[w].dups = mem[w].dups,
         mem'[w].rec.id # Fresh => mem'[w].rec.module = mem[w].rec.module,
         pc'[w] \in {"merged", "select", "write"} => pc[w] \in {"merged", "select", "write"},
         Committed(pc'[w], job'[w], mem'[w]) => Committed(pc[w], job[w], mem[w])
  PROVE  Sound(w)
<1>1. Table(rows) /\ Fresh \notin DOMAIN rows BY RowsAreATable DEF IInv
<1>2. Attached(rows, pc[w], job[w], mem[w]) /\ mem[w].rec.id \notin mem[w].dups
  BY DEF IInv, Merging
<1>3. Attached(rows, pc'[w], job'[w], mem'[w])
  <2>1. mem[w].rec.id \notin DOMAIN rows => mem[w].dups = {} BY <1>2 DEF Attached
  <2> QED BY <1>1, <1>2, <2>1 DEF Attached
<1>4. Careful(w) BY <1>3, HoldingIsCareful
<1>5. Modest(w) BY DEF Modest, Enabled, Pending, Module
<1> QED BY <1>4, <1>5 DEF Sound

\* A step that ends the request, answered or not.
LEMMA RestIsSound ==
  ASSUME IInv, NEW w \in Workers, NEW r \in Resting,
         pc' = [pc EXCEPT ![w] = r], job' = [job EXCEPT ![w] = NoRequest],
         mem' = [mem EXCEPT ![w] = NoMemory],
         rows' = rows, onboarded' = onboarded, begun' = begun, overlap' = overlap,
         granted' \subseteq Modules
  PROVE  Sound(w)
<1>1. pc'[w] = r /\ job'[w] = NoRequest /\ mem'[w] = NoMemory
  BY DEF IInv, Shaped, TypeOK
<1>2. Orderly(w)
  <2>1. Formed(pc'[w], job'[w], mem'[w])
    BY <1>1, NothingHeld DEF Formed, Resting
  <2> QED BY <1>1, <2>1, NothingHeld DEF Orderly, Alone, Stages, IInv, Shaped, TypeOK
<1>3. Table(rows) /\ Fresh \notin DOMAIN rows BY RowsAreATable DEF IInv
<1>4. Attached(rows', pc'[w], job'[w], mem'[w])
  BY <1>1, <1>3, NothingHeld DEF Attached, Resting
<1>5. \A v \in Workers : Apart(rows', mem[v], mem'[w]) /\ Apart(rows', mem'[w], mem[v])
  BY <1>1, NothingHeld, ApartFromNothing DEF IInv
<1>6. Careful(w)
  BY <1>1, <1>3, <1>4, <1>5, NothingHeld, UntouchedIsTame DEF Careful
<1>7. Modest(w)
  BY <1>1 DEF Modest, Committed, Resting, Enabled
<1> QED BY <1>2, <1>6, <1>7 DEF Sound

LEMMA ReplyIsSound ==
  ASSUME IInv, NEW w \in Workers, NEW ok, Reply(w, ok),
         rows' = rows, onboarded' = onboarded, begun' = begun, overlap' = overlap,
         granted' \subseteq Modules
  PROVE  Sound(w)
BY RestIsSound DEF Reply, Goto, Resting

LEMMA RefuseIsSound ==
  ASSUME IInv, NEW w \in Workers, Refuse(w), begun' = begun, overlap' = overlap
  PROVE  Sound(w)
<1>1. granted' \subseteq Modules BY DEF Refuse, disk, IInv, Shaped, TypeOK
<1> QED BY <1>1, ReplyIsSound DEF Refuse, disk

LEMMA AbandonIsSound ==
  ASSUME IInv, NEW w \in Workers, Abandon(w)
  PROVE  Sound(w)
<1>1. granted' \subseteq Modules BY DEF Abandon, disk, IInv, Shaped, TypeOK
<1> QED BY <1>1, RestIsSound DEF Abandon, Goto, disk, Resting

-----------------------------------------------------------------------------
(* The actions.                                                            *)

LEMMA BeginIsSound ==
  ASSUME IInv, NEW w \in Workers, NEW q \in Requests, Begin(w, q)
  PROVE  Sound(w)
<1>1. q \in Request /\ q.kind \in Kinds /\ None \notin Kinds BY Kinded
<1>2. pc[w] \in Resting /\ mem[w] = NoMemory /\ job'[w] = q /\ mem' = mem
  BY DEF Begin, IInv, Shaped, TypeOK
<1>3. /\ pc'[w] \in {"refuse", "count", "find", "flag", "tenant"}
      /\ pc'[w] = "count" => q.kind = "activate"
      /\ pc'[w] = "find" => q.kind = "deactivate"
  <2>1. pc'[w] = IF Barred(q) THEN "refuse" ELSE FirstStep[q.kind]
    BY DEF Begin, Goto, IInv, Shaped, TypeOK
  <2>2. /\ FirstStep["activate"] = "count" /\ FirstStep["deactivate"] = "find"
        /\ FirstStep["complete"] = "flag" /\ FirstStep["skip"] = "flag"
        /\ FirstStep["configure"] = "tenant"
    BY DEF FirstStep
  <2> QED BY <1>1, <2>1, <2>2 DEF Kinds
<1>4. Orderly(w)
  <2>1. Formed(pc'[w], job'[w], mem'[w])
    BY <1>2, <1>3, NothingHeld DEF Formed, About, Resting
  <2>2. Alone(w) BY DEF Alone, Begin, Goto, IInv, Shaped, TypeOK
  <2>3. begun' \in 0..MaxRequests
    BY CatalogAssumption DEF Begin, IInv, Shaped, TypeOK
  <2>4. mem'[w] \in Memory /\ pc'[w] \in Stages /\ pc'[w] \notin Resting
    BY <1>2, <1>3, NothingHeld DEF Stages, Resting
  <2> QED BY <1>1, <1>2, <2>1, <2>2, <2>3, <2>4 DEF Orderly, Begin, disk, IInv, Shaped, TypeOK
<1>5. Table(rows) /\ Fresh \notin DOMAIN rows BY RowsAreATable DEF IInv
<1>6. Attached(rows, pc'[w], job'[w], mem'[w])
  BY <1>2, <1>3, <1>5, NothingHeld DEF Attached
<1>7. \A v \in Workers : Apart(rows, mem[v], mem'[w]) /\ Apart(rows, mem'[w], mem[v])
  BY <1>2, NothingHeld, ApartFromNothing DEF IInv
<1>8. rows' = rows BY DEF Begin, disk
<1>9. Careful(w)
  BY <1>2, <1>5, <1>6, <1>7, <1>8, NothingHeld, UntouchedIsTame DEF Careful
<1>10. Modest(w)
  BY <1>2, <1>3, <1>8, NothingHeld DEF Modest, Committed, Enabled
<1> QED BY <1>4, <1>9, <1>10 DEF Sound

\* A request that goes on from one step to another with the record it has.
LEMMA GotoIsSound ==
  ASSUME IInv, NEW w \in Workers, pc[w] \notin Resting, NEW p \in Stages \ Resting,
         pc' = [pc EXCEPT ![w] = p], rows' = rows, job' = job, begun' = begun,
         overlap' = overlap, onboarded' \in BOOLEAN, granted' \subseteq Modules,
         NEW k \in Memory, mem' = [mem EXCEPT ![w] = k],
         k.rec = mem[w].rec, k.dups = mem[w].dups, Formed(p, job[w], k),
         p \in {"merged", "select", "write"} => pc[w] \in {"merged", "select", "write"},
         Committed(p, job[w], k) => Committed(pc[w], job[w], mem[w])
  PROVE  Sound(w)
<1>1. pc'[w] = p /\ job'[w] = job[w] /\ mem'[w] = k
  BY DEF IInv, Shaped, TypeOK
<1>2. Orderly(w)
  BY <1>1 DEF Orderly, Alone, IInv, Shaped, TypeOK
<1> QED BY <1>1, <1>2, MoveIsSound

LEMMA ReadFlagIsSound ==
  ASSUME IInv, NEW w \in Workers, ReadFlag(w)
  PROVE  Sound(w)
<1>1. CASE Refuse(w) BY <1>1, RefuseIsSound DEF ReadFlag
<1>2. CASE ~Refuse(w)
  <2>1. Formed(pc[w], job[w], mem[w]) /\ mem[w] \in Memory BY Held DEF IInv
  <2> DEFINE p == IF job[w].kind = "complete" THEN "usage" ELSE "tenant"
  <2>2. /\ pc[w] = "flag" /\ pc' = [pc EXCEPT ![w] = p]
        /\ UNCHANGED <<disk, job, mem, hist, begun, overlap>>
    BY <1>2 DEF ReadFlag, Goto
  <2>3. Formed(p, job[w], mem[w]) BY <2>1, <2>2, NothingHeld DEF Formed, About, Resting
  <2>4. p \in Stages \ Resting /\ ~Committed(p, job[w], mem[w])
    BY DEF Stages, Resting, Committed
  <2>5. mem' = [mem EXCEPT ![w] = mem[w]] BY <2>2 DEF IInv, Shaped
  <2>6. onboarded' \in BOOLEAN /\ granted' \subseteq Modules
    BY <2>2 DEF disk, IInv, Shaped, TypeOK
  <2>7. pc[w] \notin Resting /\ p \notin {"merged", "select", "write"} BY <2>2 DEF Resting
  <2> HIDE DEF p
  <2> QED BY <2>1, <2>2, <2>3, <2>4, <2>5, <2>6, <2>7, GotoIsSound DEF disk
<1> QED BY <1>1, <1>2

LEMMA CheckUsageIsSound ==
  ASSUME IInv, NEW w \in Workers, CheckUsage(w)
  PROVE  Sound(w)
<1>1. CASE AtLimit BY <1>1, RefuseIsSound DEF CheckUsage
<1>2. CASE ~AtLimit
  <2>1. Formed(pc[w], job[w], mem[w]) /\ mem[w] \in Memory BY Held DEF IInv
  <2>2. /\ pc[w] = "usage" /\ pc' = [pc EXCEPT ![w] = "count"]
        /\ UNCHANGED <<disk, job, mem, hist, begun, overlap>>
    BY <1>2 DEF CheckUsage, Goto
  <2>3. Formed("count", job[w], mem[w]) BY <2>1, <2>2, NothingHeld DEF Formed, Resting
  <2>4. "count" \in Stages \ Resting /\ ~Committed("count", job[w], mem[w])
    BY <2>1, <2>2, NothingHeld DEF Stages, Resting, Committed
  <2>5. mem' = [mem EXCEPT ![w] = mem[w]] BY <2>2 DEF IInv, Shaped
  <2>6. onboarded' \in BOOLEAN /\ granted' \subseteq Modules
    BY <2>2 DEF disk, IInv, Shaped, TypeOK
  <2>7. pc[w] \notin Resting BY <2>2 DEF Resting
  <2> QED BY <2>1, <2>2, <2>3, <2>4, <2>5, <2>6, <2>7, GotoIsSound DEF disk
<1> QED BY <1>1, <1>2

\* The count itself: below the limit the request becomes one that may turn a module
\* on, at the limit it does not.
LEMMA CountKeeps ==
  ASSUME IInv, NEW w \in Workers, Count(w)
  PROVE  IInv'
<1>1. Formed(pc[w], job[w], mem[w]) /\ mem[w] \in Memory BY Held DEF IInv
<1>2. PICK k : k = [mem[w] EXCEPT !.gate = AtLimit] OBVIOUS
<1>3. /\ pc[w] = "count" /\ pc' = [pc EXCEPT ![w] = "find"] /\ mem[w] = NoMemory
      /\ UNCHANGED <<disk, job, hist, begun, overlap>>
  BY <1>1 DEF Count, Goto, Formed
<1>4. mem' = [mem EXCEPT ![w] = k] BY <1>2 DEF Count, IInv, Shaped
<1>5. /\ k \in Memory /\ k.rec = mem[w].rec /\ k.dups = mem[w].dups
  <2>1. AtLimit \in BOOLEAN BY DEF AtLimit
  <2> QED BY <1>1, <1>2, <2>1 DEF Memory
<1>6. pc'[w] = "find" /\ job'[w] = job[w] /\ mem'[w] = k
  BY <1>3, <1>4 DEF IInv, Shaped, TypeOK
<1>7. Formed("find", job[w], k)
  BY <1>1, <1>3, <1>5, NothingHeld DEF Formed, Resting
<1>8. CASE AtLimit
  <2>1. k.gate = TRUE BY <1>1, <1>2, <1>8 DEF Memory
  <2>2. ~Committed("find", job[w], k) BY <2>1 DEF Committed
  <2>3. onboarded' \in BOOLEAN /\ granted' \subseteq Modules
    BY <1>3 DEF disk, IInv, Shaped, TypeOK
  <2>4. pc[w] \notin Resting /\ "find" \in Stages \ Resting BY <1>3 DEF Resting, Stages
  <2>5. Sound(w)
    BY <1>3, <1>4, <1>5, <1>7, <2>2, <2>3, <2>4, GotoIsSound DEF disk
  <2> QED BY <2>5, SoundStep
<1>9. CASE ~AtLimit
  <2>1. Orderly(w)
    BY <1>3, <1>4, <1>5, <1>6, <1>7
       DEF Orderly, Alone, Stages, Resting, disk, IInv, Shaped, TypeOK
  <2>2. Table(rows) /\ Fresh \notin DOMAIN rows /\ rows' = rows
    BY <1>3, RowsAreATable DEF IInv, disk
  <2>3. Careful(w)
    <3>1. Attached(rows, pc'[w], job'[w], mem'[w])
      BY <1>3, <1>5, <1>6, <2>2, NothingHeld DEF Attached
    <3>2. \A v \in Workers : Apart(rows, mem[v], mem'[w]) /\ Apart(rows, mem'[w], mem[v])
      BY <1>3, <1>5, <1>6, NothingHeld, ApartFromNothing DEF IInv
    <3> QED BY <1>3, <1>5, <1>6, <2>2, <3>1, <3>2, NothingHeld, UntouchedIsTame DEF Careful
  <2>4. Shaped' /\ Merging' BY <2>1, <2>2, <2>3, ShapedKept, MergingKept DEF IInv
  <2>5. Enabled' = Enabled BY <2>2 DEF Enabled
  <2>6. PICK S, f : /\ S = {v \in Workers : Committed(pc'[v], job'[v], mem'[v])}
                    /\ f = [v \in Workers |-> normalizeModuleId(job'[v].module)]
    OBVIOUS
  <2>7. Pending' = {f[v] : v \in S} BY <2>6 DEF Pending, Module
  <2>8. S \in SUBSET Workers BY <2>6
  <2>9. PICK pending : pending = {f[v] : v \in S} OBVIOUS
  <2>10. Cardinality((Enabled \cup pending) \ Essential) <= Limit + Cardinality(Workers) - 1
    BY <1>9, <2>8, <2>9, BelowTheLimit DEF IInv
  <2>11. Bounded' BY <2>5, <2>7, <2>9, <2>10 DEF Bounded, Potential
  <2> QED BY <2>4, <2>11 DEF IInv
<1> QED BY <1>8, <1>9

\* The record a merge keeps is the preferred one.
LEMMA PickedIsPreferred ==
  ASSUME Shaped, NEW m, Records(m) # {}
  PROVE  IsPreferred(rows, pickPreferredRecord(m), m)
<1>1. Records(m) = RecordsIn(rows, m) BY DEF Records, RecordsIn
<1>2. PICK i \in Records(m) : IsPreferred(rows, i, m)
  BY <1>1, RowsAreATable, PreferredExists
<1>3. \/ rows[i].module = m
      \/ /\ \A j \in Records(m) : rows[j].module # m
         /\ \A j \in Records(m) : i <= j
  BY <1>1, <1>2 DEF IsPreferred
<1>4. /\ pickPreferredRecord(m) \in Records(m)
      /\ \/ rows[pickPreferredRecord(m)].module = m
         \/ /\ \A j \in Records(m) : rows[j].module # m
            /\ \A j \in Records(m) : pickPreferredRecord(m) <= j
  BY <1>3, Zenon DEF pickPreferredRecord
<1> QED BY <1>1, <1>4 DEF IsPreferred

LEMMA FindIsSound ==
  ASSUME IInv, NEW w \in Workers, Find(w)
  PROVE  Sound(w)
<1>1. /\ pc[w] = "find" /\ rows' = rows /\ job' = job
      /\ UNCHANGED <<disk, begun, job, hist, overlap>>
  BY DEF Find, disk
<1>2. /\ Formed(pc[w], job[w], mem[w]) /\ mem[w] \in Memory
      /\ mem[w].rec = NoRecord /\ mem[w].dups = {}
      /\ job[w] \in Requests /\ job[w].kind \in About
  BY <1>1, Held DEF IInv, Formed, Resting
<1>3. PICK m \in Modules : m = Module(w) BY <1>1, Held DEF IInv
<1>4. Table(rows) /\ Fresh \notin DOMAIN rows /\ Records(m) = RecordsIn(rows, m)
  BY RowsAreATable DEF IInv, Records, RecordsIn
<1>5. /\ onboarded' \in BOOLEAN /\ granted' \subseteq Modules /\ overlap' \in BOOLEAN
      /\ begun' \in 0..MaxRequests /\ job'[w] \in Request \cup {NoRequest}
  BY <1>1 DEF disk, IInv, Shaped, TypeOK
<1>6. Enabled' = Enabled BY <1>1 DEF Enabled
<1>7. CASE Records(m) = {}
  <2>1. pc' = [pc EXCEPT ![w] = "merged"] /\ mem' = mem
    BY <1>3, <1>7 DEF Find, Goto
  <2>2. pc'[w] = "merged" BY <2>1 DEF IInv, Shaped, TypeOK
  <2>3. Formed("merged", job[w], mem[w]) BY <1>1, <1>2 DEF Formed, Resting
  <2>4. Orderly(w)
    BY <1>1, <1>2, <1>5, <2>1, <2>2, <2>3
       DEF Orderly, Alone, Stages, Resting, IInv, Shaped, TypeOK
  <2>5. Attached(rows, "merged", job[w], mem[w])
    BY <1>2, <1>3, <1>4, <1>7 DEF Attached, Closed, Module, NoRecord
  <2>6. Careful(w) BY <1>1, <2>1, <2>2, <2>5, HoldingIsCareful
  <2>7. ~mem[w].rec.active BY <1>2 DEF NoRecord
  <2>8. Modest(w)
    BY <1>1, <1>6, <2>1, <2>2, <2>7 DEF Modest, Committed, Pending, Module
  <2> QED BY <2>4, <2>6, <2>8 DEF Sound
<1>8. CASE Records(m) # {}
  <2>1. PICK p : p = pickPreferredRecord(m) OBVIOUS
  <2>2. PICK on \in BOOLEAN : on = (\E j \in Records(m) : rows[j].active) OBVIOUS
  <2>3. PICK rec, dups, keep :
          /\ rec = [id |-> p, module |-> m, active |-> on]
          /\ dups = Records(m) \ {p}
          /\ keep = (rows[p] # [module |-> m, active |-> on])
    OBVIOUS
  <2>4. rec = mergedRecord(m) /\ dups = duplicateRecords(m)
    BY <2>1, <2>2, <2>3 DEF mergedRecord, duplicateRecords
  <2>5. rec.id = p /\ rec.module = m /\ rec.active = on BY <2>3
  <2>6. PICK k : k = [mem[w] EXCEPT !.rec = rec, !.dups = dups, !.keep = keep] OBVIOUS
  <2>7. PICK l : l = IF dups # {} THEN "remove" ELSE IF keep THEN "select" ELSE "merged"
    OBVIOUS
  <2>8. /\ mem' = [mem EXCEPT ![w].rec = rec, ![w].dups = dups, ![w].keep = keep]
        /\ pc' = [pc EXCEPT ![w] = l]
    BY <1>3, <1>8, <2>3, <2>4, <2>5, <2>7 DEF Find, Goto
  <2>9. mem' = [mem EXCEPT ![w] = k] /\ mem'[w] = k /\ pc'[w] = l
    BY <2>6, <2>8 DEF IInv, Shaped, TypeOK
  <2>10. IsPreferred(rows, p, m) /\ p \in DOMAIN rows /\ p \in RowIds /\ p # Fresh
    <3>1. IsPreferred(rows, p, m) BY <1>8, <2>1, PickedIsPreferred DEF IInv
    <3> QED BY <1>4, <3>1 DEF IsPreferred, RecordsIn, Table
  <2>11. /\ k.rec = rec /\ k.dups = dups /\ k.gate = mem[w].gate /\ k \in Memory
    <3>1. rec \in Record BY <2>3, <2>10 DEF Record
    <3>2. dups \subseteq RowIds BY <1>4, <2>3 DEF RecordsIn, Table
    <3>3. keep \in BOOLEAN BY <2>3
    <3> QED BY <1>2, <2>6, <3>1, <3>2, <3>3 DEF Memory
  <2>12. /\ l \in {"remove", "select", "merged"} /\ (l = "remove" <=> dups # {})
    BY <2>7
  <2>13. Formed(l, job[w], k)
    BY <1>2, <1>3, <2>5, <2>11, <2>12 DEF Formed, Resting, Module
  <2>14. Orderly(w)
    BY <1>1, <1>2, <1>5, <2>8, <2>9, <2>11, <2>12, <2>13
       DEF Orderly, Alone, Stages, Resting, IInv, Shaped, TypeOK
  <2>15. Attached(rows, l, job[w], k)
    BY <1>4, <2>3, <2>5, <2>10, <2>11 DEF Attached
  <2>16. ASSUME NEW v \in Workers \ {w}
         PROVE  Apart(rows, mem[v], k) /\ Apart(rows, k, mem[v])
    <3>1. Attached(rows, pc[v], job[v], mem[v]) /\ mem[v].rec.id \notin mem[v].dups
      BY DEF IInv, Merging
    <3>2. ASSUME mem[v].rec.id \in RecordsIn(rows, m) PROVE mem[v].rec.id = p
      <4>1. IsPreferred(rows, mem[v].rec.id, mem[v].rec.module)
        BY <3>1, <3>2 DEF Attached, RecordsIn
      <4>2. mem[v].rec.module = m BY <3>2, <4>1 DEF IsPreferred, RecordsIn
      <4> QED BY <1>4, <2>10, <4>1, <4>2, PreferredIsUnique
    <3>3. mem[v].rec.id \notin dups BY <1>4, <2>3, <3>2
    <3>4. ASSUME p \in mem[v].dups PROVE FALSE
      <4>1. p \in RecordsIn(rows, mem[v].rec.module) /\ mem[v].rec.id \in DOMAIN rows
        BY <2>10, <3>1, <3>4 DEF Attached
      <4>2. mem[v].rec.module = m BY <2>10, <4>1 DEF IsPreferred, RecordsIn
      <4>3. mem[v].rec.id \in RecordsIn(rows, m)
        BY <3>1, <4>1, <4>2 DEF Attached, IsPreferred
      <4> QED BY <3>1, <3>2, <3>4, <4>3
    <3> QED BY <2>5, <2>10, <2>11, <3>3, <3>4 DEF Apart
  <2>17. Careful(w)
    BY <1>1, <1>4, <2>3, <2>5, <2>9, <2>11, <2>15, <2>16, UntouchedIsTame DEF Careful
  <2>18. on => m \in Enabled
    BY <1>4, <2>2 DEF Enabled, EnabledIn, RecordsIn
  <2>19. Modest(w)
    BY <1>1, <1>3, <1>6, <2>5, <2>9, <2>11, <2>18 DEF Modest, Committed, Pending, Module
  <2> QED BY <2>14, <2>17, <2>19 DEF Sound
<1> QED BY <1>7, <1>8

LEMMA RemoveIsSound ==
  ASSUME IInv, NEW w \in Workers, Remove(w)
  PROVE  Sound(w)
<1>1. /\ pc[w] = "remove" /\ job' = job
      /\ UNCHANGED <<onboarded, granted, begun, job, hist, overlap>>
  BY DEF Remove
<1>2. /\ Formed(pc[w], job[w], mem[w]) /\ mem[w] \in Memory /\ mem[w].dups # {}
      /\ job[w] \in Requests /\ job[w].kind \in About /\ mem[w].rec.module = Module(w)
  BY <1>1, Held DEF IInv, Formed, Resting, Module
<1>3. PICK m \in Modules : m = Module(w) BY <1>1, Held DEF IInv
<1>4. PICK p, D : p = mem[w].rec.id /\ D = mem[w].dups OBVIOUS
<1>5. PICK k : k = [mem[w] EXCEPT !.dups = {}] OBVIOUS
<1>6. k \in Memory /\ k.rec = mem[w].rec /\ k.dups = {} /\ k.gate = mem[w].gate
  BY <1>2, <1>5 DEF Memory
<1>7. PICK l : l = IF mem[w].keep THEN "select" ELSE "merged" OBVIOUS
<1>8. /\ pc' = [pc EXCEPT ![w] = l] /\ pc'[w] = l
      /\ mem' = [mem EXCEPT ![w] = k] /\ mem'[w] = k
  BY <1>5, <1>7 DEF Remove, Goto, IInv, Shaped, TypeOK
<1>9. rows' = [i \in DOMAIN rows \ D |-> rows[i]] BY <1>4 DEF Remove
<1>10. Table(rows) /\ Fresh \notin DOMAIN rows BY RowsAreATable DEF IInv
<1>11. /\ p \in DOMAIN rows /\ IsPreferred(rows, p, m) /\ p \notin D
       /\ D \cap DOMAIN rows \subseteq RecordsIn(rows, m)
  BY <1>2, <1>3, <1>4 DEF IInv, Merging, Attached
<1>12. Table(rows') /\ Tame(rows, rows')
  <2>1. PICK s : s = [i \in DOMAIN rows \ D |-> rows[i]] OBVIOUS
  <2>2. Table(s) /\ Tame(rows, s) BY <1>10, <1>11, <2>1, RemovalIsTame
  <2> QED BY <1>9, <2>1, <2>2
<1>13. l \in {"select", "merged"} BY <1>7
<1>14. Orderly(w)
  <2>1. Formed(l, job[w], k)
    BY <1>2, <1>6, <1>13 DEF Formed, Resting, Module
  <2> QED BY <1>1, <1>6, <1>8, <1>13, <2>1
       DEF Orderly, Alone, Stages, Resting, IInv, Shaped, TypeOK
<1>15. DOMAIN rows' = DOMAIN rows \ D /\ p \in DOMAIN rows'
       /\ \A i \in DOMAIN rows' : rows'[i] = rows[i]
  BY <1>9, <1>11
<1>16. IsPreferred(rows', p, m) BY <1>11, <1>12, <1>15 DEF Tame
<1>17. Attached(rows', l, job[w], k)
  BY <1>2, <1>3, <1>4, <1>6, <1>15, <1>16 DEF Attached
<1>18. ASSUME NEW v \in Workers \ {w}
       PROVE  Apart(rows', mem[v], k) /\ Apart(rows', k, mem[v])
  BY <1>4, <1>6, <1>15 DEF Apart, IInv, Merging
<1>19. Careful(w)
  BY <1>1, <1>4, <1>6, <1>8, <1>12, <1>15, <1>17, <1>18 DEF Careful
<1>20. Enabled' \subseteq Enabled
  BY <1>15 DEF Enabled, EnabledIn
<1>21. Modest(w)
  <2>1. Committed(l, job[w], k) => Committed(pc[w], job[w], mem[w])
    BY <1>1, <1>6, <1>13 DEF Committed
  <2> QED BY <1>1, <1>8, <1>20, <2>1 DEF Modest, Pending, Module
<1> QED BY <1>14, <1>19, <1>21 DEF Sound

LEMMA MergedIsSound ==
  ASSUME IInv, NEW w \in Workers, Merged(w)
  PROVE  Sound(w)
<1>1. pc[w] = "merged" /\ begun' = begun /\ overlap' = overlap
  BY DEF Merged
<1>2. /\ Formed(pc[w], job[w], mem[w]) /\ mem[w] \in Memory /\ mem[w].dups = {}
      /\ job[w] \in Requests /\ job[w].kind \in About
  BY <1>1, Held DEF IInv, Formed, Resting
<1>3. PICK m \in Modules : m = Module(w) BY <1>1, Held DEF IInv
<1>4. job[w] \in Request BY <1>2, Kinded
<1>5. granted \subseteq Modules BY DEF IInv, Shaped, TypeOK
<1>6. CASE mem[w].gate /\ ~mem[w].rec.active /\ Refuse(w) BY <1>1, <1>6, RefuseIsSound
<1>7. CASE /\ mem[w].gate /\ mem[w].rec.active
           /\ mem' = [mem EXCEPT ![w] = NoMemory]
           /\ Goto(w, "find") /\ UNCHANGED <<disk, job, hist>>
  <2>1. pc'[w] = "find" /\ mem'[w] = NoMemory /\ rows' = rows /\ job' = job
    BY <1>7 DEF Goto, disk, IInv, Shaped, TypeOK
  <2>2. Formed("find", job[w], NoMemory) BY <1>2, NothingHeld DEF Formed, Resting
  <2>3. Orderly(w)
    BY <1>1, <1>4, <1>7, <2>1, <2>2, NothingHeld
       DEF Orderly, Alone, Stages, Resting, Goto, disk, IInv, Shaped, TypeOK
  <2>4. Table(rows) /\ Fresh \notin DOMAIN rows BY RowsAreATable DEF IInv
  <2>5. Attached(rows, "find", job[w], NoMemory) BY <2>4, NothingHeld DEF Attached
  <2>6. \A v \in Workers : Apart(rows, mem[v], NoMemory) /\ Apart(rows, NoMemory, mem[v])
    BY NothingHeld, ApartFromNothing DEF IInv
  <2>7. Careful(w)
    BY <2>1, <2>4, <2>5, <2>6, NothingHeld, UntouchedIsTame DEF Careful
  <2>8. Committed(pc[w], job[w], mem[w]) BY <1>1, <1>7 DEF Committed
  <2>9. Modest(w) BY <2>1, <2>8 DEF Modest, Enabled, Pending, Module
  <2> QED BY <2>3, <2>7, <2>9 DEF Sound
<1>8. CASE UNCHANGED disk /\ Reply(w, TRUE)
  BY <1>1, <1>5, <1>8, ReplyIsSound DEF disk
<1>9. CASE /\ ~mem[w].gate
           /\ mem' = [mem EXCEPT ![w].rec = [id |-> mem[w].rec.id, module |-> Module(w),
                                             active |-> job[w].kind # "deactivate"],
                                 ![w].last = TRUE]
           /\ Goto(w, "select") /\ UNCHANGED <<disk, job, hist>>
  <2>1. PICK on \in BOOLEAN : on = (job[w].kind # "deactivate") OBVIOUS
  <2>2. PICK rec : rec = [id |-> mem[w].rec.id, module |-> m, active |-> on] OBVIOUS
  <2>3. PICK k : k = [mem[w] EXCEPT !.rec = rec, !.last = TRUE] OBVIOUS
  <2>4. rec \in Record /\ rec.id = mem[w].rec.id /\ rec.module = m /\ rec.active = on
    BY <1>2, <2>2 DEF Record, Memory
  <2>5. k \in Memory /\ k.rec = rec /\ k.dups = {} /\ k.gate = mem[w].gate
    BY <1>2, <2>3, <2>4 DEF Memory
  <2>6. mem' = [mem EXCEPT ![w] = k] /\ mem'[w] = k
    BY <1>3, <1>9, <2>1, <2>2, <2>3 DEF IInv, Shaped
  <2>7. pc' = [pc EXCEPT ![w] = "select"] /\ pc'[w] = "select" /\ rows' = rows /\ job' = job
    BY <1>9 DEF Goto, disk, IInv, Shaped, TypeOK
  <2>8. Formed("select", job[w], k)
    BY <1>2, <1>3, <2>4, <2>5 DEF Formed, Resting, Module
  <2>9. Orderly(w)
    BY <1>1, <1>4, <1>9, <2>5, <2>6, <2>7, <2>8
       DEF Orderly, Alone, Stages, Resting, disk, IInv, Shaped, TypeOK
  <2>10. mem[w].rec.id # Fresh => mem[w].rec.module = m
    BY <1>2, <1>3 DEF Formed, Module
  <2>11. Committed("select", job[w], k) => Committed(pc[w], job[w], mem[w])
    BY <1>1, <1>9, <2>1, <2>4, <2>5 DEF Committed
  <2> QED BY <1>1, <1>2, <2>4, <2>5, <2>6, <2>7, <2>9, <2>10, <2>11, MoveIsSound
<1> QED BY <1>6, <1>7, <1>8, <1>9 DEF Merged

LEMMA SelectIsSound ==
  ASSUME IInv, NEW w \in Workers, Select(w)
  PROVE  Sound(w)
<1>1. pc[w] = "select" /\ UNCHANGED <<disk, begun, job, hist, overlap>>
  BY DEF Select
<1>2. /\ Formed(pc[w], job[w], mem[w]) /\ mem[w] \in Memory /\ mem[w].dups = {}
      /\ job[w] \in Requests /\ job[w].kind \in About /\ mem[w].rec.module = Module(w)
  BY <1>1, Held DEF IInv, Formed, Resting, Module
<1>3. job[w] \in Request BY <1>2, Kinded
<1>4. PICK id, set :
        /\ id = IF mem[w].rec.id = Fresh THEN UnusedId ELSE mem[w].rec.id
        /\ set = IF id \notin DOMAIN rows THEN {"id", "module", "active"}
                 ELSE {c \in {"module", "active"} : mem[w].rec[c] # rows[id][c]}
  OBVIOUS
<1>5. PICK l : l = IF set # {} THEN "write" ELSE IF mem[w].last THEN "saved" ELSE "merged"
  OBVIOUS
<1>6. PICK k : k = [mem[w] EXCEPT !.rec = [@ EXCEPT !.id = id], !.set = set] OBVIOUS
<1>7. /\ mem' = [mem EXCEPT ![w].rec.id = id, ![w].set = set]
      /\ pc' = [pc EXCEPT ![w] = l]
  BY <1>4, <1>5 DEF Select, Goto
<1>8. mem' = [mem EXCEPT ![w] = k] /\ mem'[w] = k /\ pc'[w] = l
  BY <1>6, <1>7 DEF IInv, Shaped, TypeOK
<1>9. Table(rows) /\ Fresh \notin DOMAIN rows BY RowsAreATable DEF IInv
<1>10. set \subseteq Columns /\ ("id" \in set => set = Columns)
  BY <1>4 DEF Columns
<1>11. mem[w].rec.id = Fresh =>
         /\ id \in RowIds \ DOMAIN rows /\ l = "write"
         /\ \A v \in Workers : id \notin mem[v].dups /\ id # mem[v].rec.id
  <2>1. mem[w].rec.id = Fresh => UnusedIds # {} BY DEF Select
  <2>2. UnusedIds # {} => UnusedId \in UnusedIds BY DEF UnusedId
  <2>3. mem[w].rec.id = Fresh => id \in UnusedIds BY <1>4, <2>1, <2>2
  <2>4. id \notin DOMAIN rows => l = "write" BY <1>4, <1>5
  <2> QED BY <2>3, <2>4 DEF UnusedIds
<1>12. id \in RowIds /\ id # Fresh
  BY <1>2, <1>4, <1>11 DEF Memory, Record, RowIds, Fresh
<1>13. /\ k \in Memory /\ k.dups = {} /\ k.gate = mem[w].gate /\ k.set = set
       /\ k.rec.id = id /\ k.rec.module = mem[w].rec.module /\ k.rec.active = mem[w].rec.active
  <2>1. mem[w].rec \in Record BY <1>2 DEF Memory
  <2>2. [mem[w].rec EXCEPT !.id = id] \in Record BY <1>12, <2>1 DEF Record
  <2> QED BY <1>2, <1>6, <1>10, <2>1, <2>2 DEF Memory, Record
<1>14. l \in {"write", "saved", "merged"} /\ (l = "write" <=> set # {})
  BY <1>5
<1>15. Orderly(w)
  <2>1. Formed(l, job[w], k)
    BY <1>2, <1>10, <1>12, <1>13, <1>14 DEF Formed, Resting, Module
  <2> QED BY <1>1, <1>3, <1>7, <1>8, <1>13, <1>14, <2>1
       DEF Orderly, Alone, Stages, Resting, disk, IInv, Shaped, TypeOK
<1>16. Committed(l, job[w], k) => Committed(pc[w], job[w], mem[w])
  BY <1>1, <1>13, <1>14 DEF Committed
<1>17. rows' = rows /\ job' = job BY <1>1 DEF disk
<1>18. CASE mem[w].rec.id # Fresh
  <2>1. id = mem[w].rec.id BY <1>4, <1>18
  <2> QED BY <1>1, <1>2, <1>8, <1>13, <1>15, <1>16, <1>17, <2>1, MoveIsSound
<1>19. CASE mem[w].rec.id = Fresh
  <2>1. /\ id \notin DOMAIN rows
        /\ \A v \in Workers : id \notin mem[v].dups /\ id # mem[v].rec.id
    BY <1>11, <1>19
  <2>2. Attached(rows, l, job[w], k)
    <3>1. Attached(rows, pc[w], job[w], mem[w]) BY DEF IInv, Merging
    <3> QED BY <1>1, <1>9, <1>13, <1>19, <2>1, <3>1 DEF Attached
  <2>3. \A v \in Workers \ {w} : Apart(rows, mem[v], k) /\ Apart(rows, k, mem[v])
    BY <1>13, <2>1 DEF Apart
  <2>4. Careful(w)
    BY <1>8, <1>9, <1>13, <1>17, <2>2, <2>3, UntouchedIsTame DEF Careful
  <2>5. Modest(w) BY <1>8, <1>16, <1>17 DEF Modest, Enabled, Pending, Module
  <2> QED BY <1>15, <2>4, <2>5 DEF Sound
<1> QED BY <1>18, <1>19

\* What a save that violates no constraint does to the table: it updates the
\* preferred record, inserts one that has its module to itself, or does nothing.
LEMMA WriteIsTame ==
  ASSUME IInv, NEW w \in Workers, Write(w), ~Violates(w)
  PROVE  /\ Table(rows') /\ Tame(rows, rows')
         /\ DOMAIN rows \subseteq DOMAIN rows'
         /\ DOMAIN rows' \subseteq DOMAIN rows \cup {mem[w].rec.id}
         /\ mem[w].rec.id \in DOMAIN rows' =>
              IsPreferred(rows', mem[w].rec.id, mem[w].rec.module)
         /\ \A i \in DOMAIN rows' \ {mem[w].rec.id} : rows'[i] = rows[i]
         /\ mem[w].rec.id \in DOMAIN rows' =>
              \/ mem[w].rec.id \in DOMAIN rows /\ rows[mem[w].rec.id].active
              \/ rows'[mem[w].rec.id].active => mem[w].rec.active
<1>1. pc[w] = "write" BY DEF Write
<1>2. /\ Formed(pc[w], job[w], mem[w]) /\ mem[w] \in Memory /\ mem[w].rec \in Record
      /\ mem[w].rec.module = Module(w)
      /\ Attached(rows, pc[w], job[w], mem[w])
  BY <1>1, Held DEF IInv, Formed, Resting, Module, Merging
<1>3. PICK m \in Modules : m = Module(w) BY <1>1, Held DEF IInv
<1>4. PICK p, set, on :
        p = mem[w].rec.id /\ set = mem[w].set /\ on = mem[w].rec.active
  OBVIOUS
<1>5. /\ p \in RowIds /\ on \in BOOLEAN /\ m \in Names /\ ("id" \in set => set = Columns)
  BY <1>1, <1>2, <1>4 DEF Formed, Record, Fresh, Names
<1>6. Table(rows) /\ Fresh \notin DOMAIN rows BY RowsAreATable DEF IInv
<1>7. rows' = [i \in DOMAIN rows \cup (IF "id" \in set THEN {p} ELSE {}) |->
                 IF i # p THEN rows[i]
                 ELSE [module |-> IF "module" \in set THEN m ELSE rows[i].module,
                       active |-> IF "active" \in set THEN on ELSE rows[i].active]]
  BY <1>2, <1>3, <1>4 DEF Write
<1>8. /\ "id" \in set => p \notin DOMAIN rows
      /\ "module" \in set /\ (p \in DOMAIN rows \/ "id" \in set) =>
           \A i \in DOMAIN rows \ {p} : rows[i].module # m
  BY <1>2, <1>3, <1>4 DEF Violates
<1>9. CASE p \in DOMAIN rows
  <2>1. "id" \notin set /\ rows[p] \in TenantModule BY <1>6, <1>8, <1>9 DEF Table
  <2>2. PICK r : r = [module |-> IF "module" \in set THEN m ELSE rows[p].module,
                      active |-> IF "active" \in set THEN on ELSE rows[p].active]
    OBVIOUS
  <2>3. /\ r \in TenantModule /\ r.module \in {rows[p].module, m}
        /\ r.active \in {rows[p].active, on}
    BY <1>5, <2>1, <2>2 DEF TenantModule
  <2>4. PICK s : s = [i \in DOMAIN rows |-> IF i = p THEN r ELSE rows[i]] OBVIOUS
  <2>5. rows' = s BY <1>7, <1>9, <2>1, <2>2, <2>4
  <2>6. \A i \in DOMAIN rows \ {p} : rows[i].module # r.module
    BY <1>6, <1>8, <1>9, <2>2 DEF Table
  <2>7. IsPreferred(rows, p, m) BY <1>2, <1>3, <1>4, <1>9 DEF Attached
  <2>8. Table(s) /\ Tame(rows, s)
    BY <1>6, <2>3, <2>4, <2>6, <2>7, UpdateIsTame
  <2>9. DOMAIN s = DOMAIN rows /\ s[p] = r /\ \A i \in DOMAIN rows \ {p} : s[i] = rows[i]
    BY <1>9, <2>4
  <2>10. IsPreferred(s, p, m) BY <1>9, <2>7, <2>8, <2>9 DEF Tame
  <2>11. rows[p].active \/ (s[p].active => on) BY <2>3, <2>9
  <2> QED BY <1>2, <1>3, <1>4, <1>9, <2>5, <2>8, <2>9, <2>10, <2>11
<1>10. CASE p \notin DOMAIN rows /\ "id" \in set
  <2>1. PICK r : r = [module |-> m, active |-> on] OBVIOUS
  <2>2. r \in TenantModule /\ r.module = m /\ r.active = on BY <1>5, <2>1 DEF TenantModule
  <2>3. PICK s : s = [i \in DOMAIN rows \cup {p} |-> IF i = p THEN r ELSE rows[i]] OBVIOUS
  <2>4. "module" \in set /\ "active" \in set BY <1>5, <1>10 DEF Columns
  <2>5. rows' = s BY <1>7, <1>10, <2>1, <2>3, <2>4
  <2>6. \A i \in DOMAIN rows : rows[i].module # m BY <1>8, <1>10, <2>4
  <2>7. Closed(rows, m) BY <1>1, <1>2, <1>3, <1>4, <1>10 DEF Attached, Module
  <2>8. Table(s) /\ Tame(rows, s) /\ IsPreferred(s, p, m)
    BY <1>5, <1>6, <1>10, <2>2, <2>3, <2>6, <2>7, InsertIsTame
  <2>9. DOMAIN s = DOMAIN rows \cup {p} /\ s[p] = r /\ \A i \in DOMAIN rows \ {p} : s[i] = rows[i]
    BY <2>3
  <2> QED BY <1>2, <1>3, <1>4, <2>2, <2>5, <2>8, <2>9
<1>11. CASE p \notin DOMAIN rows /\ "id" \notin set
  <2>1. rows' = rows
    <3>1. rows = [i \in DOMAIN rows |-> rows[i]] BY <1>6 DEF Table
    <3> QED BY <1>7, <1>11, <3>1
  <2> QED BY <1>4, <1>6, <1>11, <2>1, UntouchedIsTame
<1> QED BY <1>9, <1>10, <1>11

LEMMA WriteIsSound ==
  ASSUME IInv, NEW w \in Workers, Write(w)
  PROVE  Sound(w)
<1>1. pc[w] = "write" BY DEF Write
<1>2. CASE Violates(w) /\ Abandon(w) BY <1>2, AbandonIsSound
<1>3. CASE ~Violates(w)
  <2>1. /\ Formed(pc[w], job[w], mem[w]) /\ mem[w] \in Memory /\ mem[w].dups = {}
        /\ job[w] \in Requests /\ job[w].kind \in About
        /\ mem[w].rec.module = Module(w) /\ Attached(rows, pc[w], job[w], mem[w])
    BY <1>1, Held DEF IInv, Formed, Resting, Module, Merging
  <2>2. job[w] \in Request BY <2>1, Kinded
  <2>3. PICK m \in Modules : m = Module(w) BY <1>1, Held DEF IInv
  <2>4. PICK l : l = IF mem[w].last THEN "saved" ELSE "merged" OBVIOUS
  <2>5. /\ pc' = [pc EXCEPT ![w] = l]
        /\ UNCHANGED <<onboarded, granted, begun, job, mem, hist, overlap>>
    BY <1>3, <2>4 DEF Write, Goto
  <2>6. pc'[w] = l /\ l \in {"saved", "merged"} BY <2>4, <2>5 DEF IInv, Shaped, TypeOK
  <2>7. PICK p : p = mem[w].rec.id OBVIOUS
  <2>8. /\ Table(rows') /\ Tame(rows, rows')
        /\ DOMAIN rows \subseteq DOMAIN rows'
        /\ DOMAIN rows' \subseteq DOMAIN rows \cup {p}
        /\ p \in DOMAIN rows' => IsPreferred(rows', p, m)
        /\ \A i \in DOMAIN rows' \ {p} : rows'[i] = rows[i]
        /\ p \in DOMAIN rows' =>
              \/ p \in DOMAIN rows /\ rows[p].active
              \/ rows'[p].active => mem[w].rec.active
    BY <1>3, <2>1, <2>3, <2>7, WriteIsTame
  <2>9. Table(rows) BY RowsAreATable DEF IInv
  <2>10. Orderly(w)
    <3>1. Formed(l, job[w], mem[w]) BY <1>1, <2>1, <2>6 DEF Formed, Resting
    <3> QED BY <2>1, <2>2, <2>5, <2>6, <3>1
         DEF Orderly, Alone, Stages, Resting, IInv, Shaped, TypeOK
  <2>11. Attached(rows', l, job[w], mem[w])
    <3>1. p \notin DOMAIN rows' => Closed(rows', m)
      BY <1>1, <2>1, <2>3, <2>7, <2>8 DEF Attached, Tame, Module
    <3> QED BY <2>1, <2>3, <2>7, <2>8, <3>1 DEF Attached, Module
  <2>12. \A v \in Workers \ {w} : Apart(rows', mem[v], mem[w]) /\ Apart(rows', mem[w], mem[v])
    BY <2>8 DEF Apart, IInv, Merging
  <2>13. Careful(w)
    BY <2>1, <2>5, <2>6, <2>7, <2>8, <2>11, <2>12 DEF Careful
  <2>14. ASSUME NEW i \in DOMAIN rows', rows'[i].active
         PROVE  normalizeModuleId(rows'[i].module) \in Enabled \cup Pending
    <3>1. CASE i # p BY <2>8, <2>14, <3>1 DEF Enabled, EnabledIn
    <3>2. CASE i = p
      <4>1. normalizeModuleId(rows'[p].module) = m
        BY <2>8, <2>14, <3>2 DEF IsPreferred, RecordsIn
      <4>2. CASE p \in DOMAIN rows /\ rows[p].active
        <5>1. normalizeModuleId(rows[p].module) = m
          BY <2>1, <2>3, <2>7, <4>2 DEF Attached, IsPreferred, RecordsIn
        <5> QED BY <3>2, <4>1, <4>2, <5>1 DEF Enabled, EnabledIn
      <4>3. CASE mem[w].rec.active
        <5>1. Committed(pc[w], job[w], mem[w]) BY <1>1, <4>3 DEF Committed
        <5> QED BY <2>3, <3>2, <4>1, <5>1 DEF Pending
      <4> QED BY <2>8, <2>14, <3>2, <4>2, <4>3
    <3> QED BY <3>1, <3>2
  <2>15. Enabled' \subseteq Enabled \cup Pending BY <2>14 DEF Enabled, EnabledIn
  <2>16. Modest(w)
    <3>1. Committed(l, job[w], mem[w]) => Committed(pc[w], job[w], mem[w])
      BY <1>1, <2>6 DEF Committed
    <3> QED BY <2>5, <2>6, <2>15, <3>1 DEF Modest, Pending, Module
  <2> QED BY <2>10, <2>13, <2>16 DEF Sound
<1> QED BY <1>2, <1>3 DEF Write

LEMMA SavedIsSound ==
  ASSUME IInv, NEW w \in Workers, Saved(w)
  PROVE  Sound(w)
<1>1. pc[w] = "saved" /\ begun' = begun /\ overlap' = overlap
  BY DEF Saved
<1>2. PICK m \in Modules : m = Module(w) BY <1>1, Held DEF IInv
<1>3. granted \subseteq Modules BY DEF IInv, Shaped, TypeOK
<1>4. CASE job[w].kind = "deactivate"
  BY <1>1, <1>3, <1>4, ReplyIsSound DEF Saved, disk
<1>5. CASE job[w].kind # "deactivate"
  <2>1. rows' = rows /\ onboarded' = onboarded /\ granted' \subseteq Modules
    BY <1>2, <1>3, <1>5 DEF Saved
  <2>2. CASE Reply(w, TRUE) BY <1>1, <2>1, <2>2, ReplyIsSound
  <2>3. CASE Goto(w, "tenant") /\ UNCHANGED <<job, mem, hist>>
    <3>1. Formed(pc[w], job[w], mem[w]) /\ mem[w] \in Memory BY Held DEF IInv
    <3>2. Formed("tenant", job[w], mem[w]) BY <1>1, <3>1 DEF Formed, Resting
    <3>3. "tenant" \in Stages \ Resting /\ ~Committed("tenant", job[w], mem[w])
          /\ pc[w] \notin Resting
      BY <1>1 DEF Stages, Resting, Committed
    <3>4. mem' = [mem EXCEPT ![w] = mem[w]] BY <2>3 DEF IInv, Shaped
    <3>5. pc' = [pc EXCEPT ![w] = "tenant"] /\ job' = job BY <2>3 DEF Goto
    <3>6. onboarded' \in BOOLEAN BY <2>1 DEF IInv, Shaped, TypeOK
    <3> QED BY <1>1, <2>1, <3>1, <3>2, <3>3, <3>4, <3>5, <3>6, GotoIsSound
  <2> QED BY <1>5, <2>2, <2>3 DEF Saved
<1> QED BY <1>4, <1>5

LEMMA ReadTenantIsSound ==
  ASSUME IInv, NEW w \in Workers, ReadTenant(w)
  PROVE  Sound(w)
<1>1. pc[w] = "tenant" /\ UNCHANGED <<disk, begun, job, hist, overlap>>
  BY DEF ReadTenant
<1>2. PICK config : config = IF job[w].kind # "configure" THEN TRUE
                             ELSE IF job[w].flag = None THEN onboarded ELSE job[w].flag = "on"
  OBVIOUS
<1>3. config \in BOOLEAN BY <1>2 DEF IInv, Shaped, TypeOK
<1>4. PICK k : k = [mem[w] EXCEPT !.config = config] OBVIOUS
<1>5. mem' = [mem EXCEPT ![w].config = config] BY <1>2 DEF ReadTenant
<1>6. mem' = [mem EXCEPT ![w] = k] BY <1>4, <1>5 DEF IInv, Shaped
<1>7. Formed(pc[w], job[w], mem[w]) /\ mem[w] \in Memory BY Held DEF IInv
<1>8. k \in Memory /\ k.rec = mem[w].rec /\ k.dups = mem[w].dups
  BY <1>3, <1>4, <1>7 DEF Memory
<1>9. Formed("compare", job[w], k) BY <1>1, <1>7, <1>8 DEF Formed, Resting
<1>10. "compare" \in Stages \ Resting /\ ~Committed("compare", job[w], k)
       /\ pc[w] \notin Resting
  BY <1>1 DEF Stages, Resting, Committed
<1>11. onboarded' \in BOOLEAN /\ granted' \subseteq Modules
  BY <1>1 DEF disk, IInv, Shaped, TypeOK
<1>12. pc' = [pc EXCEPT ![w] = "compare"] BY DEF ReadTenant, Goto
<1> QED BY <1>1, <1>6, <1>8, <1>9, <1>10, <1>11, <1>12, GotoIsSound DEF disk

LEMMA CompareTenantIsSound ==
  ASSUME IInv, NEW w \in Workers, CompareTenant(w)
  PROVE  Sound(w)
<1>1. pc[w] = "compare" /\ UNCHANGED <<disk, begun, job, mem, hist, overlap>>
  BY DEF CompareTenant
<1>2. PICK l : l = IF mem[w].config # onboarded THEN "store" ELSE "report" OBVIOUS
<1>3. pc' = [pc EXCEPT ![w] = l] /\ mem' = [mem EXCEPT ![w] = mem[w]]
  BY <1>1, <1>2 DEF CompareTenant, Goto, IInv, Shaped
<1>4. Formed(pc[w], job[w], mem[w]) /\ mem[w] \in Memory BY Held DEF IInv
<1>5. l \in {"store", "report"} BY <1>2
<1>6. Formed(l, job[w], mem[w]) BY <1>1, <1>4, <1>5 DEF Formed, Resting
<1>7. l \in Stages \ Resting /\ ~Committed(l, job[w], mem[w]) /\ pc[w] \notin Resting
      /\ l \notin {"merged", "select", "write"}
  BY <1>1, <1>5 DEF Stages, Resting, Committed
<1>8. onboarded' \in BOOLEAN /\ granted' \subseteq Modules
  BY <1>1 DEF disk, IInv, Shaped, TypeOK
<1> QED BY <1>1, <1>3, <1>4, <1>6, <1>7, <1>8, GotoIsSound DEF disk

LEMMA StoreTenantIsSound ==
  ASSUME IInv, NEW w \in Workers, StoreTenant(w)
  PROVE  Sound(w)
<1>1. /\ pc[w] = "store" /\ pc' = [pc EXCEPT ![w] = "report"]
      /\ onboarded' = mem[w].config
      /\ UNCHANGED <<rows, granted, begun, job, mem, hist, overlap>>
  BY DEF StoreTenant, Goto
<1>2. Formed(pc[w], job[w], mem[w]) /\ mem[w] \in Memory BY Held DEF IInv
<1>3. mem' = [mem EXCEPT ![w] = mem[w]] BY <1>1 DEF IInv, Shaped
<1>4. onboarded' \in BOOLEAN /\ granted' \subseteq Modules
  BY <1>1, <1>2 DEF Memory, IInv, Shaped, TypeOK
<1>5. Formed("report", job[w], mem[w]) BY <1>1, <1>2 DEF Formed, Resting
<1>6. "report" \in Stages \ Resting /\ ~Committed("report", job[w], mem[w])
      /\ pc[w] \notin Resting
  BY <1>1 DEF Stages, Resting, Committed
<1> QED BY <1>1, <1>2, <1>3, <1>4, <1>5, <1>6, GotoIsSound

-----------------------------------------------------------------------------
(* The theorems.                                                           *)

LEMMA Beginning == Init => IInv
<1> SUFFICES ASSUME Init PROVE IInv
  OBVIOUS
<1> USE DEF Init
<1>1. Table(rows)
  BY RowsAssumption DEF Table, TenantModule
<1>2. Enabled \subseteq Modules BY <1>1, EnabledIsFinite DEF Enabled
<1>3. \A w \in Workers : pc[w] = "idle" /\ job[w] = NoRequest /\ mem[w] = NoMemory
  OBVIOUS
<1>4. Shaped
  <2>1. TypeOK
    <3>1. begun \in 0..MaxRequests /\ granted \subseteq Modules /\ overlap \in BOOLEAN
      <4>1. MaxRequests \in Nat BY CatalogAssumption
      <4>2. begun \in 0..MaxRequests BY <4>1
      <4> QED BY <1>2, <4>2
    <3>2. \A w \in Workers : job[w] \in Request \cup {NoRequest} /\ mem[w].rec \in Record
      BY <1>3, NothingHeld DEF Memory
    <3>3. pc \in [Workers -> Stages] BY DEF Stages, Resting
    <3>4. \A w \in Workers : pc[w] # "write" BY <1>3
    <3> HIDE DEF Init
    <3>5. onboarded \in BOOLEAN BY DEF Init
    <3> QED BY <1>1, <1>3, <3>1, <3>2, <3>3, <3>4, <3>5
         DEF TypeOK, Table, TenantModule, Stages
  <2>2. \A w \in Workers : Formed(pc[w], job[w], mem[w])
    BY <1>3, NothingHeld DEF Formed, Resting
  <2>3. mem \in [Workers -> Memory] /\ job \in [Workers -> Request \cup {NoRequest}]
    BY NothingHeld
  <2> QED BY <2>1, <2>2, <2>3 DEF Shaped
<1>5. Fresh \notin DOMAIN rows BY <1>4, RowsAreATable
<1>6. Merging
  <2>1. \A w \in Workers : Attached(rows, pc[w], job[w], mem[w])
    BY <1>3, <1>5, NothingHeld DEF Attached
  <2>2. \A v, w \in Workers : Apart(rows, mem[v], mem[w]) /\ mem[w].rec.id \notin mem[w].dups
    BY <1>3, NothingHeld DEF Apart
  <2> QED BY <2>1, <2>2 DEF Merging
<1>7. Bounded
  <2>1. \A w \in Workers : ~Committed(pc[w], job[w], mem[w])
    BY <1>3 DEF Committed
  <2>2. Potential = Billable BY <2>1 DEF Potential, Pending, Billable
  <2>3. Billable = EnabledIn(rows) \ Essential BY DEF Billable, Enabled
  <2>4. Cardinality(Billable) <= Limit BY <2>3, PlanAssumption
  <2>5. Cardinality(Workers) \in Nat /\ Cardinality(Workers) # 0
    BY PlanAssumption, FS_CardinalityType, FS_EmptySet
  <2>6. Cardinality(Billable) \in Nat /\ Limit \in Nat
    <3>1. IsFiniteSet(Potential) BY <1>4, PotentialIsFinite
    <3> QED BY <2>2, <3>1, FS_CardinalityType, CatalogAssumption
  <2> QED BY <2>2, <2>4, <2>5, <2>6 DEF Bounded
<1> QED BY <1>4, <1>6, <1>7 DEF IInv

LEMMA Unchanging ==
  ASSUME IInv, UNCHANGED vars
  PROVE  IInv'
<1>1. UNCHANGED <<rows, onboarded, granted, begun, pc, job, mem, overlap>>
  BY DEF vars, disk
<1>2. Shaped' BY <1>1 DEF IInv, Shaped, TypeOK
<1>3. Merging' BY <1>1 DEF IInv, Merging
<1>4. Potential' = Potential BY <1>1 DEF Potential, Enabled, Pending, Module
<1>5. Bounded' BY <1>4 DEF IInv, Bounded
<1> QED BY <1>2, <1>3, <1>5 DEF IInv

LEMMA Inductive == IInv /\ [Next]_vars => IInv'
<1> SUFFICES ASSUME IInv, [Next]_vars PROVE IInv'
  OBVIOUS
<1>1. ASSUME NEW w \in Workers, NEW q \in Requests, Begin(w, q) PROVE IInv'
  BY <1>1, BeginIsSound, SoundStep
<1>2. ASSUME NEW w \in Workers, Blocked(w) PROVE IInv'
  BY <1>2, RefuseIsSound, SoundStep DEF Blocked
<1>3. ASSUME NEW w \in Workers, ReadFlag(w) PROVE IInv'
  BY <1>3, ReadFlagIsSound, SoundStep
<1>4. ASSUME NEW w \in Workers, CheckUsage(w) PROVE IInv'
  BY <1>4, CheckUsageIsSound, SoundStep
<1>5. ASSUME NEW w \in Workers, Count(w) PROVE IInv'
  BY <1>5, CountKeeps
<1>6. ASSUME NEW w \in Workers, Find(w) PROVE IInv'
  BY <1>6, FindIsSound, SoundStep
<1>7. ASSUME NEW w \in Workers, Remove(w) PROVE IInv'
  BY <1>7, RemoveIsSound, SoundStep
<1>8. ASSUME NEW w \in Workers, Merged(w) PROVE IInv'
  BY <1>8, MergedIsSound, SoundStep
<1>9. ASSUME NEW w \in Workers, Select(w) PROVE IInv'
  BY <1>9, SelectIsSound, SoundStep
<1>10. ASSUME NEW w \in Workers, Write(w) PROVE IInv'
  BY <1>10, WriteIsSound, SoundStep
<1>11. ASSUME NEW w \in Workers, Saved(w) PROVE IInv'
  BY <1>11, SavedIsSound, SoundStep
<1>12. ASSUME NEW w \in Workers, ReadTenant(w) PROVE IInv'
  BY <1>12, ReadTenantIsSound, SoundStep
<1>13. ASSUME NEW w \in Workers, CompareTenant(w) PROVE IInv'
  BY <1>13, CompareTenantIsSound, SoundStep
<1>14. ASSUME NEW w \in Workers, StoreTenant(w) PROVE IInv'
  BY <1>14, StoreTenantIsSound, SoundStep
<1>15. ASSUME NEW w \in Workers, Report(w) PROVE IInv'
  <2>1. granted \subseteq Modules BY DEF IInv, Shaped, TypeOK
  <2>2. Sound(w) BY <1>15, <2>1, ReplyIsSound DEF Report, disk
  <2> QED BY <2>2, SoundStep
<1>16. ASSUME NEW w \in Workers, Fail(w) PROVE IInv'
  BY <1>16, AbandonIsSound, SoundStep DEF Fail
<1>17. CASE UNCHANGED vars BY <1>17, Unchanging
<1> QED BY <1>1, <1>2, <1>3, <1>4, <1>5, <1>6, <1>7, <1>8, <1>9, <1>10, <1>11, <1>12,
           <1>13, <1>14, <1>15, <1>16, <1>17 DEF Next, Step

LEMMA Invariant == Spec => []IInv
BY Beginning, Inductive, PTL DEF Spec

\* Types of rows, requests and memories; in particular no two rows have one name,
\* whatever merges rename and insert (tenant-module.service.ts:107-136).
THEOREM TypeCorrect == Spec => []TypeOK
<1>1. IInv => TypeOK BY DEF IInv, Shaped
<1> QED BY <1>1, Invariant, PTL

\* However many requests count before any of them saves (tenant-module.service.ts:220),
\* they exceed the plan by less than one module each.
THEOREM PlanIsExceededByFew == Spec => []OvershootIsBounded
<1>1. ASSUME IInv PROVE OvershootIsBounded
  <2>1. Billable \subseteq Potential BY DEF Billable, Potential
  <2>2. IsFiniteSet(Potential) BY <1>1, PotentialIsFinite DEF IInv
  <2>3. IsFiniteSet(Billable) /\ Cardinality(Billable) <= Cardinality(Potential)
    BY <2>1, <2>2, FS_Subset
  <2>4. /\ Cardinality(Billable) \in Nat /\ Cardinality(Potential) \in Nat
        /\ Cardinality(Workers) \in Nat /\ Limit \in Nat
    BY <2>2, <2>3, FS_CardinalityType, PlanAssumption, CatalogAssumption
  <2> QED BY <1>1, <2>3, <2>4 DEF IInv, Bounded, OvershootIsBounded
<1> QED BY <1>1, Invariant, PTL

LEMMA StepIsTame ==
  ASSUME IInv, [Next]_vars
  PROVE  Tame(rows, rows')
<1>1. CASE rows' = rows BY <1>1, UntouchedIsTame
<1>2. ASSUME NEW w \in Workers, Remove(w) PROVE Tame(rows, rows')
  BY <1>2, RemoveIsSound DEF Sound, Careful
<1>3. ASSUME NEW w \in Workers, Write(w) PROVE Tame(rows, rows')
  BY <1>3, WriteIsSound DEF Sound, Careful
<1>4. CASE UNCHANGED vars BY <1>1, <1>4 DEF vars, disk
<1>5. ASSUME NEW w \in Workers, NEW q \in Requests, Begin(w, q) PROVE rows' = rows
  BY <1>5 DEF Begin, disk
<1>6. ASSUME NEW w \in Workers, Step(w), ~Remove(w), ~Write(w) PROVE rows' = rows
  BY <1>6 DEF Step, Blocked, ReadFlag, CheckUsage, Count, Find, Merged, Select, Saved,
              ReadTenant, CompareTenant, StoreTenant, Report, Refuse, disk
<1>7. ASSUME NEW w \in Workers, Fail(w) PROVE rows' = rows
  BY <1>7 DEF Fail, Abandon, disk
<1> QED BY <1>1, <1>2, <1>3, <1>4, <1>5, <1>6, <1>7 DEF Next

\* A merge that removes the duplicates it loaded (tenant-module.service.ts:132) leaves
\* the record another request is about to save, and a module that had a record keeps one.
THEOREM RecordsAreKept == Spec => RecordsSurvive
<1>1. ASSUME IInv, [Next]_vars
      PROVE  \A m \in Modules : Records(m) # {} => Records(m)' # {}
  <2>1. Tame(rows, rows') BY <1>1, StepIsTame
  <2>2. \A m : Records(m) = RecordsIn(rows, m) /\ Records(m)' = RecordsIn(rows', m)
    BY DEF Records, RecordsIn
  <2> QED BY <2>1, <2>2 DEF Tame
<1>2. IInv /\ [Next]_vars =>
        [\A m \in Modules : Records(m) # {} => Records(m)' # {}]_vars
  BY <1>1
<1> QED BY <1>2, Invariant, PTL DEF Spec, RecordsSurvive

-----------------------------------------------------------------------------
(* The refinement: requests that are served one at a time, and whose       *)
(* statements succeed, take effect at once when they are answered.         *)

\* A request that stands between two answers.
Silent == UNCHANGED <<settled, answer>>
Mapped(w) == Follows(w)' /\ (Silent \/ Catalog!Next)

\* Both specifications count alike.
LEMMA FullAlike == Catalog!Full = IsFull(settled.enabled)
<1>1. Catalog!Cardinality(settled.enabled \ Essential) = Cardinality(settled.enabled \ Essential)
  BY DEF Catalog!Cardinality, Cardinality, Catalog!IsFiniteSet, IsFiniteSet
<1> QED BY <1>1 DEF Catalog!Full, IsFull

LEMMA OnIfARecordIs ==
  ASSUME NEW t, NEW m
  PROVE  m \in EnabledIn(t) <=> \E i \in RecordsIn(t, m) : t[i].active
BY DEF EnabledIn, RecordsIn

\* The one record of a module decides whether it is on.
LEMMA OneRecordDecides ==
  ASSUME NEW t, NEW m, NEW i, NEW S, RecordsIn(t, m) = {i}, EnabledIn(t) \ {m} = S \ {m}
  PROVE  EnabledIn(t) = IF t[i].active THEN S \cup {m} ELSE S \ {m}
<1>1. m \in EnabledIn(t) <=> t[i].active BY OnIfARecordIs
<1> QED BY <1>1

LEMMA NoRecordDecides ==
  ASSUME NEW t, NEW m, RecordsIn(t, m) = {}
  PROVE  m \notin EnabledIn(t)
BY OnIfARecordIs

LEMMA SettledByReply ==
  ASSUME Shaped, NEW w \in Workers, NEW ok, Reply(w, ok)
  PROVE  Follows(w)'
<1>1. pc'[w] = "idle" /\ settled' = [enabled |-> EnabledIn(rows'), onboarded |-> onboarded']
      /\ mem'[w] = NoMemory
  BY DEF Reply, Goto, Shaped, TypeOK
<1>2. Standing(rows', settled', pc'[w], job'[w])
  BY <1>1 DEF Standing, Resting, Late
<1>3. Entitled(onboarded', settled', pc'[w], job'[w], mem'[w])
  BY <1>1 DEF Entitled, Late, Underway
<1>4. Grasping(rows', settled', pc'[w], job'[w], mem'[w])
  BY <1>1 DEF Grasping
<1> QED BY <1>2, <1>3, <1>4 DEF Follows

\* A request is refused while the tables are as they were settled.
LEMMA RefusalMapped ==
  ASSUME IInv, NEW w \in Workers, Follows(w), Refuse(w), NEW m, m = Named(w),
         EnabledIn(rows) = settled.enabled, onboarded = settled.onboarded,
         \/ m \in Modules /\ job[w].kind = "activate" /\ m \notin settled.enabled
              /\ IsFull(settled.enabled)
         \/ m \in Modules /\ job[w].kind = "deactivate" /\ (m \in Essential \/ ~settled.onboarded)
         \/ m \in Names /\ job[w].kind = "complete"
              /\ (settled.onboarded \/ m \notin Suggested \ Essential \/ IsFull(settled.enabled))
         \/ m = None /\ job[w].kind = "skip" /\ settled.onboarded
         \/ m = None /\ job[w].kind = "configure" /\ ~settled.onboarded
  PROVE  Mapped(w)
<1>1. Reply(w, FALSE) /\ rows' = rows /\ onboarded' = onboarded BY DEF Refuse, disk
<1>2. Follows(w)' BY <1>1, SettledByReply DEF IInv
<1>3. /\ settled'.enabled = settled.enabled /\ settled'.onboarded = settled.onboarded
      /\ answer' = [kind |-> job[w].kind, module |-> m, ok |-> FALSE]
  BY <1>1 DEF Reply
<1>4. Catalog!Refuse
  BY <1>3, FullAlike DEF Catalog!Refuse, Catalog!MayActivate, Catalog!MayComplete,
              Catalog!Answer, None
<1> QED BY <1>2, <1>4 DEF Mapped, Catalog!Next

LEMMA BeginMapped ==
  ASSUME IInv, NEW w \in Workers, Follows(w), NEW q \in Requests, Begin(w, q)
  PROVE  Mapped(w)
<1>1. pc[w] \in Resting /\ mem[w] = NoMemory /\ job'[w] = q /\ mem' = mem
      /\ UNCHANGED <<disk, hist>>
  BY DEF Begin, IInv, Shaped, TypeOK
<1>2. q.kind \in Kinds BY Kinded
<1>3. /\ pc'[w] \in {"refuse", "count", "find", "flag", "tenant"}
      /\ pc'[w] = "refuse" <=> Barred(q)
      /\ pc'[w] = "count" => q.kind = "activate"
      /\ pc'[w] = "find" => q.kind = "deactivate"
      /\ pc'[w] = "flag" => q.kind \in {"complete", "skip"}
      /\ pc'[w] = "tenant" => q.kind = "configure"
  <2>1. pc'[w] = IF Barred(q) THEN "refuse" ELSE FirstStep[q.kind]
    BY DEF Begin, Goto, IInv, Shaped, TypeOK
  <2>2. /\ FirstStep["activate"] = "count" /\ FirstStep["deactivate"] = "find"
        /\ FirstStep["complete"] = "flag" /\ FirstStep["skip"] = "flag"
        /\ FirstStep["configure"] = "tenant"
    BY DEF FirstStep
  <2> QED BY <1>2, <2>1, <2>2 DEF Kinds
<1>4. EnabledIn(rows) = settled.enabled /\ onboarded = settled.onboarded
  BY <1>1 DEF Follows, Standing, Entitled, Resting
<1>5. Standing(rows, settled, pc'[w], q)
  BY <1>3, <1>4 DEF Standing, Late
<1>6. Entitled(onboarded, settled, pc'[w], q, mem[w])
  BY <1>1, <1>3, <1>4, NothingHeld DEF Entitled, Late, Underway, Barred
<1>7. Grasping(rows, settled, pc'[w], q, mem[w])
  BY <1>1, <1>3 DEF Grasping, NoMemory
<1>8. rows' = rows /\ onboarded' = onboarded /\ settled' = settled /\ answer' = answer
  BY <1>1 DEF disk, hist
<1> QED BY <1>1, <1>5, <1>6, <1>7, <1>8 DEF Mapped, Silent, Follows

\* A request that goes on while the tables and the answer stay as they are.
LEMMA MoveMapped ==
  ASSUME IInv, NEW w \in Workers, NEW p, pc' = [pc EXCEPT ![w] = p], job' = job,
         NEW k, mem' = [mem EXCEPT ![w] = k], UNCHANGED <<rows, onboarded, hist>>,
         Standing(rows, settled, p, job[w]),
         Entitled(onboarded, settled, p, job[w], k),
         Grasping(rows, settled, p, job[w], k)
  PROVE  Mapped(w)
<1>1. pc'[w] = p /\ mem'[w] = k BY DEF IInv, Shaped, TypeOK
<1>2. settled' = settled /\ answer' = answer BY DEF hist
<1> QED BY <1>1, <1>2 DEF Mapped, Silent, Follows

LEMMA BlockedMapped ==
  ASSUME IInv, NEW w \in Workers, Follows(w), Blocked(w)
  PROVE  Mapped(w)
<1>1. pc[w] = "refuse" /\ Refuse(w) BY DEF Blocked
<1>2. job[w] \in Requests BY <1>1, Held DEF IInv, Formed, Resting
<1>3. PICK m : m = Module(w) OBVIOUS
<1>4. /\ EnabledIn(rows) = settled.enabled /\ onboarded = settled.onboarded
      /\ \/ job[w].kind \in {"deactivate", "configure"} /\ ~settled.onboarded
         \/ job[w].kind = "deactivate" /\ m \in Essential
  BY <1>1, <1>3 DEF Follows, Standing, Entitled, Module
<1>5. /\ job[w].kind = "deactivate" => m \in Modules
      /\ job[w].kind = "configure" => m = None
  BY <1>2, <1>3, Kinded DEF About, Module
<1>6. m = Named(w) BY <1>3, <1>4 DEF Named
<1> QED BY <1>1, <1>4, <1>5, <1>6, RefusalMapped

LEMMA ReadFlagMapped ==
  ASSUME IInv, NEW w \in Workers, Follows(w), ReadFlag(w)
  PROVE  Mapped(w)
<1>1. pc[w] = "flag" BY DEF ReadFlag
<1>2. job[w] \in Requests /\ mem[w] = NoMemory BY <1>1, Held DEF IInv, Formed, Resting
<1>3. PICK m : m = Named(w) OBVIOUS
<1>4. /\ EnabledIn(rows) = settled.enabled /\ onboarded = settled.onboarded
      /\ job[w].kind \in {"complete", "skip"}
  BY <1>1 DEF Follows, Standing, Entitled
<1>5. /\ job[w].kind = "complete" => m = job[w].module /\ m \in Names
      /\ job[w].kind = "skip" => m = None
  BY <1>2, <1>3, Kinded DEF About, Module, Named
<1>6. CASE onboarded \/ (job[w].kind = "complete" /\ m \notin Suggested \ Essential)
  <2>1. Refuse(w) BY <1>5, <1>6 DEF ReadFlag
  <2> QED BY <1>3, <1>4, <1>5, <1>6, <2>1, RefusalMapped
<1>7. CASE ~(onboarded \/ (job[w].kind = "complete" /\ m \notin Suggested \ Essential))
  <2>1. PICK l : l = IF job[w].kind = "complete" THEN "usage" ELSE "tenant" OBVIOUS
  <2>2. /\ pc' = [pc EXCEPT ![w] = l] /\ job' = job /\ mem' = mem
        /\ UNCHANGED <<rows, onboarded, hist>>
    BY <1>5, <1>7, <2>1 DEF ReadFlag, Goto, disk
  <2>3. mem' = [mem EXCEPT ![w] = mem[w]] BY <2>2 DEF IInv, Shaped
  <2>4. /\ l \in {"usage", "tenant"}
        /\ l = "usage" => job[w].kind = "complete"
        /\ l = "tenant" => job[w].kind = "skip"
    BY <1>4, <2>1
  <2>5. Standing(rows, settled, l, job[w]) BY <1>4, <2>4 DEF Standing, Late, Resting
  <2>6. job[w].kind = "complete" => /\ job[w].module \in Suggested \ Essential
                                    /\ normalizeModuleId(job[w].module) = job[w].module
    BY <1>5, <1>7, Canonical, CatalogAssumption
  <2>7. Entitled(onboarded, settled, l, job[w], mem[w])
    BY <1>2, <1>4, <1>7, <2>4, <2>6, NothingHeld DEF Entitled, Late, Underway
  <2>8. Grasping(rows, settled, l, job[w], mem[w]) BY <2>4 DEF Grasping
  <2> QED BY <2>2, <2>3, <2>5, <2>7, <2>8, MoveMapped
<1> QED BY <1>6, <1>7

LEMMA CheckUsageMapped ==
  ASSUME IInv, NEW w \in Workers, Follows(w), CheckUsage(w)
  PROVE  Mapped(w)
<1>1. pc[w] = "usage" BY DEF CheckUsage
<1>2. job[w] \in Requests /\ mem[w] = NoMemory BY <1>1, Held DEF IInv, Formed, Resting
<1>3. PICK m : m = Module(w) OBVIOUS
<1>4. /\ EnabledIn(rows) = settled.enabled /\ onboarded = settled.onboarded
      /\ job[w].kind = "complete" /\ ~settled.onboarded /\ m \in Suggested \ Essential
      /\ job[w].module = m
  BY <1>1, <1>3 DEF Follows, Standing, Entitled, Underway, Module
<1>5. m \in Modules BY <1>2, <1>3, <1>4, Kinded DEF About, Module
<1>6. AtLimit <=> IsFull(settled.enabled) BY <1>4 DEF AtLimit, Billable, Enabled, IsFull
<1>7. CASE AtLimit
  <2>1. Refuse(w) BY <1>7 DEF CheckUsage
  <2>2. m = Named(w) /\ m \in Names BY <1>4, <1>5 DEF Named, Names
  <2> QED BY <1>4, <1>6, <1>7, <2>1, <2>2, RefusalMapped
<1>8. CASE ~AtLimit
  <2>1. /\ pc' = [pc EXCEPT ![w] = "count"] /\ job' = job /\ mem' = mem
        /\ UNCHANGED <<rows, onboarded, hist>>
    BY <1>8 DEF CheckUsage, Goto, disk
  <2>2. mem' = [mem EXCEPT ![w] = mem[w]] BY <2>1 DEF IInv, Shaped
  <2>3. Standing(rows, settled, "count", job[w]) BY <1>4 DEF Standing, Late
  <2>4. Entitled(onboarded, settled, "count", job[w], mem[w])
    BY <1>2, <1>3, <1>4, <1>6, <1>8, NothingHeld DEF Entitled, Late, Underway, Module
  <2>5. Grasping(rows, settled, "count", job[w], mem[w]) BY DEF Grasping
  <2> QED BY <2>1, <2>2, <2>3, <2>4, <2>5, MoveMapped
<1> QED BY <1>7, <1>8

LEMMA CountMapped ==
  ASSUME IInv, NEW w \in Workers, Follows(w), Count(w)
  PROVE  Mapped(w)
<1>1. pc[w] = "count" BY DEF Count
<1>2. mem[w] = NoMemory /\ mem[w] \in Memory BY <1>1, Held DEF IInv, Formed
<1>3. /\ EnabledIn(rows) = settled.enabled /\ onboarded = settled.onboarded
      /\ job[w].kind \in {"activate", "complete"}
  BY <1>1 DEF Follows, Standing, Entitled, Late
<1>4. AtLimit <=> IsFull(settled.enabled) BY <1>3 DEF AtLimit, Billable, Enabled, IsFull
<1>5. PICK k : k = [mem[w] EXCEPT !.gate = AtLimit] OBVIOUS
<1>6. /\ pc' = [pc EXCEPT ![w] = "find"] /\ job' = job /\ mem' = [mem EXCEPT ![w] = k]
      /\ UNCHANGED <<rows, onboarded, hist>>
  BY <1>5 DEF Count, Goto, disk, IInv, Shaped
<1>7. (k.gate <=> AtLimit) /\ ~k.last
  <2>1. mem[w].last = FALSE BY <1>2 DEF NoMemory
  <2> QED BY <1>2, <1>5, <2>1 DEF Memory
<1>8. Standing(rows, settled, "find", job[w]) BY <1>3 DEF Standing, Late
<1>9. Entitled(onboarded, settled, "find", job[w], k)
  BY <1>1, <1>3, <1>4, <1>7 DEF Entitled, Late, Underway, Follows
<1>10. Grasping(rows, settled, "find", job[w], k) BY <1>7 DEF Grasping
<1> QED BY <1>6, <1>8, <1>9, <1>10, MoveMapped

\* What the request has been checked for holds until its record is saved.
LEMMA EntitledCarries ==
  ASSUME NEW on, NEW s, NEW p, NEW q, NEW k, NEW l, NEW h, Entitled(on, s, p, q, k),
         p \in {"find", "remove", "merged", "select", "write"},
         l \in {"find", "remove", "merged", "select", "write", "saved"}, h.gate = k.gate
  PROVE  Entitled(on, s, l, q, h)
<1>1. /\ on = s.onboarded
      /\ q.kind \in {"complete", "skip"} => ~s.onboarded
      /\ q.kind = "complete" =>
           /\ q.module = normalizeModuleId(q.module)
           /\ q.module \in Suggested \ Essential /\ ~k.gate
      /\ q.kind = "complete" => ~IsFull(s.enabled)
      /\ q.kind = "deactivate" => normalizeModuleId(q.module) \notin Essential /\ ~k.gate
      /\ q.kind = "activate" =>
           IF k.gate THEN IsFull(s.enabled)
           ELSE normalizeModuleId(q.module) \in s.enabled \/ ~IsFull(s.enabled)
  BY DEF Entitled, Underway
<1> QED BY <1>1 DEF Entitled, Underway, Late

LEMMA FindMapped ==
  ASSUME IInv, NEW w \in Workers, Follows(w), Find(w)
  PROVE  Mapped(w)
<1>1. pc[w] = "find" /\ job' = job /\ UNCHANGED <<rows, onboarded, hist>>
  BY DEF Find, disk
<1>2. /\ mem[w] \in Memory /\ mem[w].rec = NoRecord /\ mem[w].dups = {}
  BY <1>1, Held DEF IInv, Formed
<1>3. PICK m \in Modules : m = Module(w) BY <1>1, Held DEF IInv
<1>4. Table(rows) /\ Records(m) = RecordsIn(rows, m)
  BY RowsAreATable DEF IInv, Records, RecordsIn
<1>5. /\ EnabledIn(rows) = settled.enabled /\ ~mem[w].last
      /\ Entitled(onboarded, settled, "find", job[w], mem[w])
  BY <1>1 DEF Follows, Standing, Entitled, Grasping
<1>6. CASE Records(m) = {}
  <2>1. pc' = [pc EXCEPT ![w] = "merged"] /\ mem' = [mem EXCEPT ![w] = mem[w]]
    BY <1>3, <1>6 DEF Find, Goto, IInv, Shaped
  <2>2. Standing(rows, settled, "merged", job[w]) BY <1>5 DEF Standing, Late
  <2>3. Entitled(onboarded, settled, "merged", job[w], mem[w]) BY <1>5, EntitledCarries
  <2>4. Grasping(rows, settled, "merged", job[w], mem[w])
    BY <1>2, <1>3, <1>4, <1>5, <1>6 DEF Grasping, Module
  <2> QED BY <1>1, <2>1, <2>2, <2>3, <2>4, MoveMapped
<1>7. CASE Records(m) # {}
  <2>1. PICK p : p = pickPreferredRecord(m) OBVIOUS
  <2>2. PICK on \in BOOLEAN : on = (\E j \in Records(m) : rows[j].active) OBVIOUS
  <2>3. PICK rec, dups, keep :
          /\ rec = [id |-> p, module |-> m, active |-> on]
          /\ dups = Records(m) \ {p}
          /\ keep = (rows[p] # [module |-> m, active |-> on])
    OBVIOUS
  <2>4. rec = mergedRecord(m) /\ dups = duplicateRecords(m)
    BY <2>1, <2>2, <2>3 DEF mergedRecord, duplicateRecords
  <2>5. rec.id = p /\ rec.module = m /\ rec.active = on BY <2>3
  <2>6. PICK k : k = [mem[w] EXCEPT !.rec = rec, !.dups = dups, !.keep = keep] OBVIOUS
  <2>7. PICK l : l = IF dups # {} THEN "remove" ELSE IF keep THEN "select" ELSE "merged"
    OBVIOUS
  <2>8. /\ mem' = [mem EXCEPT ![w].rec = rec, ![w].dups = dups, ![w].keep = keep]
        /\ pc' = [pc EXCEPT ![w] = l]
    BY <1>3, <1>7, <2>3, <2>4, <2>5, <2>7 DEF Find, Goto
  <2>9. mem' = [mem EXCEPT ![w] = k]
    BY <2>6, <2>8 DEF IInv, Shaped
  <2>10. p \in Records(m) /\ p \in DOMAIN rows
    <3>1. IsPreferred(rows, p, m) BY <1>7, <2>1, PickedIsPreferred DEF IInv
    <3> QED BY <1>4, <3>1 DEF IsPreferred, RecordsIn, Table
  <2>11. /\ k.rec = rec /\ k.dups = dups /\ k.gate = mem[w].gate /\ k.keep = keep
         /\ k.last = mem[w].last
    BY <1>2, <2>6 DEF Memory
  <2>12. on <=> m \in settled.enabled BY <1>4, <1>5, <2>2, OnIfARecordIs
  <2>13. /\ l \in {"remove", "select", "merged"} /\ (l = "remove" <=> dups # {})
         /\ l = "merged" => ~keep
    BY <2>7
  <2>14. Standing(rows, settled, l, job[w]) BY <1>5, <2>13 DEF Standing, Late, Resting
  <2>15. Entitled(onboarded, settled, l, job[w], k)
    BY <1>5, <2>11, <2>13, EntitledCarries
  <2>16. Grasping(rows, settled, l, job[w], k)
    <3>1. RecordsIn(rows, m) = dups \cup {p} BY <1>4, <2>3, <2>10
    <3>2. ~keep => rows[p] = [module |-> m, active |-> on] BY <2>3
    <3>3. k.rec.id = p /\ k.rec.active = on BY <2>5, <2>11
    <3>4. normalizeModuleId(job[w].module) = m BY <1>3 DEF Module
    <3> QED BY <1>5, <2>10, <2>11, <2>12, <2>13, <3>1, <3>2, <3>3, <3>4 DEF Grasping
  <2> QED BY <1>1, <2>8, <2>9, <2>14, <2>15, <2>16, MoveMapped
<1> QED BY <1>6, <1>7

LEMMA RemoveMapped ==
  ASSUME IInv, NEW w \in Workers, Follows(w), Remove(w)
  PROVE  Mapped(w)
<1>1. pc[w] = "remove" /\ job' = job /\ onboarded' = onboarded /\ UNCHANGED hist
  BY DEF Remove, hist
<1>2. mem[w] \in Memory /\ mem[w].rec.id \notin mem[w].dups /\ mem[w].rec.module = Module(w)
  BY <1>1, Held DEF IInv, Merging, Formed, Module
<1>3. PICK m \in Modules : m = Module(w) BY <1>1, Held DEF IInv
<1>4. PICK p, D : p = mem[w].rec.id /\ D = mem[w].dups OBVIOUS
<1>5. /\ EnabledIn(rows) = settled.enabled /\ ~mem[w].last
      /\ Entitled(onboarded, settled, "remove", job[w], mem[w])
      /\ RecordsIn(rows, m) = D \cup {p}
      /\ mem[w].rec.active <=> m \in settled.enabled
      /\ ~mem[w].keep => rows[p] = [module |-> m, active |-> mem[w].rec.active]
  BY <1>1, <1>3, <1>4 DEF Follows, Standing, Grasping, Module
<1>6. PICK s : s = [i \in DOMAIN rows \ D |-> rows[i]] OBVIOUS
<1>7. rows' = s BY <1>4, <1>6 DEF Remove
<1>8. DOMAIN s = DOMAIN rows \ D /\ \A i \in DOMAIN s : s[i] = rows[i] BY <1>6
<1>9. PICK k : k = [mem[w] EXCEPT !.dups = {}] OBVIOUS
<1>10. k.rec = mem[w].rec /\ k.gate = mem[w].gate /\ k.last = mem[w].last
  BY <1>2, <1>9 DEF Memory
<1>11. PICK l : l = IF mem[w].keep THEN "select" ELSE "merged" OBVIOUS
<1>12. pc'[w] = l /\ mem'[w] = k /\ settled' = settled /\ answer' = answer
  BY <1>1, <1>9, <1>11 DEF Remove, Goto, hist, IInv, Shaped, TypeOK
<1>13. RecordsIn(s, m) = {p} /\ s[p] = rows[p] /\ p \in DOMAIN s
  <2>1. RecordsIn(s, m) = RecordsIn(rows, m) \ D BY <1>8 DEF RecordsIn
  <2>2. p \in DOMAIN rows BY <1>5 DEF RecordsIn
  <2> QED BY <1>2, <1>4, <1>5, <1>8, <2>1, <2>2
<1>14. EnabledIn(s) \ {m} = settled.enabled \ {m}
  <2>1. \A i \in DOMAIN rows :
          normalizeModuleId(rows[i].module) # m => i \in DOMAIN s /\ s[i] = rows[i]
    BY <1>5, <1>8 DEF RecordsIn
  <2>2. \A i \in DOMAIN s :
          normalizeModuleId(s[i].module) # m => i \in DOMAIN rows /\ s[i] = rows[i]
    BY <1>8
  <2>3. EnabledIn(s) \ {m} = EnabledIn(rows) \ {m} BY <2>1, <2>2 DEF EnabledIn
  <2> QED BY <1>5, <2>3
<1>15. l = "merged" => EnabledIn(s) = settled.enabled
  <2>1. l = "merged" => (s[p].active <=> m \in settled.enabled)
    BY <1>5, <1>11, <1>13
  <2> QED BY <1>13, <1>14, <2>1, OneRecordDecides
<1>16. l \in {"select", "merged"} /\ (l = "merged" => ~mem[w].keep) BY <1>11
<1>17. normalizeModuleId(job[w].module) = m BY <1>3 DEF Module
<1>18. Standing(s, settled, l, job[w])
  BY <1>14, <1>15, <1>16, <1>17 DEF Standing, Late, Resting
<1>19. Entitled(onboarded, settled, l, job[w], k)
  BY <1>5, <1>10, <1>16, EntitledCarries
<1>20. Grasping(s, settled, l, job[w], k)
  BY <1>4, <1>5, <1>10, <1>13, <1>16, <1>17 DEF Grasping
<1> QED BY <1>1, <1>7, <1>12, <1>18, <1>19, <1>20 DEF Mapped, Silent, Follows

LEMMA MergedMapped ==
  ASSUME IInv, NEW w \in Workers, Follows(w), Merged(w)
  PROVE  Mapped(w)
<1>1. pc[w] = "merged" BY DEF Merged
<1>2. mem[w] \in Memory /\ job[w] \in Requests /\ job[w].kind \in About
  BY <1>1, Held DEF IInv, Formed, Resting
<1>3. PICK m \in Modules : m = Module(w) BY <1>1, Held DEF IInv
<1>4. normalizeModuleId(job[w].module) = m BY <1>3 DEF Module
<1>5. /\ EnabledIn(rows) = settled.enabled /\ onboarded = settled.onboarded
      /\ Entitled(onboarded, settled, "merged", job[w], mem[w])
      /\ \/ mem[w].rec = NoRecord /\ RecordsIn(rows, m) = {}
         \/ /\ RecordsIn(rows, m) = {mem[w].rec.id}
            /\ rows[mem[w].rec.id] = [module |-> m, active |-> mem[w].rec.active]
  BY <1>1, <1>4 DEF Follows, Standing, Grasping, Entitled
<1>6. mem[w].rec.active <=> m \in settled.enabled
  <2>1. CASE mem[w].rec = NoRecord /\ RecordsIn(rows, m) = {}
    BY <1>5, <2>1, OnIfARecordIs DEF NoRecord
  <2>2. CASE /\ RecordsIn(rows, m) = {mem[w].rec.id}
             /\ rows[mem[w].rec.id] = [module |-> m, active |-> mem[w].rec.active]
    BY <1>5, <2>2, OnIfARecordIs
  <2> QED BY <1>5, <2>1, <2>2
<1>7. /\ job[w].kind = "complete" => ~mem[w].gate
      /\ job[w].kind = "deactivate" => ~mem[w].gate /\ m \notin Essential
      /\ job[w].kind = "activate" /\ mem[w].gate => IsFull(settled.enabled)
  BY <1>4, <1>5 DEF Entitled, Underway
<1>8. CASE mem[w].gate /\ ~mem[w].rec.active /\ Refuse(w)
  <2>1. job[w].kind = "activate" BY <1>2, <1>7, <1>8 DEF About
  <2>2. m = Named(w) BY <1>3, <2>1 DEF Named
  <2> QED BY <1>5, <1>6, <1>7, <1>8, <2>1, <2>2, RefusalMapped
<1>9. CASE /\ mem[w].gate /\ mem[w].rec.active
           /\ mem' = [mem EXCEPT ![w] = NoMemory]
           /\ Goto(w, "find") /\ UNCHANGED <<disk, job, hist>>
  <2>1. /\ pc' = [pc EXCEPT ![w] = "find"] /\ job' = job
        /\ UNCHANGED <<rows, onboarded, hist>>
    BY <1>9 DEF Goto, disk
  <2>2. Standing(rows, settled, "find", job[w]) BY <1>5 DEF Standing, Late
  <2>3. job[w].kind = "activate" BY <1>2, <1>7, <1>9 DEF About
  <2>4. Entitled(onboarded, settled, "find", job[w], NoMemory)
    BY <1>4, <1>5, <1>6, <1>9, <2>3, NothingHeld DEF Entitled, Late, Underway
  <2>5. Grasping(rows, settled, "find", job[w], NoMemory) BY DEF Grasping, NoMemory
  <2> QED BY <1>9, <2>1, <2>2, <2>4, <2>5, MoveMapped
<1>10. CASE ~mem[w].gate /\ mem[w].rec = NoRecord /\ job[w].kind = "deactivate"
            /\ UNCHANGED disk /\ Reply(w, TRUE)
  <2>1. Follows(w)' BY <1>10, SettledByReply DEF IInv
  <2>2. rows' = rows /\ onboarded' = onboarded BY <1>10 DEF disk
  <2>3. /\ settled'.enabled = settled.enabled /\ settled'.onboarded = settled.onboarded
        /\ answer' = [kind |-> "deactivate", module |-> m, ok |-> TRUE]
    BY <1>3, <1>5, <1>10, <2>2 DEF Reply, Named
  <2>4. m \notin settled.enabled BY <1>6, <1>10 DEF NoRecord
  <2>5. Catalog!Deactivate(m)
    BY <1>7, <1>10, <2>3, <2>4 DEF Catalog!Deactivate, Catalog!Answer
  <2> QED BY <2>1, <2>5 DEF Mapped, Catalog!Next
<1>11. CASE /\ ~mem[w].gate
            /\ mem' = [mem EXCEPT ![w].rec = [id |-> mem[w].rec.id, module |-> Module(w),
                                              active |-> job[w].kind # "deactivate"],
                                  ![w].last = TRUE]
            /\ Goto(w, "select") /\ UNCHANGED <<disk, job, hist>>
  <2>1. PICK on \in BOOLEAN : on = (job[w].kind # "deactivate") OBVIOUS
  <2>2. PICK rec : rec = [id |-> mem[w].rec.id, module |-> m, active |-> on] OBVIOUS
  <2>3. PICK k : k = [mem[w] EXCEPT !.rec = rec, !.last = TRUE] OBVIOUS
  <2>4. rec.id = mem[w].rec.id /\ rec.module = m /\ rec.active = on BY <2>2
  <2>5. k.rec = rec /\ k.gate = mem[w].gate /\ k.last = TRUE
    BY <1>2, <2>3 DEF Memory
  <2>6. mem' = [mem EXCEPT ![w] = k]
    BY <1>3, <1>11, <2>1, <2>2, <2>3 DEF IInv, Shaped
  <2>7. /\ pc' = [pc EXCEPT ![w] = "select"] /\ job' = job
        /\ UNCHANGED <<rows, onboarded, hist>>
    BY <1>11 DEF Goto, disk
  <2>8. Standing(rows, settled, "select", job[w]) BY <1>5 DEF Standing, Late, Resting
  <2>9. Entitled(onboarded, settled, "select", job[w], k) BY <1>5, <2>5, EntitledCarries
  <2>10. /\ rec.id \in DOMAIN rows => RecordsIn(rows, m) = {rec.id}
         /\ rec.id \notin DOMAIN rows => RecordsIn(rows, m) = {}
    <3>1. Fresh \notin DOMAIN rows BY RowsAreATable DEF IInv
    <3>2. RecordsIn(rows, m) \subseteq DOMAIN rows BY DEF RecordsIn
    <3> QED BY <1>5, <2>4, <3>1, <3>2 DEF NoRecord
  <2>11. Grasping(rows, settled, "select", job[w], k)
    BY <1>4, <1>11, <2>1, <2>4, <2>5, <2>10 DEF Grasping
  <2> QED BY <2>6, <2>7, <2>8, <2>9, <2>11, MoveMapped
<1> QED BY <1>8, <1>9, <1>10, <1>11 DEF Merged

LEMMA SelectMapped ==
  ASSUME IInv, NEW w \in Workers, Follows(w), Select(w)
  PROVE  Mapped(w)
<1>1. pc[w] = "select" /\ job' = job /\ UNCHANGED <<rows, onboarded, hist>>
  BY DEF Select, disk
<1>2. mem[w] \in Memory /\ mem[w].rec.module = Module(w)
      /\ Attached(rows, pc[w], job[w], mem[w])
  BY <1>1, Held DEF IInv, Formed, Module, Merging
<1>3. PICK m \in Modules : m = Module(w) BY <1>1, Held DEF IInv
<1>4. normalizeModuleId(job[w].module) = m BY <1>3 DEF Module
<1>5. PICK id, set :
        /\ id = IF mem[w].rec.id = Fresh THEN UnusedId ELSE mem[w].rec.id
        /\ set = IF id \notin DOMAIN rows THEN {"id", "module", "active"}
                 ELSE {c \in {"module", "active"} : mem[w].rec[c] # rows[id][c]}
  OBVIOUS
<1>6. PICK l : l = IF set # {} THEN "write" ELSE IF mem[w].last THEN "saved" ELSE "merged"
  OBVIOUS
<1>7. PICK k : k = [mem[w] EXCEPT !.rec = [@ EXCEPT !.id = id], !.set = set] OBVIOUS
<1>8. /\ mem' = [mem EXCEPT ![w].rec.id = id, ![w].set = set]
      /\ pc' = [pc EXCEPT ![w] = l]
  BY <1>5, <1>6 DEF Select, Goto
<1>9. mem' = [mem EXCEPT ![w] = k] BY <1>7, <1>8 DEF IInv, Shaped
<1>10. Fresh \notin DOMAIN rows /\ Table(rows) BY RowsAreATable DEF IInv
<1>11. id \in DOMAIN rows <=> mem[w].rec.id \in DOMAIN rows
  <2>1. mem[w].rec.id = Fresh => UnusedIds # {} BY DEF Select
  <2>2. UnusedIds # {} => UnusedId \in UnusedIds BY DEF UnusedId
  <2>3. mem[w].rec.id = Fresh => id \notin DOMAIN rows BY <1>5, <2>1, <2>2 DEF UnusedIds
  <2> QED BY <1>5, <1>10, <2>3
<1>12. id \in DOMAIN rows => id = mem[w].rec.id BY <1>5, <1>10, <1>11
<1>13. /\ k.rec.id = id /\ k.rec.module = m /\ k.rec.active = mem[w].rec.active
       /\ k.set = set /\ k.gate = mem[w].gate /\ k.last = mem[w].last
  BY <1>2, <1>3, <1>7 DEF Memory, Record
<1>14. /\ EnabledIn(rows) \ {m} = settled.enabled \ {m}
       /\ Entitled(onboarded, settled, "select", job[w], mem[w])
       /\ id \in DOMAIN rows => RecordsIn(rows, m) = {id}
       /\ id \notin DOMAIN rows => RecordsIn(rows, m) = {} /\ k.last
       /\ k.last => ~k.gate /\ (k.rec.active <=> job[w].kind # "deactivate")
       /\ ~k.last => (k.rec.active <=> m \in settled.enabled)
  BY <1>1, <1>4, <1>11, <1>12, <1>13 DEF Follows, Standing, Grasping
<1>15. /\ id \notin DOMAIN rows <=> "id" \in set
       /\ id \in DOMAIN rows =>
            /\ "module" \notin set => rows[id].module = m
            /\ "active" \notin set => rows[id].active = k.rec.active
       /\ id \notin DOMAIN rows => set # {}
  BY <1>2, <1>3, <1>5, <1>12, <1>13
<1>16. /\ l \in {"write", "saved", "merged"} /\ (l = "write" <=> set # {})
       /\ (l = "saved" => k.last) /\ (l = "merged" => ~k.last)
  BY <1>6, <1>13
<1>17. l # "write" => /\ id \in DOMAIN rows
                      /\ rows[id] = [module |-> m, active |-> k.rec.active]
  <2>1. l # "write" => id \in DOMAIN rows /\ rows[id].module = m
                       /\ rows[id].active = k.rec.active
    BY <1>15, <1>16
  <2>2. id \in DOMAIN rows => rows[id] \in TenantModule BY <1>10 DEF Table
  <2> QED BY <2>1, <2>2 DEF TenantModule
<1>18. /\ l = "merged" => EnabledIn(rows) = settled.enabled
       /\ l = "saved" => EnabledIn(rows) = IF job[w].kind = "deactivate"
                                           THEN settled.enabled \ {m}
                                           ELSE settled.enabled \cup {m}
  <2>1. ASSUME l # "write"
        PROVE  EnabledIn(rows) = IF rows[id].active THEN settled.enabled \cup {m}
                                 ELSE settled.enabled \ {m}
    BY <1>14, <1>17, <2>1, OneRecordDecides
  <2>2. l = "merged" => (rows[id].active <=> m \in settled.enabled)
    BY <1>14, <1>16, <1>17
  <2>3. l = "saved" => (rows[id].active <=> job[w].kind # "deactivate")
    BY <1>14, <1>16, <1>17
  <2> QED BY <2>1, <2>2, <2>3
<1>19. Standing(rows, settled, l, job[w])
  BY <1>4, <1>14, <1>16, <1>18 DEF Standing, Late, Resting
<1>20. Entitled(onboarded, settled, l, job[w], k)
  BY <1>13, <1>14, <1>16, EntitledCarries
<1>21. Grasping(rows, settled, l, job[w], k)
  BY <1>4, <1>13, <1>14, <1>15, <1>16, <1>17 DEF Grasping
<1> QED BY <1>1, <1>8, <1>9, <1>19, <1>20, <1>21, MoveMapped

\* With one request at a time a save violates nothing, and leaves the module with the
\* record that was to be saved.
LEMMA WriteSettles ==
  ASSUME IInv, NEW w \in Workers, Follows(w), Write(w), NEW m \in Modules, m = Module(w)
  PROVE  /\ ~Violates(w)
         /\ RecordsIn(rows', m) = {mem[w].rec.id} /\ mem[w].rec.id \in DOMAIN rows'
         /\ rows'[mem[w].rec.id] = [module |-> m, active |-> mem[w].rec.active]
         /\ EnabledIn(rows') \ {m} = settled.enabled \ {m}
<1>1. pc[w] = "write" BY DEF Write
<1>2. /\ mem[w] \in Memory /\ mem[w].rec \in Record /\ mem[w].rec.module = m
      /\ "id" \in mem[w].set => mem[w].set = Columns
  BY <1>1, Held DEF IInv, Formed, Module
<1>3. PICK p, set, on :
        p = mem[w].rec.id /\ set = mem[w].set /\ on = mem[w].rec.active
  OBVIOUS
<1>4. Table(rows) BY RowsAreATable DEF IInv
<1>5. /\ EnabledIn(rows) \ {m} = settled.enabled \ {m}
      /\ p \in DOMAIN rows => RecordsIn(rows, m) = {p}
      /\ p \notin DOMAIN rows => RecordsIn(rows, m) = {}
      /\ p \notin DOMAIN rows <=> "id" \in set
      /\ p \in DOMAIN rows => /\ "module" \notin set => rows[p].module = m
                              /\ "active" \notin set => rows[p].active = on
  BY <1>1, <1>3 DEF Follows, Standing, Grasping, Module
<1>6. \A i \in DOMAIN rows \ {p} : normalizeModuleId(rows[i].module) # m
  BY <1>5 DEF RecordsIn
<1>7. \A i \in DOMAIN rows \ {p} : rows[i].module # m BY <1>6, Canonical
<1>8. ~Violates(w) BY <1>2, <1>3, <1>5, <1>7 DEF Violates
<1>9. rows' = [i \in DOMAIN rows \cup (IF "id" \in set THEN {p} ELSE {}) |->
                 IF i # p THEN rows[i]
                 ELSE [module |-> IF "module" \in set THEN m ELSE rows[i].module,
                       active |-> IF "active" \in set THEN on ELSE rows[i].active]]
  BY <1>2, <1>3, <1>8 DEF Write
<1>10. DOMAIN rows' = DOMAIN rows \cup {p} BY <1>5, <1>9
<1>11. "id" \in set => "module" \in set /\ "active" \in set BY <1>2, <1>3 DEF Columns
<1>12. rows'[p] = [module |-> m, active |-> on]
       /\ \A i \in DOMAIN rows \ {p} : rows'[i] = rows[i]
  BY <1>5, <1>9, <1>10, <1>11
<1>13. RecordsIn(rows', m) = {p}
  BY <1>6, <1>10, <1>12, Canonical DEF RecordsIn
<1>14. EnabledIn(rows') \ {m} = EnabledIn(rows) \ {m}
  <2>1. \A i \in DOMAIN rows :
          normalizeModuleId(rows[i].module) # m => i \in DOMAIN rows' /\ rows'[i] = rows[i]
    <3>1. p \in DOMAIN rows => normalizeModuleId(rows[p].module) = m
      BY <1>5 DEF RecordsIn
    <3> QED BY <1>10, <1>12, <3>1
  <2>2. \A i \in DOMAIN rows' :
          normalizeModuleId(rows'[i].module) # m => i \in DOMAIN rows /\ rows'[i] = rows[i]
    BY <1>10, <1>12, Canonical
  <2> QED BY <2>1, <2>2 DEF EnabledIn
<1> QED BY <1>3, <1>5, <1>8, <1>10, <1>12, <1>13, <1>14

LEMMA WriteMapped ==
  ASSUME IInv, NEW w \in Workers, Follows(w), Write(w)
  PROVE  Mapped(w)
<1>1. pc[w] = "write" BY DEF Write
<1>2. PICK m \in Modules : m = Module(w) BY <1>1, Held DEF IInv
<1>3. normalizeModuleId(job[w].module) = m BY <1>2 DEF Module
<1>4. PICK p : p = mem[w].rec.id OBVIOUS
<1>5. /\ ~Violates(w)
      /\ RecordsIn(rows', m) = {p} /\ p \in DOMAIN rows'
      /\ rows'[p] = [module |-> m, active |-> mem[w].rec.active]
      /\ EnabledIn(rows') \ {m} = settled.enabled \ {m}
  BY <1>2, <1>4, WriteSettles
<1>6. PICK l : l = IF mem[w].last THEN "saved" ELSE "merged" OBVIOUS
<1>7. /\ pc' = [pc EXCEPT ![w] = l] /\ job' = job /\ mem' = mem
      /\ onboarded' = onboarded /\ settled' = settled /\ answer' = answer
  BY <1>5, <1>6 DEF Write, Goto, hist
<1>8. pc'[w] = l BY <1>7 DEF IInv, Shaped, TypeOK
<1>9. /\ Entitled(onboarded, settled, "write", job[w], mem[w])
      /\ mem[w].last => ~mem[w].gate /\ (mem[w].rec.active <=> job[w].kind # "deactivate")
      /\ ~mem[w].last => (mem[w].rec.active <=> m \in settled.enabled)
  BY <1>1, <1>3 DEF Follows, Grasping
<1>10. l \in {"saved", "merged"} /\ (l = "saved" <=> mem[w].last) BY <1>6
<1>11. EnabledIn(rows') = IF rows'[p].active THEN settled.enabled \cup {m}
                          ELSE settled.enabled \ {m}
  <2>1. PICK s : s = rows' OBVIOUS
  <2>2. RecordsIn(s, m) = {p} /\ EnabledIn(s) \ {m} = settled.enabled \ {m} BY <1>5, <2>1
  <2>3. EnabledIn(s) = IF s[p].active THEN settled.enabled \cup {m} ELSE settled.enabled \ {m}
    BY <2>2, OneRecordDecides
  <2> QED BY <2>1, <2>3
<1>12. rows'[p].active <=> mem[w].rec.active BY <1>5
<1>13. /\ l = "merged" => EnabledIn(rows') = settled.enabled
       /\ l = "saved" => EnabledIn(rows') = IF job[w].kind = "deactivate"
                                            THEN settled.enabled \ {m}
                                            ELSE settled.enabled \cup {m}
  BY <1>9, <1>10, <1>11, <1>12
<1>14. Standing(rows', settled, l, job[w]) BY <1>3, <1>10, <1>13 DEF Standing, Late, Resting
<1>15. Entitled(onboarded, settled, l, job[w], mem[w]) BY <1>9, <1>10, EntitledCarries
<1>16. Grasping(rows', settled, l, job[w], mem[w])
  BY <1>3, <1>4, <1>5, <1>9, <1>10 DEF Grasping
<1> QED BY <1>7, <1>8, <1>14, <1>15, <1>16 DEF Mapped, Silent, Follows

LEMMA SavedMapped ==
  ASSUME IInv, NEW w \in Workers, Follows(w), Saved(w)
  PROVE  Mapped(w)
<1>1. pc[w] = "saved" /\ onboarded' = onboarded /\ rows' = rows
  BY DEF Saved, disk
<1>2. PICK m \in Modules : m = Module(w) BY <1>1, Held DEF IInv
<1>3. normalizeModuleId(job[w].module) = m BY <1>2 DEF Module
<1>4. job[w].kind \in About BY <1>1, Held DEF IInv, Formed
<1>5. /\ EnabledIn(rows) = IF job[w].kind = "deactivate" THEN settled.enabled \ {m}
                           ELSE settled.enabled \cup {m}
      /\ onboarded = settled.onboarded
      /\ Entitled(onboarded, settled, "saved", job[w], mem[w])
  BY <1>1, <1>3 DEF Follows, Standing, Entitled
<1>6. /\ job[w].kind = "complete" => m \in Suggested \ Essential /\ ~IsFull(settled.enabled)
                                     /\ ~settled.onboarded
      /\ job[w].kind = "deactivate" => m \notin Essential
      /\ job[w].kind = "activate" => m \in settled.enabled \/ ~IsFull(settled.enabled)
                                     \/ mem[w].gate
  BY <1>3, <1>5 DEF Entitled, Underway
<1>7. CASE Reply(w, TRUE) /\ job[w].kind # "complete"
  <2>1. /\ settled'.enabled = EnabledIn(rows) /\ settled'.onboarded = settled.onboarded
        /\ answer' = [kind |-> job[w].kind, module |-> m, ok |-> TRUE]
    BY <1>1, <1>2, <1>5, <1>7 DEF Reply, Named
  <2>2. Follows(w)' BY <1>7, SettledByReply DEF IInv
  <2>3. CASE job[w].kind = "deactivate"
    <3>1. Catalog!Deactivate(m)
      BY <1>5, <1>6, <2>1, <2>3 DEF Catalog!Deactivate, Catalog!Answer
    <3> QED BY <2>2, <3>1 DEF Mapped, Catalog!Next
  <2>4. CASE job[w].kind = "activate"
    <3>1. ~mem[w].gate BY <1>1 DEF Follows, Grasping
    <3>2. Catalog!MayActivate(m)
      BY <1>6, <2>4, <3>1, FullAlike DEF Catalog!MayActivate
    <3>3. Catalog!Activate(m)
      BY <1>5, <2>1, <2>4, <3>2 DEF Catalog!Activate, Catalog!Answer
    <3> QED BY <2>2, <3>3 DEF Mapped, Catalog!Next
  <2> QED BY <1>4, <1>7, <2>3, <2>4 DEF About
<1>8. CASE job[w].kind = "complete" /\ Goto(w, "tenant") /\ UNCHANGED <<job, mem, hist>>
  <2>1. /\ pc' = [pc EXCEPT ![w] = "tenant"] /\ mem' = [mem EXCEPT ![w] = mem[w]]
    BY <1>8 DEF Goto, IInv, Shaped
  <2>2. Standing(rows, settled, "tenant", job[w])
    BY <1>3, <1>5, <1>8 DEF Standing, Late, Resting
  <2>3. Entitled(onboarded, settled, "tenant", job[w], mem[w])
    BY <1>5, <1>8 DEF Entitled, Underway, Late
  <2>4. Grasping(rows, settled, "tenant", job[w], mem[w]) BY DEF Grasping
  <2> QED BY <1>1, <1>8, <2>1, <2>2, <2>3, <2>4, MoveMapped
<1> QED BY <1>4, <1>7, <1>8 DEF Saved, About

LEMMA ReadTenantMapped ==
  ASSUME IInv, NEW w \in Workers, Follows(w), ReadTenant(w)
  PROVE  Mapped(w)
<1>1. pc[w] = "tenant" /\ job' = job /\ UNCHANGED <<rows, onboarded, hist>>
  BY DEF ReadTenant, disk
<1>2. PICK config : config = IF job[w].kind # "configure" THEN TRUE
                             ELSE IF job[w].flag = None THEN onboarded ELSE job[w].flag = "on"
  OBVIOUS
<1>3. PICK k : k = [mem[w] EXCEPT !.config = config] OBVIOUS
<1>4. mem[w] \in Memory BY Held DEF IInv
<1>5. k.config = config /\ k.gate = mem[w].gate BY <1>3, <1>4 DEF Memory
<1>6. /\ pc' = [pc EXCEPT ![w] = "compare"] /\ mem' = [mem EXCEPT ![w] = k]
  BY <1>2, <1>3 DEF ReadTenant, Goto, IInv, Shaped
<1>7. /\ Standing(rows, settled, "tenant", job[w])
      /\ Entitled(onboarded, settled, "tenant", job[w], mem[w])
  BY <1>1 DEF Follows
<1>8. Standing(rows, settled, "compare", job[w]) BY <1>7 DEF Standing, Late, Resting
<1>9. Entitled(onboarded, settled, "compare", job[w], k)
  BY <1>2, <1>5, <1>7 DEF Entitled, Late, Underway
<1>10. Grasping(rows, settled, "compare", job[w], k) BY DEF Grasping
<1> QED BY <1>1, <1>6, <1>8, <1>9, <1>10, MoveMapped

LEMMA CompareTenantMapped ==
  ASSUME IInv, NEW w \in Workers, Follows(w), CompareTenant(w)
  PROVE  Mapped(w)
<1>1. pc[w] = "compare" /\ job' = job /\ mem' = mem /\ UNCHANGED <<rows, onboarded, hist>>
  BY DEF CompareTenant, disk
<1>2. PICK l : l = IF mem[w].config # onboarded THEN "store" ELSE "report" OBVIOUS
<1>3. pc' = [pc EXCEPT ![w] = l] /\ mem' = [mem EXCEPT ![w] = mem[w]]
  BY <1>1, <1>2 DEF CompareTenant, Goto, IInv, Shaped
<1>4. /\ Standing(rows, settled, "compare", job[w])
      /\ Entitled(onboarded, settled, "compare", job[w], mem[w])
  BY <1>1 DEF Follows
<1>5. l \in {"store", "report"} /\ (l = "report" => onboarded = mem[w].config) BY <1>2
<1>6. Standing(rows, settled, l, job[w]) BY <1>4, <1>5 DEF Standing, Late, Resting
<1>7. Entitled(onboarded, settled, l, job[w], mem[w])
  BY <1>4, <1>5 DEF Entitled, Late, Underway
<1>8. Grasping(rows, settled, l, job[w], mem[w]) BY <1>5 DEF Grasping
<1> QED BY <1>1, <1>3, <1>6, <1>7, <1>8, MoveMapped

LEMMA StoreTenantMapped ==
  ASSUME IInv, NEW w \in Workers, Follows(w), StoreTenant(w)
  PROVE  Mapped(w)
<1>1. /\ pc[w] = "store" /\ pc'[w] = "report" /\ onboarded' = mem[w].config
      /\ rows' = rows /\ job' = job /\ mem' = mem /\ settled' = settled /\ answer' = answer
  BY DEF StoreTenant, Goto, hist, IInv, Shaped, TypeOK
<1>2. /\ Standing(rows, settled, "store", job[w])
      /\ Entitled(onboarded, settled, "store", job[w], mem[w])
  BY <1>1 DEF Follows
<1>3. Standing(rows, settled, "report", job[w]) BY <1>2 DEF Standing, Late, Resting
<1>4. Entitled(mem[w].config, settled, "report", job[w], mem[w])
  BY <1>2 DEF Entitled, Late, Underway
<1>5. Grasping(rows, settled, "report", job[w], mem[w]) BY DEF Grasping
<1> QED BY <1>1, <1>3, <1>4, <1>5 DEF Mapped, Silent, Follows

LEMMA ReportMapped ==
  ASSUME IInv, NEW w \in Workers, Follows(w), Report(w)
  PROVE  Mapped(w)
<1>1. /\ pc[w] = "report" /\ rows' = rows /\ onboarded' = onboarded /\ Reply(w, TRUE)
  BY DEF Report, disk
<1>2. job[w] \in Requests BY <1>1, Held DEF IInv, Formed, Resting
<1>3. PICK m : m = Module(w) OBVIOUS
<1>4. /\ EnabledIn(rows) = IF job[w].kind = "complete" THEN settled.enabled \cup {m}
                           ELSE settled.enabled
      /\ onboarded = mem[w].config /\ job[w].kind \in {"complete", "skip", "configure"}
      /\ job[w].kind # "configure" => mem[w].config
      /\ job[w].kind # "configure" => ~settled.onboarded
      /\ job[w].kind = "complete" => m \in Suggested \ Essential /\ ~IsFull(settled.enabled)
                                     /\ job[w].module = m
  BY <1>1, <1>3 DEF Follows, Standing, Entitled, Late, Underway, Module
<1>5. /\ job[w].kind = "complete" => m \in Modules
      /\ job[w].kind # "complete" => m = None
  BY <1>2, <1>3, <1>4, Kinded DEF About, Module
<1>6. /\ settled'.enabled = EnabledIn(rows) /\ settled'.onboarded = onboarded
      /\ answer' = [kind |-> job[w].kind, module |-> m, ok |-> TRUE]
  BY <1>1, <1>3, <1>4 DEF Reply, Named
<1>7. Follows(w)' BY <1>1, SettledByReply DEF IInv
<1>8. onboarded \in BOOLEAN BY DEF IInv, Shaped, TypeOK
<1>9. CASE job[w].kind = "complete"
  <2>1. Catalog!MayComplete(m) BY <1>4, <1>9, FullAlike DEF Catalog!MayComplete
  <2>2. Catalog!Complete(m)
    BY <1>4, <1>6, <1>8, <1>9, <2>1 DEF Catalog!Complete, Catalog!Answer
  <2> QED BY <1>5, <1>7, <1>9, <2>2 DEF Mapped, Catalog!Next
<1>10. CASE job[w].kind = "skip"
  <2>1. Catalog!Skip
    BY <1>4, <1>5, <1>6, <1>8, <1>10 DEF Catalog!Skip, Catalog!Answer, None
  <2> QED BY <1>7, <2>1 DEF Mapped, Catalog!Next
<1>11. CASE job[w].kind = "configure"
  <2>1. Catalog!Configure
    BY <1>4, <1>5, <1>6, <1>8, <1>11 DEF Catalog!Configure, Catalog!Answer, None
  <2> QED BY <1>7, <2>1 DEF Mapped, Catalog!Next
<1> QED BY <1>4, <1>9, <1>10, <1>11

LEMMA StepMapped ==
  ASSUME IInv, NEW w, Workers = {w}, ~MayFail, Follows(w), Next
  PROVE  Mapped(w)
<1>1. w \in Workers OBVIOUS
<1>2. ASSUME NEW q \in Requests, Begin(w, q) PROVE Mapped(w)
  BY <1>1, <1>2, BeginMapped
<1>3. ASSUME Step(w) PROVE Mapped(w)
  BY <1>1, <1>3, BlockedMapped, ReadFlagMapped, CheckUsageMapped, CountMapped, FindMapped,
     RemoveMapped, MergedMapped, SelectMapped, WriteMapped, SavedMapped, ReadTenantMapped,
     CompareTenantMapped, StoreTenantMapped, ReportMapped DEF Step
<1> QED BY <1>1, <1>2, <1>3 DEF Next, Fail

\* One request at a time and without failures, the three awaits of a merge, the save
\* and the save of the tenant (tenant-module.service.ts:107-312,
\* onboarding.service.ts:46-130) do to the tenant's modules at once what the catalog
\* promises, for any aliases, tables, limits and requests.
THEOREM CatalogIsKept ==
  ASSUME NEW w, Workers = {w}, ~MayFail
  PROVE  Spec => ImplementsCatalog
<1>1. w \in Workers OBVIOUS
<1>2. Init => Follows(w) /\ Catalog!Init
  <2> SUFFICES ASSUME Init PROVE Follows(w) /\ Catalog!Init
    OBVIOUS
  <2>1. pc[w] = "idle" /\ mem[w] = NoMemory BY <1>1 DEF Init
  <2>2. settled = [enabled |-> EnabledIn(rows), onboarded |-> onboarded]
    BY DEF Init, Enabled
  <2>3. Follows(w)
    BY <2>1, <2>2 DEF Follows, Standing, Entitled, Grasping, Resting, Late, Underway
  <2>4. Catalog!Init
    BY <2>2 DEF Init, Catalog!Init, Catalog!Answer, None
  <2> QED BY <2>3, <2>4
<1>3. IInv /\ Follows(w) /\ [Next]_vars => Follows(w)' /\ [Catalog!Next]_(Catalog!vars)
  <2> SUFFICES ASSUME IInv, Follows(w), [Next]_vars
               PROVE  Follows(w)' /\ [Catalog!Next]_(Catalog!vars)
    OBVIOUS
  <2>1. CASE Next
    <3>1. Mapped(w) BY <2>1, StepMapped
    <3>2. Silent => UNCHANGED Catalog!vars BY DEF Silent, Catalog!vars
    <3> QED BY <3>1, <3>2 DEF Mapped
  <2>2. CASE UNCHANGED vars
    <3>1. UNCHANGED <<rows, onboarded, pc, job, mem, settled, answer>>
      BY <2>2 DEF vars, disk, hist
    <3>2. Follows(w)' BY <3>1 DEF Follows
    <3> QED BY <3>1, <3>2 DEF Catalog!vars
  <2> QED BY <2>1, <2>2
<1> QED BY <1>2, <1>3, Invariant, PTL DEF Spec, ImplementsCatalog, Catalog!Spec

=============================================================================
