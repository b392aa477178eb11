--------------------------- MODULE FulfilmentProofs ---------------------------
(***************************************************************************)
(* Orders have one delivery and revenue is earned, for any requests.       *)
(*                                                                         *)
(* The inductive invariant has four layers: the shapes of what a worker    *)
(* plans and holds; that locks keep two transactions from naming one order *)
(* (so that what each of them SEES has one delivery per order, and so has  *)
(* what remains when another commits); that every credit still to be       *)
(* announced is a completion already committed; and what holds as long as  *)
(* requests are served one at a time.                                      *)
(***************************************************************************)
EXTENDS Fulfilment, FiniteSetTheorems, SequenceTheorems, TLAPS

Stages == {"find", "diff", "write", "findOrder", "commit", "log", "announce"}
InFlight(w) == pc[w] \notin Resting

Value == OrderStatus \cup DeliveryStatus \cup Drivers \cup Orders \cup {None}
Statement == [row : Rows, set : UNION {[C -> Value] : C \in SUBSET Columns}]
StatusOf(x) == OrderStatus \cup (IF x \in Orders THEN {} ELSE DeliveryStatus)

\* Columns that may be set in a row.
Fits(x, cols) ==
  /\ DOMAIN cols \subseteq Columns
  /\ "status" \in DOMAIN cols => cols["status"] \in StatusOf(x)
  /\ "driver" \in DOMAIN cols => cols["driver"] \in Drivers \cup {None}
  /\ "order" \in DOMAIN cols => cols["order"] \in Orders \cup {None}
                                /\ (x \in Orders => cols["order"] = None)

\* The types that TypeOK leaves to the shape of the actions.
Typed ==
  /\ live \subseteq Deliveries /\ db \in [Rows -> Row]
  /\ \A o \in Orders : db[o].status \in OrderStatus /\ db[o].order = None
  /\ \A d \in Deliveries \ live : db[d].order = None
  /\ credits \in [Orders -> Nat] /\ completions \in [Orders -> Nat]
  /\ begun \in 0..MaxRequests /\ {reverted, overlap} \subseteq BOOLEAN
  /\ pc \in [Workers -> Resting \cup Stages]
  /\ job \in [Workers -> Request \cup {NoRequest}]
  /\ todo \in [Workers -> Seq(Statement)]
  /\ dirty \in [Workers -> BOOLEAN]
  /\ DOMAIN snap = Workers /\ DOMAIN buf = Workers

\* The entity of a request: an order with its delivery, or a delivery with its order.
Loadable(q, e) ==
  /\ q.kind \in OrderKinds => q.target \in Orders
  /\ q.kind \in DeliveryKinds \ {"complete"} => q.target \in Deliveries
  /\ q.kind = "complete" => q.target \in Rows
  /\ e.status \in StatusOf(q.target) /\ e.driver \in Drivers \cup {None}
  /\ e.link \in (IF q.target \in Orders THEN Deliveries ELSE Orders) \cup {None}

\* What a worker holds.
Formed(w) ==
  /\ snap[w].link \in Rows \cup {None}
  /\ DOMAIN buf[w] \subseteq Rows
  /\ \A x \in DOMAIN buf[w] : Fits(x, buf[w][x])
  /\ \A k \in DOMAIN todo[w] : Fits(todo[w][k].row, todo[w][k].set)
  /\ pc[w] = "write" <=> todo[w] # <<>>
  /\ ~InFlight(w) => job[w] = NoRequest /\ buf[w] = Empty /\ ~dirty[w]
  /\ InFlight(w) => job[w].kind # None
  /\ pc[w] = "find" => job[w] \in Requests /\ job[w].kind # "create" /\ buf[w] = Empty
  /\ pc[w] = "diff" /\ (job[w].target \in Deliveries \/ job[w].kind # "complete") =>
       buf[w] = Empty
  /\ InFlight(w) /\ pc[w] # "find" /\ job[w].kind # "create" => Loadable(job[w], snap[w])
  /\ pc[w] \in {"diff", "findOrder", "log", "announce"} => job[w].kind # "create"
  /\ pc[w] = "findOrder" => /\ job[w].kind = "complete" /\ job[w].target \in Deliveries
                            /\ snap[w].link # None
  /\ pc[w] \in {"log", "announce"} => job[w].kind = "complete" /\ buf[w] = Empty

-----------------------------------------------------------------------------
(* One delivery for each order                                             *)

\* The deliveries a transaction sees.
View(w) == live \cup (Deliveries \cap DOMAIN buf[w])

\* In what a transaction sees, an order has one delivery.
Unique(w) ==
  \A c, d \in View(w) : Seen(w, c).order # None /\ Seen(w, c).order = Seen(w, d).order => c = d

\* Two transactions hold different rows, and name different orders.
Apart(v, w) ==
  /\ DOMAIN buf[v] \cap DOMAIN buf[w] = {}
  /\ \A c \in DOMAIN buf[v], d \in DOMAIN buf[w] :
       SetsOrder(buf[v][c]) /\ SetsOrder(buf[w][d]) /\ buf[v][c].order # None =>
         buf[v][c].order # buf[w][d].order

-----------------------------------------------------------------------------
(* Credits                                                                 *)

\* The requests that may still record a credit for an order.
Announcing(o) == {w \in Workers : pc[w] \in {"log", "announce"} /\ job[w].target = o}

Earned(o) ==
  /\ IsFiniteSet(Announcing(o))
  /\ credits[o] + Cardinality(Announcing(o)) <= completions[o]

-----------------------------------------------------------------------------
(* One request at a time                                                   *)

\* The order has a delivery, or its transaction is about to give it one.
Covered(w, o) ==
  \/ \E d \in View(w) : Seen(w, d).order = o
  \/ \E k \in DOMAIN todo[w] :
       /\ todo[w][k].row \in Deliveries
       /\ SetsOrder(todo[w][k].set) /\ todo[w][k].set["order"] = o

\* A transaction sends an order on its way only with a delivery.
Accompanied(w) ==
  \A o \in Orders :
    \/ Seen(w, o).status = "IN_ROUTE"
    \/ \E k \in DOMAIN todo[w] :
         todo[w][k].row = o /\ "status" \in DOMAIN todo[w][k].set /\ todo[w][k].set["status"] = "IN_ROUTE"
    => Covered(w, o)

\* It cuts no delivery off, and updates no row twice.
Harmless(w) ==
  /\ \A j, k \in DOMAIN todo[w] : todo[w][j].row = todo[w][k].row => j = k
  /\ \A k \in DOMAIN todo[w] :
       LET s == todo[w][k] IN
       s.row \in View(w) /\ SetsOrder(s.set) => Seen(w, s.row).order = None

\* What a request can rely on when it is the only one.
Undisturbed(w) ==
  /\ \A v \in Workers \ {w} : ~InFlight(v)
  /\ ~dirty[w]
  /\ pc[w] = "diff" => snap[w] = Loaded(job[w].target)
  /\ Accompanied(w)
  /\ Harmless(w)

Serial ==
  /\ ~reverted
  /\ \A o \in Orders : db[o].status = "IN_ROUTE" => \E d \in live : db[d].order = o
  /\ \A w \in Workers : InFlight(w) => Undisturbed(w)

-----------------------------------------------------------------------------

Locked ==
  /\ \A w \in Workers : Unique(w)
  /\ \A v, w \in Workers : v # w => Apart(v, w)

IInv ==
  /\ Typed
  /\ \A w \in Workers : Formed(w)
  /\ OneDeliveryPerOrder /\ Locked
  /\ \A o \in Orders : Earned(o)
  /\ ~overlap => Serial

-----------------------------------------------------------------------------
(* Lemmas                                                                  *)

USE DEF Rows, OrderKinds, DeliveryKinds, Resting, Stages

\* A row with some columns set is a row.
LEMMA MergedType ==
  ASSUME NEW x \in Rows, NEW cols, db[x] \in Row, Fits(x, cols),
         x \in Orders => db[x].status \in OrderStatus /\ db[x].order = None
  PROVE  /\ Merged(x, cols) \in Row
         /\ x \in Orders => Merged(x, cols).status \in OrderStatus /\ Merged(x, cols).order = None
BY DEF Fits, StatusOf, Merged, Row, Columns

\* So is what a transaction sees.
LEMMA SeenType ==
  ASSUME Typed, NEW w \in Workers, Formed(w), NEW x \in Rows
  PROVE  /\ Seen(w, x) \in Row
         /\ x \in Orders => Seen(w, x).status \in OrderStatus /\ Seen(w, x).order = None
<1>1. db[x] \in Row /\ (x \in Orders => db[x].status \in OrderStatus /\ db[x].order = None)
  BY DEF Typed
<1>2. x \in DOMAIN buf[w] => Fits(x, buf[w][x])
  BY DEF Formed
<1> QED BY <1>1, <1>2, MergedType DEF Seen

\* What findOne loads is an entity of its kind.
LEMMA LoadedType ==
  ASSUME Typed, NEW x \in Orders \cup live
  PROVE  /\ Loaded(x).status \in StatusOf(x) /\ Loaded(x).driver \in Drivers \cup {None}
         /\ Loaded(x).link \in (IF x \in Orders THEN Deliveries ELSE Orders) \cup {None}
<1>1. db[x] \in Row /\ (x \in Orders => db[x].status \in OrderStatus)
  BY DEF Typed
<1>2. LinkOf(x) \in Deliveries \cup {None}
  BY DEF LinkOf, Typed
<1> QED BY <1>1, <1>2 DEF Loaded, StatusOf, Row

\* The columns a handler wants fit the row they are for.
LEMMA WantedType ==
  ASSUME Typed, NEW q \in Request, NEW e, Loadable(q, e), q.kind # "create"
  PROVE  /\ Wanted(q, e)["status"] \in StatusOf(q.target)
         /\ Wanted(q, e)["driver"] \in Drivers \cup {None}
         /\ Wanted(q, e)["order"] \in Orders \cup {None}
         /\ q.target \in Orders => Wanted(q, e)["order"] = None
<1>1. StatusAfter(q, e) \in StatusOf(q.target)
  BY IdAssumption DEF StatusAfter, StatusOf, Assigned, Request, Loadable, OrderStatus, DeliveryStatus
<1>2. DriverAfter(q, e) \in Drivers \cup {None}
  BY DEF DriverAfter, Request, Loadable
<1>3. q.target \in Deliveries => LinkAfter(q, e) \in Orders \cup {None}
  BY IdAssumption DEF LinkAfter, Request, Loadable
<1> QED BY <1>1, <1>2, <1>3, IdAssumption DEF Wanted

\* save updates the row of the entity, with the columns that differ.
LEMMA UpdateShape ==
  ASSUME Typed, NEW q \in Request, NEW e, Loadable(q, e), q.kind # "create"
  PROVE  /\ Update(q, e) \in Seq(Statement) /\ Len(Update(q, e)) <= 1
         /\ \A k \in DOMAIN Update(q, e) :
              /\ Update(q, e)[k].row = q.target
              /\ Update(q, e)[k].set = [c \in Differing(q, e) |-> Wanted(q, e)[c]]
              /\ Fits(q.target, Update(q, e)[k].set)
<1> DEFINE set == [c \in Differing(q, e) |-> Wanted(q, e)[c]]
<1>1. Differing(q, e) \subseteq Columns
  BY DEF Differing
<1>2. q.target \in Rows
  BY DEF Loadable, Request
<1>3. Fits(q.target, set)
  BY <1>1, <1>2, WantedType DEF Fits, Columns
<1>4. set \in [Differing(q, e) -> Value]
  BY <1>1, WantedType DEF Value, Columns, StatusOf
<1>5. [row |-> q.target, set |-> set] \in Statement
  BY <1>1, <1>2, <1>4 DEF Statement
<1> QED BY <1>3, <1>5 DEF Update

\* A save of an order cuts one delivery off, or ties one to it.
LEMMA RelinkShape ==
  ASSUME Typed, NEW q \in Request, NEW e, Loadable(q, e)
  PROVE  /\ Relink(q, e) \in Seq(Statement) /\ Len(Relink(q, e)) <= 1
         /\ \A k \in DOMAIN Relink(q, e) : Fits(Relink(q, e)[k].row, Relink(q, e)[k].set)
<1>1. CASE q.kind \notin OrderKinds \/ e.link = LinkOf(q.target)
  BY <1>1 DEF Relink
<1>2. CASE q.kind \in OrderKinds /\ e.link # LinkOf(q.target)
  <2>1. q.target \in Orders /\ e.link \in Deliveries \cup {None}
    BY <1>2 DEF Loadable
  <2>2. LinkOf(q.target) \in Deliveries \cup {None}
    BY DEF LinkOf, Typed
  <2>3. ASSUME NEW d \in Deliveries, NEW o \in Orders \cup {None}
        PROVE  [row |-> d, set |-> [order |-> o]] \in Statement /\ Fits(d, [order |-> o])
    <3>1. [order |-> o] \in [{"order"} -> Value]
      BY DEF Value
    <3>2. {"order"} \in SUBSET Columns
      BY DEF Columns
    <3> QED BY <3>1, <3>2, IdAssumption DEF Statement, Fits
  <2> QED BY <1>2, <2>1, <2>2, <2>3 DEF Relink
<1> QED BY <1>1, <1>2

\* A new delivery takes an id nobody uses.
LEMMA InsertShape ==
  ASSUME NEW o \in Orders \cup {None}, NEW driver \in Drivers \cup {None}, Unused # {}
  PROVE  /\ Insert(o, driver) \in Seq(Statement) /\ Len(Insert(o, driver)) = 1
         /\ Insert(o, driver)[1].row \in Unused
         /\ Insert(o, driver)[1].set = [status |-> "PENDING", driver |-> driver, order |-> o]
         /\ Fits(Insert(o, driver)[1].row, Insert(o, driver)[1].set)
<1> DEFINE d == CHOOSE d \in Unused : TRUE
           set == [status |-> "PENDING", driver |-> driver, order |-> o]
<1>1. d \in Unused /\ d \in Deliveries
  BY DEF Unused
<1>2. set \in [Columns -> Value]
  BY DEF Value, Columns, OrderStatus
<1>3. Fits(d, set)
  BY <1>1, IdAssumption DEF Fits, Columns, StatusOf, OrderStatus
<1>4. [row |-> d, set |-> set] \in Statement
  BY <1>1, <1>2 DEF Statement
<1>5. Insert(o, driver) = <<[row |-> d, set |-> set]>>
  BY DEF Insert
<1> HIDE DEF d, set
<1>6. [row |-> d, set |-> set].row = d /\ [row |-> d, set |-> set].set = set
  OBVIOUS
<1> QED BY <1>1, <1>3, <1>4, <1>5, <1>6 DEF set

\* What a handler plans.
LEMMA PlanShape ==
  ASSUME Typed, NEW q \in Request, NEW e, Loadable(q, e), q.kind # "create",
         q.kind = "dispatch" => Unused # {}
  PROVE  /\ Plan(q, e) \in Seq(Statement)
         /\ \A k \in DOMAIN Plan(q, e) : Fits(Plan(q, e)[k].row, Plan(q, e)[k].set)
<1> DEFINE fits(t) == t \in Seq(Statement) /\ \A k \in DOMAIN t : Fits(t[k].row, t[k].set)
           i == IF q.kind = "dispatch" THEN Insert(q.target, e.driver) ELSE <<>>
<1>1. fits(Update(q, e)) /\ fits(Relink(q, e))
  BY UpdateShape, RelinkShape
<1>2. fits(i)
  <2>1. CASE q.kind = "dispatch"
    <3>1. q.target \in Orders \cup {None} /\ e.driver \in Drivers \cup {None}
      BY <2>1 DEF Loadable
    <3>2. Unused # {}
      BY <2>1
    <3>3. /\ Insert(q.target, e.driver) \in Seq(Statement) /\ Len(Insert(q.target, e.driver)) = 1
          /\ Fits(Insert(q.target, e.driver)[1].row, Insert(q.target, e.driver)[1].set)
      BY <3>1, <3>2, InsertShape
    <3> HIDE DEF Insert
    <3> QED BY <2>1, <3>3
  <2>2. CASE q.kind # "dispatch"
    BY <2>2
  <2> QED BY <2>1, <2>2
<1>3. ASSUME NEW s, NEW t, fits(s), fits(t) PROVE fits(s \o t)
  <2>1. /\ s \o t \in Seq(Statement) /\ Len(s \o t) = Len(s) + Len(t)
        /\ \A k \in 1..Len(s) + Len(t) :
             (s \o t)[k] = IF k <= Len(s) THEN s[k] ELSE t[k - Len(s)]
    BY <1>3, ConcatProperties
  <2>2. ASSUME NEW k \in DOMAIN (s \o t) PROVE Fits((s \o t)[k].row, (s \o t)[k].set)
    <3>1. k \in 1..Len(s) + Len(t) /\ Len(s) \in Nat /\ Len(t) \in Nat
      BY <1>3, <2>1, <2>2
    <3>2. CASE k <= Len(s)
      BY <1>3, <2>1, <3>1, <3>2
    <3>3. CASE k > Len(s)
      <4>1. k - Len(s) \in DOMAIN t
        BY <1>3, <3>1, <3>3
      <4> QED BY <1>3, <2>1, <3>1, <3>3, <4>1
    <3> QED BY <3>1, <3>2, <3>3
  <2> QED BY <2>1, <2>2
<1> HIDE DEF fits, i
<1>4. fits(Update(q, e) \o Relink(q, e) \o i)
  BY <1>1, <1>2, <1>3
<1> QED BY <1>4 DEF fits, i, Plan

\* What it plans when the entity in memory is the row: it restores nothing, and
\* dispatch alone sends two statements.
LEMMA PlanSerial ==
  ASSUME Typed, NEW q \in Request, NEW e, Loadable(q, e), q.kind # "create",
         q.kind = "dispatch" => Unused # {}, e = Loaded(q.target)
  PROVE  /\ Stale(q, e) = {} /\ Relink(q, e) = <<>>
         /\ \A k \in DOMAIN Plan(q, e) :
              LET s == Plan(q, e)[k] IN
              \/ k = 1 /\ s.row = q.target /\ s.set = [c \in Differing(q, e) |-> Wanted(q, e)[c]]
              \/ /\ k = 2 /\ q.kind = "dispatch" /\ s.row \in Unused
                 /\ DOMAIN s.set = Columns /\ s.set["order"] = q.target
         /\ q.kind = "dispatch" => 2 \in DOMAIN Plan(q, e)
<1>1. Relink(q, e) = <<>>
  BY DEF Relink, Loaded, Loadable
<1>2. Stale(q, e) = {}
  <2>1. e.status = db[q.target].status /\ e.driver = db[q.target].driver
    BY DEF Loaded
  <2>2. q.target \notin Orders => e.link = db[q.target].order
    BY DEF Loaded
  <2>3. q.target \in Orders => db[q.target].order = None /\ q.target \notin Deliveries
    BY IdAssumption DEF Typed
  <2>4. q.target \in Rows
    BY DEF Loadable, Request
  <2> QED BY <2>1, <2>2, <2>3, <2>4 DEF Stale, Differing, Columns, Wanted
<1>3. Plan(q, e) = Update(q, e) \o (IF q.kind = "dispatch" THEN Insert(q.target, e.driver) ELSE <<>>)
  BY <1>1, UpdateShape DEF Plan
<1>4. CASE q.kind = "dispatch"
  <2> DEFINE u == Update(q, e)
             i == Insert(q.target, e.driver)
  <2>1. q.target \in Orders \cup {None} /\ e.driver \in Drivers \cup {None}
    BY <1>4 DEF Loadable
  <2>2. /\ i \in Seq(Statement) /\ Len(i) = 1 /\ i[1].row \in Unused
        /\ DOMAIN i[1].set = Columns /\ i[1].set["order"] = q.target
    <3>1. Unused # {}
      BY <1>4
    <3>2. /\ i \in Seq(Statement) /\ Len(i) = 1 /\ i[1].row \in Unused
          /\ i[1].set = [status |-> "PENDING", driver |-> e.driver, order |-> q.target]
      BY <2>1, <3>1, InsertShape
    <3> QED BY <3>2 DEF Columns
  <2>3. u \in Seq(Statement) /\ Len(u) = 1
    BY <1>4, UpdateShape DEF Update
  <2>4. u[1].row = q.target /\ u[1].set = [c \in Differing(q, e) |-> Wanted(q, e)[c]]
    BY <2>3, UpdateShape
  <2> HIDE DEF u, i
  <2>5. Len(u \o i) = 2 /\ u \o i \in Seq(Statement) /\ (u \o i)[1] = u[1] /\ (u \o i)[2] = i[1]
    <3>1. /\ u \o i \in Seq(Statement) /\ Len(u \o i) = Len(u) + Len(i)
          /\ \A k \in 1..Len(u) + Len(i) :
               (u \o i)[k] = IF k <= Len(u) THEN u[k] ELSE i[k - Len(u)]
      BY <2>2, <2>3, ConcatProperties
    <3> QED BY <2>2, <2>3, <3>1
  <2>6. Plan(q, e) = u \o i
    BY <1>3, <1>4 DEF u, i
  <2> QED BY <1>1, <1>2, <1>4, <2>2, <2>4, <2>5, <2>6
<1>5. CASE q.kind # "dispatch"
  <2>1. Plan(q, e) = Update(q, e)
    BY <1>3, <1>5, UpdateShape
  <2> QED BY <1>1, <1>2, <1>5, <2>1, UpdateShape
<1> QED BY <1>4, <1>5

-----------------------------------------------------------------------------
(* What the properties say follows from the invariant                      *)

LEMMA LinkOfFound ==
  ASSUME NEW o, NEW d \in live, live \subseteq Deliveries, db[d].order = o
  PROVE  LinkOf(o) # None
BY IdAssumption DEF LinkOf

LEMMA Meaning ==
  IInv => /\ TypeOK /\ OneDeliveryPerOrder /\ CreditsAreEarned
          /\ SerialSavesDoNotRevert /\ SerialOrdersInRouteHaveADelivery
<1> SUFFICES ASSUME IInv
             PROVE  /\ TypeOK /\ CreditsAreEarned
                    /\ SerialSavesDoNotRevert /\ SerialOrdersInRouteHaveADelivery
  BY DEF IInv
<1>1. TypeOK
  BY DEF IInv, Typed, Formed, InFlight, Locked, Apart, TypeOK
<1>2. CreditsAreEarned
  <2> SUFFICES ASSUME NEW o \in Orders PROVE credits[o] <= completions[o]
    BY DEF CreditsAreEarned
  <2>1. Cardinality(Announcing(o)) \in Nat
    BY FS_CardinalityType DEF IInv, Earned
  <2> QED BY <2>1 DEF IInv, Earned, Typed
<1>3. SerialSavesDoNotRevert
  BY DEF IInv, Serial, SerialSavesDoNotRevert
<1>4. SerialOrdersInRouteHaveADelivery
  BY LinkOfFound DEF IInv, Typed, Serial, SerialOrdersInRouteHaveADelivery
<1> QED BY <1>1, <1>2, <1>3, <1>4

-----------------------------------------------------------------------------
(* Steps of one worker                                                     *)

\* Only w moves.
Alone(w) ==
  \A v \in Workers \ {w} :
    /\ pc'[v] = pc[v] /\ job'[v] = job[v] /\ snap'[v] = snap[v]
    /\ todo'[v] = todo[v] /\ buf'[v] = buf[v] /\ dirty'[v] = dirty[v]

LEMMA OthersFormed ==
  ASSUME \A v \in Workers : Formed(v), NEW w \in Workers, Alone(w), Formed(w)'
  PROVE  \A v \in Workers : Formed(v)'
<1> SUFFICES ASSUME NEW v \in Workers \ {w} PROVE Formed(v)'
  OBVIOUS
<1>1. /\ pc'[v] = pc[v] /\ job'[v] = job[v] /\ snap'[v] = snap[v]
      /\ todo'[v] = todo[v] /\ buf'[v] = buf[v] /\ dirty'[v] = dirty[v]
  BY DEF Alone
<1> QED BY <1>1 DEF Formed, InFlight, Loadable

\* What is neither committed nor locked anew stays unique.
LEMMA LockedKept ==
  ASSUME OneDeliveryPerOrder, Locked, UNCHANGED <<live, db, buf>>
  PROVE  OneDeliveryPerOrder' /\ Locked'
BY DEF OneDeliveryPerOrder, Locked, Unique, Apart, View, Seen, Merged, SetsOrder

\* A transaction that wrote nothing sees what it saw ...
LEMMA ViewKept ==
  ASSUME NEW v, buf'[v] = buf[v], UNCHANGED <<live, db>>
  PROVE  View(v)' = View(v) /\ \A x : Seen(v, x)' = Seen(v, x)
BY DEF View, Seen, Merged

\* ... and two such transactions stay apart.
LEMMA ApartKept ==
  ASSUME NEW u, NEW v, Apart(u, v), buf'[u] = buf[u], buf'[v] = buf[v]
  PROVE  Apart(u, v)'
BY DEF Apart, SetsOrder

\* An announcement fewer leaves no credit unearned.
LEMMA EarnedKept ==
  ASSUME Typed, NEW o \in Orders, Earned(o), UNCHANGED <<credits, completions>>,
         Announcing(o)' \subseteq Announcing(o)
  PROVE  Earned(o)'
<1>1. IsFiniteSet(Announcing(o)') /\ Cardinality(Announcing(o)') <= Cardinality(Announcing(o))
  BY FS_Subset DEF Earned
<1>2. Cardinality(Announcing(o)') \in Nat /\ Cardinality(Announcing(o)) \in Nat
  BY <1>1, FS_CardinalityType DEF Earned
<1> QED BY <1>1, <1>2 DEF Earned, Typed

\* A worker that is the only one at work, and moves, is the only one still.
LEMMA SerialKept ==
  ASSUME Serial, NEW w \in Workers, InFlight(w), Alone(w), UNCHANGED <<live, db, reverted>>,
         InFlight(w)' => (~dirty[w] /\ (pc[w] = "diff" => snap[w] = Loaded(job[w].target))
                            /\ Accompanied(w) /\ Harmless(w))'
  PROVE  Serial'
<1>1. \A v \in Workers \ {w} : ~InFlight(v) /\ ~InFlight(v)'
  BY DEF Serial, Undisturbed, Alone, InFlight
<1> QED BY <1>1 DEF Serial, Undisturbed

\* A step that commits nothing and locks nothing.
LEMMA Local ==
  ASSUME IInv, NEW w \in Workers, InFlight(w), Alone(w), UNCHANGED <<disk, begun, buf, hist>>,
         Typed', Formed(w)', \A o \in Orders : Announcing(o)' \subseteq Announcing(o),
         Serial => (~dirty[w] /\ (pc[w] = "diff" => snap[w] = Loaded(job[w].target))
                      /\ Accompanied(w) /\ Harmless(w))'
  PROVE  IInv'
<1>1. \A v \in Workers : Formed(v)'
  BY OthersFormed DEF IInv
<1>2. OneDeliveryPerOrder' /\ Locked'
  BY LockedKept DEF IInv, disk
<1>3. \A o \in Orders : Earned(o)'
  BY EarnedKept DEF IInv, disk, hist
<1>4. ~overlap' => Serial'
  <2> SUFFICES ASSUME ~overlap' PROVE Serial'
    OBVIOUS
  <2>1. Serial
    BY DEF IInv, hist
  <2> QED BY <2>1, SerialKept DEF disk, hist
<1> QED BY <1>1, <1>2, <1>3, <1>4 DEF IInv

\* The request is over, and nothing of it is kept.
LEMMA LeaveMoves ==
  ASSUME Typed, NEW w \in Workers, Formed(w), NEW l \in Resting, Leave(w, l)
  PROVE  /\ Alone(w) /\ Formed(w)' /\ pc'[w] = l /\ buf'[w] = Empty
         /\ pc' \in [Workers -> Resting \cup Stages]
         /\ job' \in [Workers -> Request \cup {NoRequest}]
         /\ todo' \in [Workers -> Seq(Statement)]
         /\ dirty' \in [Workers -> BOOLEAN]
         /\ DOMAIN snap' = Workers /\ DOMAIN buf' = Workers
         /\ begun' = begun
<1>1. Alone(w)
  BY DEF Leave, Goto, Alone, Typed
<1>2. /\ pc'[w] = l /\ job'[w] = NoRequest /\ snap'[w] = NoEntity
      /\ todo'[w] = <<>> /\ buf'[w] = Empty /\ dirty'[w] = FALSE
  BY DEF Leave, Goto, Typed
<1>3. Formed(w)'
  BY <1>2 DEF Formed, InFlight, NoEntity, Empty
<1>4. <<>> \in Seq(Statement)
  OBVIOUS
<1> QED BY <1>1, <1>2, <1>3, <1>4 DEF Leave, Goto, Typed

LEMMA LeaveInv ==
  ASSUME IInv, NEW w \in Workers, InFlight(w), NEW l \in Resting, Leave(w, l),
         UNCHANGED <<live, db, hist>>, credits' \in [Orders -> Nat], \A o \in Orders : Earned(o)'
  PROVE  IInv'
<1>1. /\ Alone(w) /\ Formed(w)' /\ pc'[w] = l /\ buf'[w] = Empty
      /\ pc' \in [Workers -> Resting \cup Stages]
      /\ job' \in [Workers -> Request \cup {NoRequest}]
      /\ todo' \in [Workers -> Seq(Statement)]
      /\ dirty' \in [Workers -> BOOLEAN]
      /\ DOMAIN snap' = Workers /\ DOMAIN buf' = Workers
      /\ begun' = begun
  BY LeaveMoves DEF IInv
<1>2. UNCHANGED <<live, db, reverted, overlap, completions>>
  BY DEF hist
<1>3. Typed'
  BY <1>1, <1>2 DEF IInv, Typed
<1>4. \A v \in Workers : Formed(v)'
  BY <1>1, OthersFormed DEF IInv
<1>5. OneDeliveryPerOrder'
  BY <1>2 DEF IInv, OneDeliveryPerOrder
<1>6. Locked'
  <2>1. ASSUME NEW v \in Workers PROVE Unique(v)'
    <3>1. CASE v = w
      BY <1>1, <1>2, <3>1 DEF IInv, OneDeliveryPerOrder, Unique, View, Seen, Empty
    <3>2. CASE v # w
      <4>1. buf'[v] = buf[v] /\ Unique(v)
        BY <1>1, <3>2 DEF IInv, Locked, Alone
      <4> QED BY <1>2, <4>1, ViewKept DEF Unique
    <3> QED BY <3>1, <3>2
  <2>2. ASSUME NEW u \in Workers, NEW v \in Workers, u # v PROVE Apart(u, v)'
    <3>1. CASE u = w \/ v = w
      BY <1>1, <3>1 DEF Apart, Empty
    <3>2. CASE u # w /\ v # w
      <4>1. buf'[u] = buf[u] /\ buf'[v] = buf[v] /\ Apart(u, v)
        BY <1>1, <2>2, <3>2 DEF IInv, Locked, Alone
      <4> QED BY <4>1, ApartKept
    <3> QED BY <3>1, <3>2
  <2> QED BY <2>1, <2>2 DEF Locked
<1>7. ~overlap' => Serial'
  <2> SUFFICES ASSUME ~overlap' PROVE Serial'
    OBVIOUS
  <2>1. Serial /\ ~InFlight(w)'
    BY <1>1, <1>2 DEF IInv, InFlight
  <2> QED BY <1>1, <1>2, <2>1, SerialKept
<1> QED BY <1>3, <1>4, <1>5, <1>6, <1>7 DEF IInv

LEMMA RollbackInv ==
  ASSUME IInv, NEW w \in Workers, InFlight(w), NEW l \in Resting, Rollback(w, l)
  PROVE  IInv'
<1>1. Leave(w, l) /\ UNCHANGED <<live, db, credits, hist>>
  BY DEF Rollback, disk
<1>2. Alone(w) /\ pc'[w] = l
  BY <1>1, LeaveMoves DEF IInv
<1>3. \A o \in Orders : Earned(o)'
  <2> SUFFICES ASSUME NEW o \in Orders PROVE Announcing(o)' \subseteq Announcing(o)
    BY <1>1, EarnedKept DEF IInv, hist
  <2> QED BY <1>2 DEF Announcing, Alone
<1> QED BY <1>1, <1>3, LeaveInv DEF IInv, Typed

\* Nothing is sent, so everything it sent is as harmless as before.
LEMMA SameSerial ==
  ASSUME NEW w, Accompanied(w), Harmless(w), buf'[w] = buf[w], todo'[w] = todo[w],
         UNCHANGED <<live, db>>
  PROVE  Accompanied(w)' /\ Harmless(w)'
<1>1. View(w)' = View(w) /\ \A x : Seen(w, x)' = Seen(w, x)
  BY ViewKept
<1>2. \A o : Covered(w, o)' = Covered(w, o)
  BY <1>1 DEF Covered, SetsOrder
<1>3. Accompanied(w)'
  BY <1>1, <1>2 DEF Accompanied
<1>4. Harmless(w)'
  BY <1>1 DEF Harmless, SetsOrder
<1> QED BY <1>3, <1>4

LEMMA FindInv == ASSUME IInv, NEW w \in Workers, Find(w) PROVE IInv'
<1> DEFINE q == job[w]
           e == Loaded(q.target)
<1>1. InFlight(w) /\ Typed /\ Formed(w) /\ q \in Requests /\ q \in Request /\ q.kind # "create"
  BY RequestAssumption DEF IInv, Find, Formed, InFlight
<1>2. CASE Rollback(w, "failed") \/ Rollback(w, "forbidden")
  BY <1>1, <1>2, RollbackInv
<1>3. CASE /\ q.target \in Orders \cup live /\ snap' = [snap EXCEPT ![w] = e]
           /\ Goto(w, "diff") /\ UNCHANGED <<disk, begun, job, todo, buf, dirty, hist>>
  <2>1. Alone(w) /\ pc'[w] = "diff" /\ snap'[w] = e /\ job'[w] = q
    BY <1>1, <1>3 DEF Goto, Alone, Typed
  <2>2. Loadable(q, e)
    <3>1. /\ q.kind \in OrderKinds => q.target \in Orders
          /\ q.kind \in DeliveryKinds => q.target \in Deliveries
      BY <1>1, RequestAssumption
    <3> QED BY <1>1, <1>3, <3>1, LoadedType DEF Loadable
  <2>3. Formed(w)'
    <3>1. snap'[w].link \in Rows \cup {None}
      BY <2>1, <2>2 DEF Loadable
    <3>2. buf'[w] = Empty /\ todo'[w] = todo[w] /\ buf[w] = Empty /\ todo[w] = <<>>
      BY <1>1, <1>3 DEF Formed, Find
    <3> QED BY <1>1, <2>1, <2>2, <3>1, <3>2 DEF Formed, InFlight, Empty, Request
  <2>4. Typed'
    BY <1>1, <1>3 DEF Typed, Goto, disk, hist
  <2>5. \A o \in Orders : Announcing(o)' \subseteq Announcing(o)
    BY <1>3, <2>1 DEF Announcing, Alone
  <2>6. ASSUME Serial
        PROVE  (~dirty[w] /\ (pc[w] = "diff" => snap[w] = Loaded(job[w].target))
                  /\ Accompanied(w) /\ Harmless(w))'
    <3>1. ~dirty[w] /\ Accompanied(w) /\ Harmless(w)
      BY <1>1, <2>6 DEF Serial, Undisturbed
    <3>2. Loaded(job[w].target)' = e
      BY <1>3, <2>1 DEF Loaded, LinkOf, disk
    <3> QED BY <1>3, <2>1, <3>1, <3>2, SameSerial DEF disk
  <2> QED BY <1>1, <1>3, <2>1, <2>3, <2>4, <2>5, <2>6, Local
<1> QED BY <1>2, <1>3 DEF Find

LEMMA FindOrderInv == ASSUME IInv, NEW w \in Workers, FindOrder(w) PROVE IInv'
<1> DEFINE o == snap[w].link
           q == [job[w] EXCEPT !.target = o]
           e == Loaded(o)
<1>1. /\ InFlight(w) /\ Typed /\ Formed(w) /\ job[w] \in Request /\ job[w].kind = "complete"
      /\ o \in Orders
  BY IdAssumption DEF IInv, FindOrder, Formed, InFlight, Loadable, Typed, NoRequest
<1>2. /\ job' = [job EXCEPT ![w] = q] /\ snap' = [snap EXCEPT ![w] = e] /\ Goto(w, "diff")
      /\ UNCHANGED <<disk, begun, todo, buf, dirty, hist>>
  BY <1>1 DEF FindOrder, Typed
<1>3. q \in Request /\ q.kind = "complete" /\ q.target = o
  BY <1>1 DEF Request
<1>4. Alone(w) /\ pc'[w] = "diff" /\ snap'[w] = e /\ job'[w] = q
  BY <1>1, <1>2 DEF Goto, Alone, Typed
<1>5. Loadable(q, e)
  BY <1>1, <1>3, LoadedType DEF Loadable
<1>6. Formed(w)'
  <2>1. snap'[w].link \in Rows \cup {None}
    BY <1>1, <1>3, <1>4, <1>5 DEF Loadable
  <2>2. buf'[w] = buf[w] /\ todo'[w] = todo[w] /\ todo[w] = <<>>
    BY <1>1, <1>2 DEF Formed, FindOrder
  <2> QED BY <1>1, <1>3, <1>4, <1>5, <2>1, <2>2, IdAssumption DEF Formed, InFlight
<1>7. Typed'
  BY <1>1, <1>2, <1>3 DEF Typed, Goto, disk, hist
<1>8. \A p \in Orders : Announcing(p)' \subseteq Announcing(p)
  BY <1>4 DEF Announcing, Alone
<1>9. ASSUME Serial
      PROVE  (~dirty[w] /\ (pc[w] = "diff" => snap[w] = Loaded(job[w].target))
                /\ Accompanied(w) /\ Harmless(w))'
  <2>1. ~dirty[w] /\ Accompanied(w) /\ Harmless(w)
    BY <1>1, <1>9 DEF Serial, Undisturbed
  <2>2. Loaded(job[w].target)' = e
    <3>1. job'[w].target = o /\ live' = live /\ db' = db
      BY <1>2, <1>3, <1>4 DEF disk
    <3> QED BY <3>1 DEF Loaded, LinkOf
  <2> QED BY <1>2, <1>4, <2>1, <2>2, SameSerial DEF disk
<1> QED BY <1>1, <1>2, <1>4, <1>6, <1>7, <1>8, <1>9, Local

LEMMA LogInv == ASSUME IInv, NEW w \in Workers, Log(w) PROVE IInv'
<1>1. InFlight(w) /\ Typed /\ Formed(w)
  BY DEF IInv, Log, InFlight
<1>2. CASE Rollback(w, "failed")
  BY <1>1, <1>2, RollbackInv
<1>3. CASE Goto(w, "announce") /\ UNCHANGED <<disk, begun, memory, hist>>
  <2>1. Alone(w) /\ pc'[w] = "announce"
    BY <1>1, <1>3 DEF Goto, Alone, Typed, memory
  <2>2. Formed(w)'
    BY <1>1, <1>3, <2>1 DEF Log, Formed, InFlight, Loadable, memory
  <2>3. Typed'
    BY <1>1, <1>3 DEF Typed, Goto, disk, hist, memory
  <2>4. \A o \in Orders : Announcing(o)' \subseteq Announcing(o)
    BY <1>3, <2>1 DEF Announcing, Alone, Log, memory
  <2>5. ASSUME Serial
        PROVE  (~dirty[w] /\ (pc[w] = "diff" => snap[w] = Loaded(job[w].target))
                  /\ Accompanied(w) /\ Harmless(w))'
    BY <1>1, <1>3, <2>1, <2>5, SameSerial DEF Serial, Undisturbed, disk, memory
  <2> QED BY <1>1, <1>3, <2>1, <2>2, <2>3, <2>4, <2>5, Local DEF memory
<1> QED BY <1>2, <1>3 DEF Log

\* A worker that plans while it is alone plans no harm.
LEMMA DiffSerial ==
  ASSUME IInv, NEW w \in Workers, Diff(w), Serial
  PROVE  (~dirty[w] /\ Accompanied(w) /\ Harmless(w))'
<1> DEFINE q == job[w]
           e == snap[w]
           plan == Plan(q, e)
<1>1. /\ pc[w] = "diff" /\ InFlight(w) /\ Typed /\ Formed(w) /\ q \in Request
      /\ q.kind # "create" /\ Loadable(q, e) /\ todo[w] = <<>> /\ e = Loaded(q.target)
      /\ q.kind = "dispatch" => Unused # {}
      /\ ~dirty[w] /\ Accompanied(w)
  BY DEF IInv, Diff, Formed, InFlight, Typed, NoRequest, Serial, Undisturbed
<1>2. todo'[w] = plan /\ UNCHANGED <<live, db, buf>>
      /\ dirty'[w] = (dirty[w] \/ Stale(q, e) # {} \/ Relink(q, e) # <<>>)
  BY <1>1 DEF Diff, Typed, disk
<1>3. /\ Stale(q, e) = {} /\ Relink(q, e) = <<>>
      /\ \A k \in DOMAIN plan :
           \/ /\ k = 1 /\ plan[k].row = q.target
              /\ plan[k].set = [c \in Differing(q, e) |-> Wanted(q, e)[c]]
           \/ /\ k = 2 /\ q.kind = "dispatch" /\ plan[k].row \in Unused
              /\ DOMAIN plan[k].set = Columns /\ plan[k].set["order"] = q.target
      /\ q.kind = "dispatch" => 2 \in DOMAIN plan
  BY <1>1, PlanSerial
<1>4. View(w)' = View(w) /\ \A x : Seen(w, x)' = Seen(w, x)
  BY <1>2, ViewKept
<1> HIDE DEF plan
<1>5. Accompanied(w)'
  <2> SUFFICES ASSUME NEW o \in Orders,
                      \/ Seen(w, o).status = "IN_ROUTE"
                      \/ \E k \in DOMAIN plan :
                           /\ plan[k].row = o /\ "status" \in DOMAIN plan[k].set
                           /\ plan[k].set["status"] = "IN_ROUTE"
               PROVE  Covered(w, o)'
    BY <1>2, <1>4 DEF Accompanied
  <2>1. CASE Seen(w, o).status = "IN_ROUTE"
    <3>1. \E d \in View(w) : Seen(w, d).order = o
      BY <1>1, <2>1 DEF Accompanied, Covered
    <3> QED BY <1>4, <3>1 DEF Covered
  <2>2. CASE \E k \in DOMAIN plan :
               /\ plan[k].row = o /\ "status" \in DOMAIN plan[k].set
               /\ plan[k].set["status"] = "IN_ROUTE"
    <3>1. /\ q.target = o /\ "status" \in Differing(q, e)
          /\ Wanted(q, e)["status"] = "IN_ROUTE"
      <4>1. PICK k \in DOMAIN plan :
              /\ plan[k].row = o /\ "status" \in DOMAIN plan[k].set
              /\ plan[k].set["status"] = "IN_ROUTE"
        BY <2>2
      <4>2. plan[k].row \notin Unused
        BY <4>1, IdAssumption DEF Unused
      <4>3. plan[k].row = q.target /\ plan[k].set = [c \in Differing(q, e) |-> Wanted(q, e)[c]]
        BY <1>3, <4>2
      <4> QED BY <4>1, <4>3
    <3>2. StatusAfter(q, e) = "IN_ROUTE" /\ e.status # "IN_ROUTE"
      BY <1>1, <3>1 DEF Wanted, Differing, Loaded
    <3>3. q.kind = "dispatch"
      <4>1. q.target \notin Deliveries
        BY <3>1, IdAssumption
      <4> QED BY <1>1, <3>2, <4>1 DEF StatusAfter, Assigned, Loadable, Request
    <3>4. /\ 2 \in DOMAIN plan /\ plan[2].row \in Deliveries
          /\ SetsOrder(plan[2].set) /\ plan[2].set["order"] = o
      <4>1. 2 \in DOMAIN plan
        BY <1>3, <3>3
      <4>2. /\ plan[2].row \in Unused /\ DOMAIN plan[2].set = Columns
            /\ plan[2].set["order"] = q.target
        <5>1. 2 # 1
          OBVIOUS
        <5> QED BY <1>3, <4>1, <5>1, Zenon
      <4> QED BY <3>1, <4>1, <4>2 DEF SetsOrder, Columns, Unused
    <3> QED BY <1>2, <3>4 DEF Covered, SetsOrder
  <2> QED BY <2>1, <2>2
<1>6. Harmless(w)'
  <2>1. ASSUME NEW j \in DOMAIN plan, NEW k \in DOMAIN plan, plan[j].row = plan[k].row
        PROVE  j = k
    BY <1>1, <1>3, <2>1, IdAssumption DEF Loadable, Unused
  <2>2. ASSUME NEW k \in DOMAIN plan, plan[k].row \in View(w), SetsOrder(plan[k].set)
        PROVE  Seen(w, plan[k].row).order = None
    <3>1. k = 1 /\ plan[k].row = q.target /\ "order" \in Differing(q, e)
      BY <1>3, <2>2 DEF Unused, View, SetsOrder
    <3>2. q.target \in Deliveries /\ q.target \notin Orders
      BY <1>1, <2>2, <3>1, IdAssumption DEF View, Typed
    <3>3. buf[w] = Empty /\ e.link = db[q.target].order
      BY <1>1, <3>2 DEF Formed, Loaded
    <3>4. LinkAfter(q, e) # e.link
      BY <3>1, <3>2, <3>3 DEF Differing, Wanted
    <3> QED BY <3>1, <3>3, <3>4 DEF LinkAfter, Seen, Empty
  <2> QED BY <1>2, <1>4, <2>1, <2>2 DEF Harmless, SetsOrder
<1> QED BY <1>1, <1>2, <1>3, <1>5, <1>6

LEMMA DiffInv == ASSUME IInv, NEW w \in Workers, Diff(w) PROVE IInv'
<1> DEFINE q == job[w]
           e == snap[w]
           plan == Plan(q, e)
<1>1. /\ pc[w] = "diff" /\ InFlight(w) /\ Typed /\ Formed(w) /\ q \in Request
      /\ q.kind # "create" /\ Loadable(q, e) /\ todo[w] = <<>>
      /\ q.kind = "dispatch" => Unused # {}
  BY DEF IInv, Diff, Formed, InFlight, Typed, NoRequest
<1>2. plan \in Seq(Statement) /\ \A k \in DOMAIN plan : Fits(plan[k].row, plan[k].set)
  BY <1>1, PlanShape
<1>3. /\ todo' = [todo EXCEPT ![w] = plan]
      /\ Goto(w, IF plan = <<>> THEN "commit" ELSE "write")
      /\ dirty' = [dirty EXCEPT ![w] = @ \/ Stale(q, e) # {} \/ Relink(q, e) # <<>>]
      /\ UNCHANGED <<disk, begun, job, snap, buf, hist>>
  BY DEF Diff
<1> HIDE DEF plan
<1>4. Alone(w) /\ pc'[w] = (IF plan = <<>> THEN "commit" ELSE "write") /\ todo'[w] = plan
  BY <1>1, <1>3 DEF Goto, Alone, Typed
<1>5. Formed(w)'
  BY <1>1, <1>2, <1>3, <1>4 DEF Formed, InFlight, Loadable
<1>6. Typed'
  BY <1>1, <1>2, <1>3 DEF Typed, Goto, disk, hist
<1>7. \A o \in Orders : Announcing(o)' \subseteq Announcing(o)
  BY <1>3, <1>4 DEF Announcing, Alone
<1>8. ASSUME Serial
      PROVE  (~dirty[w] /\ (pc[w] = "diff" => snap[w] = Loaded(job[w].target))
                /\ Accompanied(w) /\ Harmless(w))'
  BY <1>4, <1>8, DiffSerial
<1> QED BY <1>1, <1>3, <1>4, <1>5, <1>6, <1>7, <1>8, Local

LEMMA BeginInv ==
  ASSUME IInv, NEW w \in Workers, NEW q \in Requests, Begin(w, q) PROVE IInv'
<1> DEFINE plan == IF q.kind = "create" THEN Insert(q.order, q.driver) ELSE <<>>
<1>1. /\ Typed /\ Formed(w) /\ ~InFlight(w) /\ Unused # {} /\ q \in Request /\ q.kind # None
      /\ buf[w] = Empty /\ ~dirty[w]
  BY IdAssumption, RequestAssumption DEF IInv, Begin, Formed, InFlight, Request, None
<1>2. /\ plan \in Seq(Statement) /\ \A k \in DOMAIN plan : Fits(plan[k].row, plan[k].set)
      /\ \A k \in DOMAIN plan : k = 1 /\ plan[k].row \in Unused /\ "status" \in DOMAIN plan[k].set
                                  /\ plan[k].set["status"] # "IN_ROUTE"
      /\ plan # <<>> <=> q.kind = "create"
  <2>1. CASE q.kind = "create"
    <3>1. q.order \in Orders \cup {None} /\ q.driver \in Drivers \cup {None}
      BY <1>1 DEF Request
    <3>2. /\ plan \in Seq(Statement) /\ Len(plan) = 1 /\ plan[1].row \in Unused
          /\ plan[1].set = [status |-> "PENDING", driver |-> q.driver, order |-> q.order]
          /\ Fits(plan[1].row, plan[1].set)
      <4> DEFINE i == Insert(q.order, q.driver)
      <4>1. /\ i \in Seq(Statement) /\ Len(i) = 1 /\ i[1].row \in Unused
            /\ i[1].set = [status |-> "PENDING", driver |-> q.driver, order |-> q.order]
            /\ Fits(i[1].row, i[1].set)
        BY <1>1, <3>1, InsertShape
      <4> HIDE DEF i
      <4>2. plan = i
        BY <2>1 DEF i
      <4> HIDE DEF plan
      <4> QED BY <4>1, <4>2
    <3> HIDE DEF plan
    <3>3. \A k \in DOMAIN plan : k = 1
      BY <3>2
    <3>4. "status" \in DOMAIN plan[1].set /\ plan[1].set["status"] # "IN_ROUTE"
      BY <3>2
    <3>5. plan # <<>>
      <4>1. Len(plan) = 1 /\ Len(<<>>) = 0
        BY <3>2
      <4> QED BY <4>1
    <3> QED BY <2>1, <3>2, <3>3, <3>4, <3>5
  <2>2. CASE q.kind # "create"
    BY <2>2
  <2> QED BY <2>1, <2>2
<1>3. /\ begun < MaxRequests /\ begun' = begun + 1
      /\ job' = [job EXCEPT ![w] = q] /\ todo' = [todo EXCEPT ![w] = plan]
      /\ Goto(w, IF q.kind = "create" THEN "write" ELSE "find")
      /\ overlap' = (overlap \/ \E v \in Workers : pc[v] \notin Resting)
      /\ UNCHANGED <<disk, snap, buf, dirty, reverted, completions>>
  BY DEF Begin
<1> HIDE DEF plan
<1>4. /\ Alone(w) /\ pc'[w] = (IF q.kind = "create" THEN "write" ELSE "find")
      /\ todo'[w] = plan /\ job'[w] = q
  BY <1>1, <1>3 DEF Goto, Alone, Typed
<1>5. \A v \in Workers : Formed(v)'
  <2>1. snap'[w].link \in Rows \cup {None} /\ buf'[w] = Empty
    BY <1>1, <1>3 DEF Formed
  <2>2. Formed(w)'
    BY <1>1, <1>2, <1>4, <2>1 DEF Formed, InFlight, Empty
  <2> QED BY <1>4, <2>2, OthersFormed DEF IInv
<1>6. Typed'
  <2>1. begun' \in 0..MaxRequests
    BY <1>1, <1>3, IdAssumption DEF Typed
  <2>2. pc' \in [Workers -> Resting \cup Stages] /\ job' \in [Workers -> Request \cup {NoRequest}]
    BY <1>1, <1>3 DEF Typed, Goto
  <2> QED BY <1>1, <1>2, <1>3, <2>1, <2>2 DEF Typed, disk
<1>7. OneDeliveryPerOrder' /\ Locked'
  BY <1>3, LockedKept DEF IInv, disk
<1>8. \A o \in Orders : Earned(o)'
  <2> SUFFICES ASSUME NEW o \in Orders PROVE Announcing(o)' \subseteq Announcing(o)
    BY <1>1, <1>3, EarnedKept DEF IInv, disk
  <2> QED BY <1>1, <1>4 DEF Announcing, Alone
<1>9. ~overlap' => Serial'
  <2> SUFFICES ASSUME ~overlap' PROVE Serial'
    OBVIOUS
  <2>1. ~overlap /\ Serial /\ \A v \in Workers : ~InFlight(v)
    BY <1>3 DEF IInv, InFlight, Typed
  <2>2. \A v \in Workers \ {w} : ~InFlight(v)'
    BY <1>4, <2>1 DEF Alone, InFlight
  <2>3. /\ \A x : Seen(w, x)' = db[x]
        /\ View(w)' = live
    BY <1>1, <1>3 DEF Seen, View, Empty, disk
  <2>4. Accompanied(w)'
    <3> SUFFICES ASSUME NEW o \in Orders,
                        \/ db[o].status = "IN_ROUTE"
                        \/ \E k \in DOMAIN plan : plan[k].row = o
                 PROVE  Covered(w, o)'
      BY <1>4, <2>3 DEF Accompanied
    <3>1. db[o].status = "IN_ROUTE"
      BY <1>2, IdAssumption DEF Unused
    <3> QED BY <2>1, <2>3, <3>1 DEF Serial, Covered
  <2>5. Harmless(w)'
    BY <1>2, <1>4, <2>3 DEF Harmless, SetsOrder, Unused
  <2> QED BY <1>1, <1>3, <1>4, <2>1, <2>2, <2>4, <2>5 DEF Serial, Undisturbed, disk
<1> QED BY <1>5, <1>6, <1>7, <1>8, <1>9 DEF IInv

\* Announce: the credit was earned, and the request may not record it again.
LEMMA AnnounceInv == ASSUME IInv, NEW w \in Workers, Announce(w) PROVE IInv'
<1>1. /\ InFlight(w) /\ Typed /\ Formed(w) /\ pc[w] = "announce"
      /\ Leave(w, "idle") /\ UNCHANGED <<live, db, hist>>
  BY DEF IInv, Announce, InFlight
<1>2. PICK recorded \in SUBSET ({job[w].target} \cap Orders) :
        credits' = [o \in Orders |-> credits[o] + (IF o \in recorded THEN 1 ELSE 0)]
  BY DEF Announce
<1>3. credits' \in [Orders -> Nat] /\ \A o \in Orders : credits'[o] \in Nat
  BY <1>1, <1>2 DEF Typed
<1>4. Alone(w) /\ pc'[w] = "idle"
  BY <1>1, LeaveMoves
<1>5. ASSUME NEW o \in Orders PROVE Earned(o)'
  <2>1. completions'[o] = completions[o] /\ completions[o] \in Nat /\ credits[o] \in Nat
    BY <1>1 DEF hist, Typed
  <2>2. Earned(o)
    BY DEF IInv
  <2>3. CASE o \in recorded
    <3>1. Announcing(o)' = Announcing(o) \ {w} /\ w \in Announcing(o)
      BY <1>1, <1>4, <2>3 DEF Announcing, Alone
    <3>2. IsFiniteSet(Announcing(o)') /\ Cardinality(Announcing(o)') = Cardinality(Announcing(o)) - 1
      BY <2>2, <3>1, FS_RemoveElement DEF Earned
    <3>3. Cardinality(Announcing(o)) \in Nat
      BY <2>2, FS_CardinalityType DEF Earned
    <3>4. credits'[o] = credits[o] + 1
      BY <1>2, <2>3
    <3> QED BY <2>1, <2>2, <3>2, <3>3, <3>4 DEF Earned
  <2>4. CASE o \notin recorded
    <3>1. Announcing(o)' \subseteq Announcing(o)
      BY <1>4 DEF Announcing, Alone
    <3>2. IsFiniteSet(Announcing(o)') /\ Cardinality(Announcing(o)') <= Cardinality(Announcing(o))
      BY <2>2, <3>1, FS_Subset DEF Earned
    <3>3. Cardinality(Announcing(o)) \in Nat /\ Cardinality(Announcing(o)') \in Nat
      BY <2>2, <3>2, FS_CardinalityType DEF Earned
    <3>4. credits'[o] = credits[o]
      BY <1>2, <2>1, <2>4
    <3> QED BY <2>1, <2>2, <3>2, <3>3, <3>4 DEF Earned
  <2> QED BY <2>3, <2>4
<1> QED BY <1>1, <1>3, <1>5, LeaveInv

\* The columns of its row that are set after a statement, and the rows a transaction
\* then holds.
SetBefore(w, s) == IF s.row \in DOMAIN buf[w] THEN buf[w][s.row] ELSE Empty
SetAfter(w, s) ==
  [c \in DOMAIN SetBefore(w, s) \cup DOMAIN s.set |->
     IF c \in DOMAIN s.set THEN s.set[c] ELSE SetBefore(w, s)[c]]
HeldAfter(w, s) ==
  [x \in DOMAIN buf[w] \cup {s.row} |-> IF x = s.row THEN SetAfter(w, s) ELSE buf[w][x]]

\* What a transaction sees and names once it has set some columns of a row.
LEMMA WriteView ==
  ASSUME IInv, NEW w \in Workers, NEW s \in Statement, Fits(s.row, s.set),
         buf'[w] = HeldAfter(w, s), UNCHANGED <<live, db>>
  PROVE  /\ DOMAIN buf'[w] = DOMAIN buf[w] \cup {s.row} /\ DOMAIN buf'[w] \subseteq Rows
         /\ \A x \in DOMAIN buf'[w] : Fits(x, buf'[w][x])
         /\ \A x : x # s.row => Seen(w, x)' = Seen(w, x)
         /\ \A c \in Columns :
              Seen(w, s.row)'[c] = IF c \in DOMAIN s.set THEN s.set[c] ELSE Seen(w, s.row)[c]
         /\ View(w)' = View(w) \cup ({s.row} \cap Deliveries)
         /\ \A x \in DOMAIN buf[w] : x # s.row => buf'[w][x] = buf[w][x]
         /\ SetsOrder(buf'[w][s.row]) =>
              IF SetsOrder(s.set) THEN buf'[w][s.row].order = s.set.order
              ELSE /\ s.row \in DOMAIN buf[w] /\ SetsOrder(buf[w][s.row])
                   /\ buf'[w][s.row].order = buf[w][s.row].order
<1> DEFINE had == SetBefore(w, s)
           new == SetAfter(w, s)
<1>1. /\ DOMAIN buf'[w] = DOMAIN buf[w] \cup {s.row} /\ buf'[w][s.row] = new
      /\ \A x \in DOMAIN buf[w] : x # s.row => buf'[w][x] = buf[w][x]
  BY DEF HeldAfter
<1>2. Formed(w) /\ s.row \in Rows
  BY DEF IInv, Statement
<1>3. Fits(s.row, new)
  <2>1. Fits(s.row, had)
    BY <1>2 DEF Formed, Fits, Empty, SetBefore
  <2> QED BY <2>1 DEF Fits, SetAfter
<1>4. \A x : x # s.row => Seen(w, x)' = Seen(w, x)
  BY <1>1 DEF Seen, Merged
<1>5. ASSUME NEW c \in Columns
      PROVE  Seen(w, s.row)'[c] = IF c \in DOMAIN s.set THEN s.set[c] ELSE Seen(w, s.row)[c]
  <2>1. Seen(w, s.row)'[c] = IF c \in DOMAIN new THEN new[c] ELSE db[s.row][c]
    BY <1>1, <1>5 DEF Seen, Merged
  <2>2. Seen(w, s.row)[c] = IF c \in DOMAIN had THEN had[c] ELSE db[s.row][c]
    BY <1>5 DEF Seen, Merged, Empty, SetBefore
  <2> QED BY <2>1, <2>2 DEF SetAfter
<1>6. View(w)' = View(w) \cup ({s.row} \cap Deliveries)
  BY <1>1 DEF View
<1>7. SetsOrder(new) => IF SetsOrder(s.set) THEN new.order = s.set.order
                        ELSE /\ s.row \in DOMAIN buf[w] /\ SetsOrder(buf[w][s.row])
                             /\ new.order = buf[w][s.row].order
  BY DEF SetsOrder, Empty, SetBefore, SetAfter
<1> HIDE DEF new, had
<1> QED BY <1>1, <1>2, <1>3, <1>4, <1>5, <1>6, <1>7 DEF Formed

\* Write: the constraint, and the locks of the others, keep the order's delivery unique.
LEMMA WriteLocked ==
  ASSUME IInv, NEW w \in Workers, Alone(w), pc[w] = "write", Blockers(w) = {},
         NEW s \in Statement, s = Head(todo[w]), ~Taken(w, s), UNCHANGED <<live, db>>,
         DOMAIN buf'[w] = DOMAIN buf[w] \cup {s.row}, DOMAIN buf'[w] \subseteq Rows,
         \A x : x # s.row => Seen(w, x)' = Seen(w, x),
         \A c \in Columns :
           Seen(w, s.row)'[c] = IF c \in DOMAIN s.set THEN s.set[c] ELSE Seen(w, s.row)[c],
         View(w)' = View(w) \cup ({s.row} \cap Deliveries),
         \A x \in DOMAIN buf[w] : x # s.row => buf'[w][x] = buf[w][x],
         SetsOrder(buf'[w][s.row]) =>
           IF SetsOrder(s.set) THEN buf'[w][s.row].order = s.set.order
           ELSE /\ s.row \in DOMAIN buf[w] /\ SetsOrder(buf[w][s.row])
                /\ buf'[w][s.row].order = buf[w][s.row].order
  PROVE  Locked'
<1>1. Typed /\ Locked /\ Unique(w) /\ Formed(w)
  BY DEF IInv, Locked
<1>2. Unique(w)'
  <2>1. Seen(w, s.row)'.order = IF SetsOrder(s.set) THEN s.set.order ELSE Seen(w, s.row).order
    BY DEF SetsOrder, Columns
  <2>2. ASSUME NEW d \in View(w)', d # s.row, Seen(w, s.row)'.order # None, s.row \in View(w)'
        PROVE  Seen(w, d)'.order # Seen(w, s.row)'.order
    <3>1. d \in View(w) /\ Seen(w, d)' = Seen(w, d)
      BY <2>2
    <3>2. CASE SetsOrder(s.set)
      <4>1. Seen(w, d).order # s.set.order
        BY <2>1, <2>2, <3>1, <3>2 DEF Taken, View
      <4> QED BY <2>1, <3>1, <3>2, <4>1
    <3>3. CASE ~SetsOrder(s.set)
      <4>1. s.row \in View(w)
        <5> SUFFICES ASSUME s.row \notin View(w) PROVE FALSE
          OBVIOUS
        <5>1. s.row \in Deliveries \ live /\ s.row \notin DOMAIN buf[w]
          BY <1>1, <2>2 DEF View, Typed
        <5>2. Seen(w, s.row).order = None
          BY <1>1, <5>1 DEF Seen, Typed
        <5> QED BY <2>1, <2>2, <3>3, <5>2
      <4> QED BY <1>1, <2>1, <2>2, <3>1, <3>3, <4>1 DEF Unique
    <3> QED BY <3>2, <3>3
  <2>3. ASSUME NEW c \in View(w)', NEW d \in View(w)', c # s.row, d # s.row,
               Seen(w, c)'.order # None, Seen(w, c)'.order = Seen(w, d)'.order
        PROVE  c = d
    BY <1>1, <2>3 DEF Unique
  <2> SUFFICES ASSUME NEW c \in View(w)', NEW d \in View(w)',
                      Seen(w, c)'.order # None, Seen(w, c)'.order = Seen(w, d)'.order
               PROVE  c = d
    BY DEF Unique
  <2> QED BY <2>2, <2>3
<1>3. ASSUME NEW v \in Workers, v # w PROVE Unique(v)'
  <2>1. buf'[v] = buf[v] /\ Unique(v)
    BY <1>1, <1>3 DEF Locked, Alone
  <2> QED BY <2>1, ViewKept DEF Unique
<1>4. ASSUME NEW v \in Workers, v # w PROVE Apart(v, w)' /\ Apart(w, v)'
  <2>1. buf'[v] = buf[v] /\ Apart(v, w) /\ Apart(w, v)
    BY <1>1, <1>4 DEF Locked, Alone
  <2>2. /\ s.row \notin DOMAIN buf[v]
        /\ SetsOrder(s.set) /\ s.set.order # None =>
             \A d \in DOMAIN buf[v] : SetsOrder(buf[v][d]) => s.set.order # buf[v][d].order
    BY <1>4 DEF Blockers
  <2>3. DOMAIN buf'[v] \cap DOMAIN buf'[w] = {}
    BY <2>1, <2>2 DEF Apart
  <2>4. ASSUME NEW c \in DOMAIN buf[v], NEW d \in DOMAIN buf'[w],
               SetsOrder(buf[v][c]), SetsOrder(buf'[w][d]), buf'[w][d].order # None
        PROVE  buf'[w][d].order # buf[v][c].order
    <3>1. CASE d = s.row
      <4>1. CASE SetsOrder(s.set)
        BY <2>2, <2>4, <3>1, <4>1
      <4>2. CASE ~SetsOrder(s.set)
        <5>1. /\ s.row \in DOMAIN buf[w] /\ SetsOrder(buf[w][s.row])
              /\ buf'[w][s.row].order = buf[w][s.row].order
          BY <2>4, <3>1, <4>2
        <5> QED BY <2>1, <2>4, <3>1, <5>1 DEF Apart
      <4> QED BY <4>1, <4>2
    <3>2. CASE d # s.row
      <4>1. d \in DOMAIN buf[w] /\ buf'[w][d] = buf[w][d]
        BY <2>4, <3>2
      <4> QED BY <2>1, <2>4, <4>1 DEF Apart
    <3> QED BY <3>1, <3>2
  <2>5. \A c \in DOMAIN buf'[v], d \in DOMAIN buf'[w] :
          SetsOrder(buf'[v][c]) /\ SetsOrder(buf'[w][d]) /\ buf'[w][d].order # None =>
            buf'[w][d].order # buf'[v][c].order
    BY <2>1, <2>4
  <2>6. Apart(v, w)'
    BY <2>3, <2>5 DEF Apart, SetsOrder
  <2>7. Apart(w, v)'
    BY <2>3, <2>5 DEF Apart, SetsOrder
  <2> QED BY <2>6, <2>7
<1>5. ASSUME NEW u \in Workers, NEW v \in Workers, u # v, u # w, v # w PROVE Apart(u, v)'
  <2>1. buf'[u] = buf[u] /\ buf'[v] = buf[v] /\ Apart(u, v)
    BY <1>1, <1>5 DEF Locked, Alone
  <2> QED BY <2>1, ApartKept
<1> QED BY <1>2, <1>3, <1>4, <1>5 DEF Locked

\* Write: alone, it keeps the deliveries that orders on their way have.
LEMMA WriteSerial ==
  ASSUME IInv, NEW w \in Workers, Accompanied(w), Harmless(w), todo[w] # <<>>,
         NEW s \in Statement, s = Head(todo[w]), todo'[w] = Tail(todo[w]), Fits(s.row, s.set),
         \A x : x # s.row => Seen(w, x)' = Seen(w, x),
         \A c \in Columns :
           Seen(w, s.row)'[c] = IF c \in DOMAIN s.set THEN s.set[c] ELSE Seen(w, s.row)[c],
         View(w)' = View(w) \cup ({s.row} \cap Deliveries)
  PROVE  Accompanied(w)' /\ Harmless(w)'
<1> DEFINE t == todo[w]
<1>1. /\ t \in Seq(Statement) /\ 1 \in DOMAIN t /\ t[1] = s
      /\ \A k \in DOMAIN todo'[w] : k + 1 \in DOMAIN t /\ k + 1 # 1 /\ todo'[w][k] = t[k + 1]
      /\ \A k \in DOMAIN t : k # 1 => k - 1 \in DOMAIN todo'[w] /\ todo'[w][k - 1] = t[k]
  BY DEF IInv, Typed
<1> HIDE DEF t
<1>2. /\ Seen(w, s.row)'.status = IF "status" \in DOMAIN s.set THEN s.set["status"]
                                                         ELSE Seen(w, s.row).status
      /\ Seen(w, s.row)'.order = IF SetsOrder(s.set) THEN s.set["order"] ELSE Seen(w, s.row).order
  BY DEF Columns, SetsOrder
<1>3. /\ \A j, k \in DOMAIN t : t[j].row = t[k].row => j = k
      /\ \A k \in DOMAIN t : t[k].row \in View(w) /\ SetsOrder(t[k].set) =>
                               Seen(w, t[k].row).order = None
  BY DEF Harmless, t
<1>4. Accompanied(w)'
  <2> SUFFICES ASSUME NEW o \in Orders,
                      \/ Seen(w, o)'.status = "IN_ROUTE"
                      \/ \E k \in DOMAIN todo'[w] :
                           /\ todo'[w][k].row = o /\ "status" \in DOMAIN todo'[w][k].set
                           /\ todo'[w][k].set["status"] = "IN_ROUTE"
               PROVE  Covered(w, o)'
    BY DEF Accompanied
  <2>1. Covered(w, o)
    <3> SUFFICES \/ Seen(w, o).status = "IN_ROUTE"
                 \/ \E k \in DOMAIN t : t[k].row = o /\ "status" \in DOMAIN t[k].set
                                          /\ t[k].set["status"] = "IN_ROUTE"
      BY DEF Accompanied, t
    <3>1. CASE Seen(w, o)'.status = "IN_ROUTE"
      BY <1>1, <1>2, <3>1
    <3>2. CASE Seen(w, o)'.status # "IN_ROUTE"
      BY <1>1, <3>2
    <3> QED BY <3>1, <3>2
  <2>2. CASE \E d \in View(w) : Seen(w, d).order = o
    <3>1. PICK d \in View(w) : Seen(w, d).order = o
      BY <2>2
    <3>2. CASE d = s.row
      <4>1. ~SetsOrder(s.set)
        BY <1>1, <1>3, <3>1, <3>2, IdAssumption
      <4> QED BY <1>2, <3>1, <3>2, <4>1 DEF Covered
    <3>3. CASE d # s.row
      BY <3>1, <3>3 DEF Covered
    <3> QED BY <3>2, <3>3
  <2>3. CASE \E k \in DOMAIN t : /\ t[k].row \in Deliveries
                                 /\ SetsOrder(t[k].set) /\ t[k].set["order"] = o
    <3>1. PICK k \in DOMAIN t : /\ t[k].row \in Deliveries
                                /\ SetsOrder(t[k].set) /\ t[k].set["order"] = o
      BY <2>3
    <3>2. CASE k = 1
      BY <1>1, <1>2, <3>1, <3>2 DEF Covered
    <3>3. CASE k # 1
      BY <1>1, <3>1, <3>3 DEF Covered, SetsOrder
    <3> QED BY <3>2, <3>3
  <2> QED BY <2>1, <2>2, <2>3 DEF Covered, t
<1>5. Harmless(w)'
  <2>1. ASSUME NEW j \in DOMAIN todo'[w], NEW k \in DOMAIN todo'[w],
               todo'[w][j].row = todo'[w][k].row
        PROVE  j = k
    <3>1. j + 1 = k + 1
      BY <1>1, <1>3, <2>1
    <3>2. todo'[w] \in Seq(Statement)
      BY DEF IInv, Typed
    <3> QED BY <2>1, <3>1, <3>2
  <2>2. ASSUME NEW k \in DOMAIN todo'[w], NEW x \in View(w)', x = todo'[w][k].row,
               SetsOrder(todo'[w][k].set)
        PROVE  Seen(w, x)'.order = None
    <3>1. todo'[w][k] = t[k + 1] /\ k + 1 \in DOMAIN t /\ t[k + 1].row # s.row
      BY <1>1, <1>3, <2>2
    <3>2. t[k + 1].row \in View(w)
      BY <2>2, <3>1
    <3>3. Seen(w, t[k + 1].row).order = None
      BY <1>3, <2>2, <3>1, <3>2
    <3> QED BY <2>2, <3>1, <3>3
  <2> QED BY <2>1, <2>2 DEF Harmless, SetsOrder
<1> QED BY <1>4, <1>5

LEMMA WriteInv == ASSUME IInv, NEW w \in Workers, Write(w) PROVE IInv'
<1> DEFINE head == Head(todo[w])
<1>1. /\ InFlight(w) /\ Typed /\ Formed(w) /\ pc[w] = "write" /\ Blockers(w) = {}
      /\ todo[w] \in Seq(Statement) /\ todo[w] # <<>>
  <2>1. pc[w] = "write" /\ Blockers(w) = {}
    BY DEF Write
  <2> QED BY <2>1 DEF IInv, Formed, InFlight, Typed
<1>2. CASE Rollback(w, "rejected")
  BY <1>1, <1>2, RollbackInv
<1>3. CASE /\ ~Taken(w, head) /\ buf' = [buf EXCEPT ![w] = HeldAfter(w, head)]
           /\ todo' = [todo EXCEPT ![w] = Tail(@)]
           /\ Goto(w, AfterWrite(w))
           /\ UNCHANGED <<disk, begun, job, snap, dirty, hist>>
  <2>0. PICK s \in Statement : s = head
    BY <1>1
  <2>1. /\ s = Head(todo[w]) /\ s = todo[w][1] /\ 1 \in DOMAIN todo[w]
        /\ Tail(todo[w]) \in Seq(Statement) /\ ~Taken(w, s)
        /\ buf' = [buf EXCEPT ![w] = HeldAfter(w, s)]
    BY <1>1, <1>3, <2>0
  <2>2. \A k \in DOMAIN Tail(todo[w]) :
          k + 1 \in DOMAIN todo[w] /\ Tail(todo[w])[k] = todo[w][k + 1]
    BY <1>1
  <2>3. Len(todo[w]) > 1 <=> Tail(todo[w]) # <<>>
    <3>1. Len(Tail(todo[w])) = Len(todo[w]) - 1 /\ Len(todo[w]) \in Nat /\ Len(todo[w]) # 0
      BY <1>1
    <3>2. Tail(todo[w]) = <<>> <=> Len(Tail(todo[w])) = 0
      BY <2>1, EmptySeq
    <3>3. Len(todo[w]) > 1 <=> Len(Tail(todo[w])) # 0
      <4>1. \A n \in Nat : n # 0 => (n > 1 <=> n - 1 # 0)
        OBVIOUS
      <4> QED BY <3>1, <4>1
    <3> QED BY <3>2, <3>3
  <2>4. Fits(s.row, s.set)
    BY <1>1, <2>1 DEF Formed
  <2>5. /\ DOMAIN buf'[w] = DOMAIN buf[w] \cup {s.row} /\ DOMAIN buf'[w] \subseteq Rows
        /\ \A x \in DOMAIN buf'[w] : Fits(x, buf'[w][x])
        /\ \A x : x # s.row => Seen(w, x)' = Seen(w, x)
        /\ \A c \in Columns :
             Seen(w, s.row)'[c] = IF c \in DOMAIN s.set THEN s.set[c] ELSE Seen(w, s.row)[c]
        /\ View(w)' = View(w) \cup ({s.row} \cap Deliveries)
        /\ \A x \in DOMAIN buf[w] : x # s.row => buf'[w][x] = buf[w][x]
        /\ SetsOrder(buf'[w][s.row]) =>
             IF SetsOrder(s.set) THEN buf'[w][s.row].order = s.set.order
             ELSE /\ s.row \in DOMAIN buf[w] /\ SetsOrder(buf[w][s.row])
                  /\ buf'[w][s.row].order = buf[w][s.row].order
    <3>1. UNCHANGED <<live, db>>
      BY <1>3 DEF disk
    <3>2. buf'[w] = HeldAfter(w, s)
      BY <1>1, <2>1 DEF Typed
    <3> QED BY <2>1, <2>4, <3>1, <3>2, WriteView
  <2>6. /\ Alone(w) /\ pc'[w] = AfterWrite(w) /\ todo'[w] = Tail(todo[w])
        /\ AfterWrite(w) \in {"write", "commit", "findOrder"}
    BY <1>1, <1>3 DEF Goto, Alone, Typed, AfterWrite
  <2>7. Formed(w)'
    <3>1. /\ job'[w] = job[w] /\ snap'[w] = snap[w] /\ dirty'[w] = dirty[w]
      BY <1>3
    <3>2. \A k \in DOMAIN todo'[w] : Fits(todo'[w][k].row, todo'[w][k].set)
      BY <1>1, <2>2, <2>6 DEF Formed
    <3>3. pc'[w] = "write" <=> todo'[w] # <<>>
      BY <2>3, <2>6 DEF AfterWrite
    <3> QED BY <1>1, <2>5, <2>6, <3>1, <3>2, <3>3 DEF Formed, InFlight, AfterWrite, Loadable
  <2>8. \A v \in Workers : Formed(v)'
    BY <2>6, <2>7, OthersFormed DEF IInv
  <2>9. Typed'
    BY <1>1, <1>3, <2>1, <2>6 DEF Typed, Goto, disk, hist
  <2>10. OneDeliveryPerOrder'
    BY <1>3 DEF IInv, OneDeliveryPerOrder, disk
  <2>11. Locked'
    BY <1>1, <1>3, <2>1, <2>5, <2>6, WriteLocked DEF disk
  <2>12. \A o \in Orders : Earned(o)'
    <3> SUFFICES ASSUME NEW o \in Orders PROVE Announcing(o)' \subseteq Announcing(o)
      BY <1>1, <1>3, EarnedKept DEF IInv, disk, hist
    <3> QED BY <2>6 DEF Announcing, Alone
  <2>13. ~overlap' => Serial'
    <3> SUFFICES ASSUME ~overlap' PROVE Serial'
      OBVIOUS
    <3>1. Serial /\ ~dirty[w] /\ Accompanied(w) /\ Harmless(w)
      BY <1>1, <1>3 DEF IInv, Serial, Undisturbed, hist
    <3>2. Accompanied(w)' /\ Harmless(w)'
      BY <1>1, <2>1, <2>4, <2>5, <2>6, <3>1, WriteSerial
    <3>3. ~dirty'[w] /\ pc'[w] # "diff"
      BY <1>3, <2>6, <3>1
    <3> QED BY <1>1, <1>3, <2>6, <3>1, <3>2, <3>3, SerialKept DEF disk, hist
  <2> QED BY <2>8, <2>9, <2>10, <2>11, <2>12, <2>13 DEF IInv
<1> QED BY <1>2, <1>3 DEF Write, HeldAfter, SetAfter, SetBefore

\* Commit: what the transaction saw becomes the table, and what the others see of it
\* stays unique because they name other orders.
LEMMA CommitLocked ==
  ASSUME IInv, NEW w \in Workers, Alone(w), buf'[w] = Empty,
         db' = [x \in Rows |-> Seen(w, x)], live' = View(w)
  PROVE  OneDeliveryPerOrder' /\ Locked'
<1>1. Typed /\ Locked /\ OneDeliveryPerOrder /\ Unique(w) /\ Formed(w) /\ live' \subseteq Rows
  BY DEF IInv, Locked, Typed, View
<1>2. OneDeliveryPerOrder'
  BY <1>1 DEF OneDeliveryPerOrder, Unique
<1>3. Unique(w)'
  <2>1. View(w)' = live' /\ \A x : Seen(w, x)' = db'[x]
    BY DEF View, Seen, Empty
  <2> QED BY <1>2, <2>1 DEF OneDeliveryPerOrder, Unique
<1>4. ASSUME NEW v \in Workers, v # w PROVE Unique(v)'
  <2>1. buf'[v] = buf[v] /\ Unique(v) /\ Apart(v, w) /\ Apart(w, v) /\ Formed(v)
    BY <1>1, <1>4 DEF IInv, Locked, Alone
  <2>2. View(v)' = View(v) \cup View(w) /\ View(v)' \subseteq Rows
    BY <1>1, <2>1 DEF View, Typed
  <2>3. ASSUME NEW x \in Rows
        PROVE  Seen(v, x)' = IF x \in DOMAIN buf[v] THEN Seen(v, x) ELSE Seen(w, x)
    <3>1. CASE x \in DOMAIN buf[v]
      <4>1. db'[x] = db[x]
        BY <2>1, <3>1 DEF Apart, Seen
      <4> QED BY <2>1, <3>1, <4>1 DEF Seen, Merged
    <3>2. CASE x \notin DOMAIN buf[v]
      BY <2>1, <3>2 DEF Seen
    <3> QED BY <3>1, <3>2
  <2>4. ASSUME NEW c \in View(v)', NEW d \in View(v)', c \in DOMAIN buf[v], d \notin DOMAIN buf[v],
               Seen(v, c).order # None
        PROVE  Seen(v, c).order # Seen(w, d).order
    <3>1. c \in View(v) /\ c \notin DOMAIN buf[w] /\ Seen(w, c) = db[c] /\ c \in Rows
      BY <2>1, <2>2, <2>4 DEF View, Apart, Seen
    <3>2. CASE d \in DOMAIN buf[w] /\ SetsOrder(buf[w][d])
      <4>1. Seen(w, d).order = buf[w][d].order
        BY <3>2 DEF Seen, Merged, SetsOrder, Columns
      <4>2. CASE SetsOrder(buf[v][c])
        <5>1. Seen(v, c).order = buf[v][c].order
          BY <2>4, <4>2 DEF Seen, Merged, SetsOrder, Columns
        <5> QED BY <2>1, <2>4, <3>2, <4>1, <4>2, <5>1 DEF Apart
      <4>3. CASE ~SetsOrder(buf[v][c])
        <5>1. Seen(v, c).order = db[c].order
          BY <2>4, <4>3 DEF Seen, Merged, SetsOrder, Columns
        <5>2. c \in live /\ d \in View(w)
          BY <1>1, <2>2, <2>4, <3>1, <3>2, <5>1 DEF View, Typed
        <5> QED BY <1>1, <2>4, <3>1, <5>1, <5>2 DEF Unique, View
      <4> QED BY <4>2, <4>3
    <3>3. CASE ~(d \in DOMAIN buf[w] /\ SetsOrder(buf[w][d]))
      <4>1. Seen(w, d).order = db[d].order
        BY <3>3 DEF Seen, Merged, SetsOrder, Columns
      <4>2. Seen(v, d) = db[d]
        BY <2>4 DEF Seen
      <4>3. CASE d \in live
        BY <2>1, <2>4, <3>1, <4>1, <4>2, <4>3 DEF Unique, View
      <4>4. CASE d \notin live
        <5>1. d \in Deliveries
          BY <1>1, <2>2, <4>4 DEF View
        <5> QED BY <1>1, <2>4, <4>1, <4>4, <5>1 DEF Typed
      <4> QED BY <4>3, <4>4
    <3> QED BY <3>2, <3>3
  <2> SUFFICES ASSUME NEW c \in View(v)', NEW d \in View(v)',
                      Seen(v, c)'.order # None, Seen(v, c)'.order = Seen(v, d)'.order
               PROVE  c = d
    BY DEF Unique
  <2>5. c \in Rows /\ d \in Rows
    BY <2>2
  <2>6. CASE c \in DOMAIN buf[v] /\ d \in DOMAIN buf[v]
    <3>1. c \in View(v) /\ d \in View(v)
      BY <1>1, <2>2, <2>6, <2>5 DEF View, Typed
    <3> QED BY <2>1, <2>3, <2>5, <2>6, <3>1 DEF Unique
  <2>7. CASE c \notin DOMAIN buf[v] /\ d \notin DOMAIN buf[v]
    <3>1. c \in View(w) /\ d \in View(w)
      BY <2>2, <2>7 DEF View
    <3> QED BY <1>1, <2>3, <2>5, <2>7, <3>1 DEF Unique
  <2>8. CASE c \in DOMAIN buf[v] /\ d \notin DOMAIN buf[v]
    BY <2>3, <2>4, <2>5, <2>8
  <2>9. CASE c \notin DOMAIN buf[v] /\ d \in DOMAIN buf[v]
    BY <2>3, <2>4, <2>5, <2>9
  <2> QED BY <2>6, <2>7, <2>8, <2>9
<1>5. ASSUME NEW u \in Workers, NEW v \in Workers, u # v PROVE Apart(u, v)'
  <2>1. CASE u = w \/ v = w
    BY <2>1 DEF Apart, Empty
  <2>2. CASE u # w /\ v # w
    <3>1. buf'[u] = buf[u] /\ buf'[v] = buf[v] /\ Apart(u, v)
      BY <1>1, <1>5, <2>2 DEF Locked, Alone
    <3> QED BY <3>1, ApartKept
  <2> QED BY <2>1, <2>2
<1> QED BY <1>2, <1>3, <1>4, <1>5 DEF Locked

\* Commit: what the request did holds of the table, and nothing of it is left to undo.
LEMMA CommitStep ==
  ASSUME IInv, NEW w \in Workers, InFlight(w), Alone(w), Formed(w)', buf'[w] = Empty,
         todo[w] = <<>>, todo'[w] = <<>>, pc'[w] # "diff", dirty'[w] => dirty[w],
         db' = [x \in Rows |-> Seen(w, x)], live' = View(w),
         reverted' = (reverted \/ dirty[w]), credits' = credits, overlap' = overlap,
         pc' \in [Workers -> Resting \cup Stages],
         job' \in [Workers -> Request \cup {NoRequest}],
         todo' \in [Workers -> Seq(Statement)],
         dirty' \in [Workers -> BOOLEAN], begun' = begun,
         completions' \in [Orders -> Nat],
         DOMAIN snap' = Workers, DOMAIN buf' = Workers,
         \A o \in Orders : Earned(o)'
  PROVE  IInv'
<1>1. Typed /\ Formed(w)
  BY DEF IInv
<1>2. Typed'
  <2>1. live' \subseteq Deliveries
    BY <1>1 DEF View, Typed
  <2>2. db' \in [Rows -> Row] /\ \A o \in Orders : db'[o].status \in OrderStatus /\ db'[o].order = None
    BY <1>1, SeenType
  <2>3. \A d \in Deliveries \ live' : db'[d].order = None
    BY <1>1 DEF View, Seen, Typed
  <2>4. {reverted', overlap'} \subseteq BOOLEAN
    BY <1>1 DEF Typed
  <2> QED BY <1>1, <2>1, <2>2, <2>3, <2>4 DEF Typed
<1>3. \A v \in Workers : Formed(v)'
  BY OthersFormed DEF IInv
<1>4. OneDeliveryPerOrder' /\ Locked'
  BY CommitLocked
<1>5. ~overlap' => Serial'
  <2> SUFFICES ASSUME ~overlap' PROVE Serial'
    OBVIOUS
  <2>1. Serial /\ Undisturbed(w)
    BY DEF IInv, Serial
  <2>2. \A v \in Workers \ {w} : ~InFlight(v)'
    BY <2>1 DEF Undisturbed, Alone, InFlight
  <2>3. ~reverted' /\ ~dirty'[w]
    BY <2>1 DEF Serial, Undisturbed
  <2>4. ASSUME NEW o \in Orders, db'[o].status = "IN_ROUTE"
        PROVE  \E d \in live' : db'[d].order = o
    <3>1. Seen(w, o).status = "IN_ROUTE"
      BY <2>4
    <3>2. \E d \in View(w) : Seen(w, d).order = o
      BY <2>1, <3>1 DEF Undisturbed, Accompanied, Covered
    <3>3. View(w) \subseteq Rows
      BY <1>1 DEF View, Typed
    <3> QED BY <3>2, <3>3
  <2>5. View(w)' = live' /\ \A x : Seen(w, x)' = db'[x]
    BY DEF View, Seen, Empty
  <2>6. Accompanied(w)'
    <3> SUFFICES ASSUME NEW o \in Orders, Seen(w, o)'.status = "IN_ROUTE" PROVE Covered(w, o)'
      <4>1. DOMAIN todo'[w] = {}
        OBVIOUS
      <4> QED BY <4>1 DEF Accompanied
    <3>1. db'[o].status = "IN_ROUTE"
      BY <2>5
    <3>2. \E d \in View(w)' : Seen(w, d)'.order = o
      <4>1. PICK d \in live' : db'[d].order = o
        BY <2>4, <3>1
      <4>2. d \in View(w)' /\ Seen(w, d)' = db'[d]
        BY <2>5
      <4> QED BY <4>1, <4>2, Zenon
    <3> QED BY <3>2 DEF Covered
  <2>7. Harmless(w)'
    BY DEF Harmless
  <2> QED BY <2>2, <2>3, <2>4, <2>6, <2>7 DEF Serial, Undisturbed
<1> QED BY <1>2, <1>3, <1>4, <1>5 DEF IInv

LEMMA CommitInv == ASSUME IInv, NEW w \in Workers, Commit(w) PROVE IInv'
<1>1. /\ InFlight(w) /\ Typed /\ Formed(w) /\ pc[w] = "commit" /\ todo[w] = <<>>
      /\ job[w].kind # None
  BY DEF IInv, Commit, Formed, InFlight
<1>2. /\ db' = [x \in Rows |-> Seen(w, x)] /\ live' = View(w)
      /\ reverted' = (reverted \/ dirty[w]) /\ credits' = credits /\ overlap' = overlap
  BY DEF Commit, View
<1>3. CASE job[w].kind = "complete"
  <2>1. /\ completions' = [o \in Orders |-> completions[o] + (IF o = job[w].target THEN 1 ELSE 0)]
        /\ buf' = [buf EXCEPT ![w] = Empty] /\ Goto(w, "log")
        /\ UNCHANGED <<begun, job, snap, todo, dirty>>
    BY <1>3 DEF Commit
  <2>2. Alone(w) /\ pc'[w] = "log" /\ buf'[w] = Empty
    BY <1>1, <2>1 DEF Goto, Alone, Typed
  <2>3. Formed(w)'
    BY <1>1, <1>3, <2>1, <2>2 DEF Formed, InFlight, Loadable, Empty
  <2>4. /\ pc' \in [Workers -> Resting \cup Stages] /\ DOMAIN buf' = Workers
        /\ completions' \in [Orders -> Nat]
        /\ \A o \in Orders : completions'[o] = completions[o] + (IF o = job[w].target THEN 1 ELSE 0)
    BY <1>1, <2>1 DEF Goto, Typed
  <2>5. ASSUME NEW o \in Orders PROVE Earned(o)'
    <3>1. Earned(o) /\ Cardinality(Announcing(o)) \in Nat /\ credits[o] \in Nat /\ completions[o] \in Nat
      BY <1>1, FS_CardinalityType DEF IInv, Earned, Typed
    <3>2. CASE o = job[w].target
      <4>1. Announcing(o)' = Announcing(o) \cup {w} /\ w \notin Announcing(o)
        BY <1>1, <2>1, <2>2, <3>2 DEF Announcing, Alone
      <4>2. /\ IsFiniteSet(Announcing(o)')
            /\ Cardinality(Announcing(o)') = Cardinality(Announcing(o)) + 1
        BY <3>1, <4>1, FS_AddElement DEF Earned
      <4>3. completions'[o] = completions[o] + 1 /\ credits'[o] = credits[o]
        BY <1>2, <2>4, <3>2
      <4> QED BY <3>1, <4>2, <4>3 DEF Earned
    <3>3. CASE o # job[w].target
      <4>1. Announcing(o)' = Announcing(o)
        BY <1>1, <2>1, <2>2, <3>3 DEF Announcing, Alone
      <4>2. completions'[o] = completions[o] /\ credits'[o] = credits[o]
        BY <1>2, <2>4, <3>1, <3>3
      <4> QED BY <3>1, <4>1, <4>2 DEF Earned
    <3> QED BY <3>2, <3>3
  <2> QED BY <1>1, <1>2, <2>1, <2>2, <2>3, <2>4, <2>5, CommitStep DEF Typed
<1>4. CASE job[w].kind # "complete"
  <2>1. Leave(w, "idle") /\ UNCHANGED completions
    BY <1>4 DEF Commit
  <2>2. /\ Alone(w) /\ Formed(w)' /\ pc'[w] = "idle" /\ buf'[w] = Empty
        /\ pc' \in [Workers -> Resting \cup Stages]
        /\ job' \in [Workers -> Request \cup {NoRequest}]
        /\ todo' \in [Workers -> Seq(Statement)]
        /\ dirty' \in [Workers -> BOOLEAN]
        /\ DOMAIN snap' = Workers /\ DOMAIN buf' = Workers
        /\ begun' = begun /\ ~dirty'[w] /\ todo'[w] = <<>>
    BY <1>1, <2>1, LeaveMoves DEF Formed, InFlight
  <2>3. \A o \in Orders : Earned(o)'
    <3> SUFFICES ASSUME NEW o \in Orders PROVE Announcing(o)' \subseteq Announcing(o)
      BY <1>1, <1>2, <2>1, EarnedKept DEF IInv
    <3> QED BY <2>2 DEF Announcing, Alone
  <2> QED BY <1>1, <1>2, <2>1, <2>2, <2>3, CommitStep DEF Typed
<1> QED BY <1>3, <1>4

LEMMA InitInv == Init => IInv
<1> SUFFICES ASSUME Init PROVE IInv
  OBVIOUS
<1>1. Typed
  <2>1. <<>> \in Seq(Statement) /\ 0 \in 0..MaxRequests
    BY IdAssumption
  <2>2. db \in [Rows -> Row]
    BY DEF Init, Row, OrderStatus
  <2>3. \A o \in Rows : db[o].status \in OrderStatus /\ db[o].order = None
    BY DEF Init, OrderStatus
  <2> QED BY <2>1, <2>2, <2>3 DEF Init, Typed
<1>2. \A w \in Workers : Formed(w)
  BY DEF Init, Formed, InFlight, NoEntity, Empty
<1>3. OneDeliveryPerOrder /\ Locked
  BY DEF Init, OneDeliveryPerOrder, Locked, Unique, Apart, View, Empty
<1>4. \A o \in Orders : Earned(o)
  <2> SUFFICES ASSUME NEW o \in Orders PROVE Earned(o)
    OBVIOUS
  <2>1. Announcing(o) = {}
    BY DEF Init, Announcing
  <2> QED BY <2>1, FS_EmptySet DEF Earned, Init
<1>5. Serial
  BY DEF Init, Serial, InFlight
<1> QED BY <1>1, <1>2, <1>3, <1>4, <1>5 DEF IInv

LEMMA NextInv == IInv /\ [Next]_vars => IInv'
<1> SUFFICES ASSUME IInv, [Next]_vars PROVE IInv'
  OBVIOUS
<1>1. CASE UNCHANGED vars
  <2>1. UNCHANGED <<live, db, credits, begun, pc, job, snap, todo, buf, dirty, reverted,
                    overlap, completions>>
    BY <1>1 DEF vars, disk, memory, hist
  <2>2. Typed' /\ OneDeliveryPerOrder'
    BY <2>1 DEF IInv, Typed, OneDeliveryPerOrder
  <2>3. \A w \in Workers : Formed(w)'
    BY <2>1 DEF IInv, Formed, InFlight, Loadable
  <2>4. Locked'
    BY <2>1, LockedKept DEF IInv
  <2>5. \A o \in Orders : Announcing(o)' = Announcing(o)
    BY <2>1 DEF Announcing
  <2>6. \A o \in Orders : Earned(o)'
    BY <2>1, <2>5 DEF IInv, Earned
  <2>7. ASSUME Serial PROVE Serial'
    <3>1. \A w : InFlight(w)' = InFlight(w) /\ \A x : Loaded(x)' = Loaded(x)
      BY <2>1 DEF InFlight, Loaded, LinkOf
    <3>2. \A w \in Workers : InFlight(w) => Accompanied(w)' /\ Harmless(w)'
      BY <2>1, <2>7, SameSerial DEF Serial, Undisturbed
    <3> QED BY <2>1, <2>7, <3>1, <3>2 DEF Serial, Undisturbed
  <2> QED BY <2>1, <2>2, <2>3, <2>4, <2>6, <2>7 DEF IInv
<1>2. ASSUME NEW w \in Workers, NEW q \in Requests, Begin(w, q) PROVE IInv'
  BY <1>2, BeginInv
<1>3. ASSUME NEW w \in Workers, Step(w) PROVE IInv'
  <2>1. CASE AbortDeadlock(w)
    <3>1. InFlight(w)
      BY <2>1 DEF AbortDeadlock, Deadlocked, Blockers, InFlight
    <3> QED BY <2>1, <3>1, RollbackInv DEF AbortDeadlock
  <2> QED BY <1>3, <2>1, FindInv, DiffInv, WriteInv, FindOrderInv, CommitInv, LogInv,
             AnnounceInv DEF Step
<1>4. ASSUME NEW w \in Workers, Fail(w) PROVE IInv'
  <2>1. InFlight(w) /\ Rollback(w, "failed")
    BY <1>4 DEF Fail, InFlight
  <2> QED BY <2>1, RollbackInv
<1> QED BY <1>1, <1>2, <1>3, <1>4 DEF Next

-----------------------------------------------------------------------------
(* Theorems                                                                *)

\* The types; what a worker holds while it rests; a row is locked by one transaction
\* at a time: for any orders, drivers, requests and number of workers.
THEOREM TypeCorrect == Spec => []TypeOK
<1>1. IInv => TypeOK
  BY Meaning
<1> QED BY <1>1, InitInv, NextInv, PTL DEF Spec

\* order.service.ts:329-339, delivery.service.ts:59-93 and the relation that a save of an order
\* restores: an order never has two deliveries, in whatever order dispatches, creations,
\* patches and stale saves run, wait for each other and are rolled back.
THEOREM DeliveryIsUnique == Spec => []OneDeliveryPerOrder
<1>1. IInv => OneDeliveryPerOrder
  BY Meaning
<1> QED BY <1>1, InitInv, NextInv, PTL DEF Spec

\* delivery.service.ts:213-276 with delivery-financial.listener.ts: a credit stands for a
\* completion that was committed, and no completion is credited twice.
THEOREM RevenueIsEarned == Spec => []CreditsAreEarned
<1>1. IInv => CreditsAreEarned
  BY Meaning
<1> QED BY <1>1, InitInv, NextInv, PTL DEF Spec

\* A save undoes a column it was not asked to change only after two requests were
\* served at the same time.
THEOREM RevertsNeedOverlap == Spec => []SerialSavesDoNotRevert
<1>1. IInv => SerialSavesDoNotRevert
  BY Meaning
<1> QED BY <1>1, InitInv, NextInv, PTL DEF Spec

\* As long as requests are served one at a time, an order that is IN_ROUTE has its
\* delivery, whatever is edited, cancelled, completed or rolled back in between.
THEOREM RoutesAreAccompanied == Spec => []SerialOrdersInRouteHaveADelivery
<1>1. IInv => SerialOrdersInRouteHaveADelivery
  BY Meaning
<1> QED BY <1>1, InitInv, NextInv, PTL DEF Spec

=============================================================================
