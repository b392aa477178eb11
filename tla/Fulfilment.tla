----------------------------- MODULE Fulfilment -----------------------------
(***************************************************************************)
(* Orders on their way to the customer: the handlers of order.service.ts   *)
(* that follow the creation of an order, those of delivery.service.ts, and *)
(* the revenue that the completion of a delivery announces to the          *)
(* financial module (delivery-financial.listener.ts).                      *)
(*                                                                         *)
(* Every handler loads an entity with its relations, changes it in memory  *)
(* and saves it.  Nothing is locked in between.  A save selects the row    *)
(* again and updates whatever DIFFERS from the object in memory, relations *)
(* included: an object that is out of date undoes what others committed.   *)
(***************************************************************************)
EXTENDS Naturals, Sequences, FiniteSets

CONSTANTS
  Workers,        (* Requests served at the same time.                      *)
  Orders,         (* Orders that exist, and                                 *)
  Deliveries,     (* ids for deliveries; bounds how many are ever inserted. *)
  Drivers,        (* Rows of the driver table.                              *)
  UserOf,         (* The user account of a driver.                          *)
  Requests,       (* What clients may ask for.                              *)
  MaxRequests,    (* Bounds the requests ever begun.                        *)
  DriverRequired  (* delivery.driverId is NOT NULL: the migrations say so,  *)
                  (* the entity does not.                                   *)

None == "none"
NoRequest == [kind |-> None, target |-> None, driver |-> None,
              status |-> None, order |-> None, by |-> None]

OrderStatus == {"PENDING", "ACCEPTED", "ASSIGNED", "IN_ROUTE", "DELIVERED",
                "COMPLETED", "CANCELLED"}
DeliveryStatus == {"PENDING", "IN_ROUTE", "ARRIVED", "COMPLETED", "CANCELLED"}

OrderKinds == {"approve", "cancel", "assign", "finish", "edit", "dispatch"}
DeliveryKinds == {"patch", "setStatus", "start", "track", "complete"}

Request ==
  [kind   : OrderKinds \cup DeliveryKinds \cup {"create"},
   target : Orders \cup Deliveries \cup {None},     \* the id in the URL
   driver : Drivers \cup {None},                    \* driverId in the body
   status : DeliveryStatus \cup {None},             \* status in the body
   order  : Orders \cup {None},                     \* orderId in the body
   by     : {UserOf[d] : d \in Drivers} \cup {None}]  \* the user who asks

ASSUME IdAssumption ==
  /\ None \notin Orders \cup Deliveries \cup Drivers
  /\ Orders \cap Deliveries = {}
  /\ \A d \in Drivers : UserOf[d] \notin Drivers \cup {None}
  /\ MaxRequests \in Nat /\ DriverRequired \in BOOLEAN

ASSUME RequestAssumption ==
  /\ Requests \subseteq Request
  /\ \A q \in Requests :
       /\ q.kind \in OrderKinds => q.target \in Orders
       /\ q.kind \in DeliveryKinds => q.target \in Deliveries
       /\ q.kind = "assign" => q.driver # None
       /\ q.kind = "setStatus" => q.status # None

Rows == Orders \cup Deliveries
Columns == {"status", "driver", "order"}

VARIABLES
  live,         (* The deliveries that exist.                               *)
  db,           (* The committed rows: status, driverId, orderId.           *)
  credits,      (* CREDIT transactions of each order.                       *)
  begun,        (* Requests begun so far.                                   *)
  pc,           (* Where a worker stands.                                   *)
  job,          (* The request it serves.                                   *)
  snap,         (* The entity it has loaded, with the related id.           *)
  todo,         (* UPDATEs and INSERTs its save still has to send.          *)
  buf,          (* Rows its transaction has written, hence locked, and the  *)
                (* columns it set.                                          *)
  dirty,        (* History: its save undoes a column it did not change.     *)
  reverted,     (* History: such a save was committed.                      *)
  overlap,      (* History: two requests were served at the same time.      *)
  completions   (* History: committed delivery completions of an order.     *)

disk   == <<live, db, credits>>
memory == <<job, snap, todo, buf, dirty>>
hist   == <<reverted, overlap, completions>>
vars   == <<disk, begun, pc, memory, hist>>

Empty == [x \in {} |-> None]
NoEntity == [status |-> None, driver |-> None, link |-> None]
Resting == {"idle", "failed", "forbidden", "rejected"}

-----------------------------------------------------------------------------
(* Loading and comparing entities.                                         *)

\* The delivery joined to an order, if any.
LinkOf(o) ==
  IF \E d \in live : db[d].order = o THEN CHOOSE d \in live : db[d].order = o
                                     ELSE None

\* findOne with its relations.  The mutant forgets the delivery of an order.
LoadedWithoutDelivery(x) ==
  [status |-> db[x].status, driver |-> db[x].driver, link |-> db[x].order]
Loaded(x) ==
  [status |-> db[x].status, driver |-> db[x].driver,
   link   |-> IF x \in Orders THEN LinkOf(x) ELSE db[x].order]

\* The status each handler assigns.
Assigned == [approve |-> "ACCEPTED", cancel |-> "CANCELLED",
             assign |-> "ASSIGNED", finish |-> "COMPLETED",
             dispatch |-> "IN_ROUTE", complete |-> "COMPLETED"]

StatusAfter(q, e) ==
  IF q.kind \in DOMAIN Assigned THEN Assigned[q.kind]
  ELSE IF q.kind \in {"setStatus", "patch"} /\ q.status # None THEN q.status
  ELSE IF q.kind = "track" /\ e.status = "PENDING" THEN "IN_ROUTE" ELSE e.status

\* Setting driverId or orderId while the relation is loaded has no effect on the
\* row: TypeORM takes the related object for the column's value.
DriverAfter(q, e) ==
  IF q.kind \in {"assign", "patch"} /\ e.driver = None THEN q.driver ELSE e.driver
LinkAfter(q, e) == IF q.kind = "patch" /\ e.link = None THEN q.order ELSE e.link

\* The columns of the entity in memory when it is saved.
Wanted(q, e) ==
  [status |-> StatusAfter(q, e), driver |-> DriverAfter(q, e),
   order |-> IF q.target \in Deliveries THEN LinkAfter(q, e) ELSE None]

Differing(q, e) == {c \in Columns : Wanted(q, e)[c] # db[q.target][c]}

\* Columns the save changes only because the entity is out of date.
Stale(q, e) ==
  {c \in Differing(q, e) : IF c = "order" THEN LinkAfter(q, e) = e.link
                                         ELSE Wanted(q, e)[c] = e[c]}

\* Saving an order also restores its loaded delivery relation: a delivery that
\* was not there is cut off, one that was is tied to it again.
Relink(q, e) ==
  IF q.kind \notin OrderKinds \/ e.link = LinkOf(q.target) THEN <<>>
  ELSE IF e.link = None THEN <<[row |-> LinkOf(q.target), set |-> [order |-> None]]>>
  ELSE <<[row |-> e.link, set |-> [order |-> q.target]]>>

Update(q, e) ==
  IF q.kind \in {"setStatus", "patch"} /\ Differing(q, e) = {} THEN <<>>
  ELSE <<[row |-> q.target, set |-> [c \in Differing(q, e) |-> Wanted(q, e)[c]]]>>

Unused == {d \in Deliveries \ live :
             \A w \in Workers : /\ d \notin DOMAIN buf[w]
                                /\ \A k \in DOMAIN todo[w] : todo[w][k].row # d}

\* A new delivery is PENDING.
Insert(o, driver) ==
  <<[row |-> CHOOSE d \in Unused : TRUE,
     set |-> [status |-> "PENDING", driver |-> driver, order |-> o]]>>

\* What the handler sends to the database: dispatch inserts the delivery after
\* the order's update.
Plan(q, e) ==
  Update(q, e) \o Relink(q, e)
    \o (IF q.kind = "dispatch" THEN Insert(q.target, e.driver) ELSE <<>>)

-----------------------------------------------------------------------------
(* The steps of a request.                                                 *)

Init ==
  /\ live = {}
  /\ db = [x \in Rows |-> [status |-> "PENDING", driver |-> None, order |-> None]]
  /\ credits = [o \in Orders |-> 0]
  /\ begun = 0
  /\ pc = [w \in Workers |-> "idle"]
  /\ job = [w \in Workers |-> NoRequest]
  /\ snap = [w \in Workers |-> NoEntity]
  /\ todo = [w \in Workers |-> <<>>]
  /\ buf = [w \in Workers |-> Empty]
  /\ dirty = [w \in Workers |-> FALSE]
  /\ reverted = FALSE
  /\ overlap = FALSE
  /\ completions = [o \in Orders |-> 0]

Goto(w, l) == pc' = [pc EXCEPT ![w] = l]

\* The request is answered; whatever it held in memory or uncommitted is gone.
Leave(w, l) ==
  /\ Goto(w, l)
  /\ job' = [job EXCEPT ![w] = NoRequest]
  /\ snap' = [snap EXCEPT ![w] = NoEntity]
  /\ todo' = [todo EXCEPT ![w] = <<>>]
  /\ buf' = [buf EXCEPT ![w] = Empty]
  /\ dirty' = [dirty EXCEPT ![w] = FALSE]
  /\ UNCHANGED begun

\* The mutant answers and leaves the transaction open.
RollbackForgotten(w, l) ==
  /\ Goto(w, l)
  /\ job' = [job EXCEPT ![w] = NoRequest]
  /\ snap' = [snap EXCEPT ![w] = NoEntity]
  /\ todo' = [todo EXCEPT ![w] = <<>>]
  /\ UNCHANGED <<disk, buf, dirty, begun, hist>>

\* What it wrote is gone, and so are its locks.
Rollback(w, l) == Leave(w, l) /\ UNCHANGED <<disk, hist>>

\* create and createIndependent insert what the body says; every other handler
\* loads its entity first.
Begin(w, q) ==
  /\ pc[w] \in Resting
  /\ begun < MaxRequests
  /\ Unused # {}
  /\ begun' = begun + 1
  /\ job' = [job EXCEPT ![w] = q]
  /\ todo' = [todo EXCEPT ![w] = IF q.kind = "create" THEN Insert(q.order, q.driver)
                                                      ELSE <<>>]
  /\ Goto(w, IF q.kind = "create" THEN "write" ELSE "find")
  /\ overlap' = (overlap \/ \E v \in Workers : pc[v] \notin Resting)
  /\ UNCHANGED <<disk, snap, buf, dirty, reverted, completions>>

\* 'Cannot dispatch order in status', 'This delivery is not assigned to you'.
Forbidden(q, e) ==
  \/ q.kind = "dispatch" /\ e.status \notin {"ACCEPTED", "ASSIGNED"}
  \/ q.kind = "track" /\ e.driver \notin {None, q.by}

Find(w) ==
  /\ pc[w] = "find"
  /\ LET q == job[w]  e == Loaded(q.target) IN
     \/ q.target \in Deliveries \ live /\ Rollback(w, "failed")
     \/ /\ q.target \in Orders \cup live
        /\ IF Forbidden(q, e)
           THEN Rollback(w, "forbidden")
           ELSE /\ snap' = [snap EXCEPT ![w] = e]
                /\ Goto(w, "diff")
                /\ UNCHANGED <<disk, begun, job, todo, buf, dirty, hist>>

\* save selects the row and plans its statements.
Diff(w) ==
  /\ pc[w] = "diff"
  /\ job[w].kind = "dispatch" => Unused # {}
  /\ LET q == job[w]  e == snap[w]  plan == Plan(q, e) IN
     /\ todo' = [todo EXCEPT ![w] = plan]
     /\ dirty' = [dirty EXCEPT ![w] = @ \/ Stale(q, e) # {} \/ Relink(q, e) # <<>>]
     /\ Goto(w, IF plan = <<>> THEN "commit" ELSE "write")
  /\ UNCHANGED <<disk, begun, job, snap, buf, hist>>

SetsOrder(cols) == "order" \in DOMAIN cols

\* Transactions that hold the row, or an index entry of the order it names.
Blockers(w) ==
  IF pc[w] # "write" THEN {}
  ELSE LET s == Head(todo[w]) IN
       {v \in Workers \ {w} :
          \/ s.row \in DOMAIN buf[v]
          \/ /\ SetsOrder(s.set) /\ s.set.order # None
             /\ \E d \in DOMAIN buf[v] :
                  /\ SetsOrder(buf[v][d])
                  /\ s.set.order \in {buf[v][d].order, db[d].order}}

\* The row as the transaction sees it once cols are set.
Merged(x, cols) ==
  [c \in Columns |-> IF c \in DOMAIN cols THEN cols[c] ELSE db[x][c]]

Seen(w, x) == IF x \in DOMAIN buf[w] THEN Merged(x, buf[w][x]) ELSE db[x]

\* The unique constraint on delivery.orderId; the mutant has none.
NeverTaken(w, s) == FALSE /\ s.row \in Rows /\ w \in Workers
Taken(w, s) ==
  /\ SetsOrder(s.set) /\ s.set.order # None
  /\ \E d \in (live \cup (Deliveries \cap DOMAIN buf[w])) \ {s.row} :
       Seen(w, d).order = s.set.order

\* Where a handler goes when its save is through; complete still has the order to
\* update.  The mutants run past the last statement, commit after every one, and
\* announce a completion that is not committed.
AfterWriteOverrun(w) == IF Len(todo[w]) > 0 THEN "write" ELSE "commit"
AfterWriteAutocommit(w) == IF Len(todo[w]) > 0 THEN "commit" ELSE "failed"
AfterWriteEagerly(w) ==
  IF Len(todo[w]) > 1 THEN "write"
  ELSE IF job[w].kind # "complete" THEN "commit"
  ELSE IF job[w].target \in Deliveries /\ snap[w].link # None THEN "findOrder"
  ELSE "announce"
AfterWrite(w) ==
  IF Len(todo[w]) > 1 THEN "write"
  ELSE IF /\ job[w].kind = "complete" /\ job[w].target \in Deliveries
          /\ snap[w].link # None
       THEN "findOrder" ELSE "commit"

Write(w) ==
  /\ pc[w] = "write"
  /\ Blockers(w) = {}
  /\ LET s == Head(todo[w])
         had == IF s.row \in DOMAIN buf[w] THEN buf[w][s.row] ELSE Empty
         cols == [c \in DOMAIN had \cup DOMAIN s.set |->
                    IF c \in DOMAIN s.set THEN s.set[c] ELSE had[c]] IN
     IF \/ Taken(w, s)
        \/ /\ DriverRequired /\ s.row \in Deliveries
           /\ "driver" \in DOMAIN s.set /\ s.set.driver = None
     THEN Rollback(w, "rejected")
     ELSE /\ buf' = [buf EXCEPT ![w] = [x \in DOMAIN @ \cup {s.row} |->
                                          IF x = s.row THEN cols ELSE @[x]]]
          /\ todo' = [todo EXCEPT ![w] = Tail(@)]
          /\ Goto(w, AfterWrite(w))
          /\ UNCHANGED <<disk, begun, job, snap, dirty, hist>>

\* complete reads the delivery's order in its transaction, without relations.
FindOrder(w) ==
  /\ pc[w] = "findOrder"
  /\ job' = [job EXCEPT ![w].target = snap[w].link]
  /\ snap' = [snap EXCEPT ![w] = Loaded(snap[w].link)]
  /\ Goto(w, "diff")
  /\ UNCHANGED <<disk, begun, todo, buf, dirty, hist>>

Commit(w) ==
  /\ pc[w] = "commit"
  /\ db' = [x \in Rows |-> Seen(w, x)]
  /\ live' = live \cup (Deliveries \cap DOMAIN buf[w])
  /\ reverted' = (reverted \/ dirty[w])
  /\ IF job[w].kind = "complete"
     THEN /\ completions' = [o \in Orders |->
                               completions[o] + (IF o = job[w].target THEN 1 ELSE 0)]
          /\ buf' = [buf EXCEPT ![w] = Empty]
          /\ Goto(w, "log")
          /\ UNCHANGED <<begun, job, snap, todo, dirty>>
     ELSE Leave(w, "idle") /\ UNCHANGED completions
  /\ UNCHANGED <<credits, overlap>>

\* The activity log is written after the commit; when that fails, so does the
\* request, and the completion is not announced.
Log(w) ==
  /\ pc[w] = "log"
  /\ \/ Rollback(w, "failed")
     \/ Goto(w, "announce") /\ UNCHANGED <<disk, begun, memory, hist>>

\* The listener records a credit for a delivery with an order if the financial
\* module is on; its errors are swallowed.
Announce(w) ==
  /\ pc[w] = "announce"
  /\ \E recorded \in SUBSET ({job[w].target} \cap Orders) :
       credits' = [o \in Orders |-> credits[o] + (IF o \in recorded THEN 1 ELSE 0)]
  /\ Leave(w, "idle")
  /\ UNCHANGED <<live, db, hist>>

\* PostgreSQL aborts a transaction that waits in a cycle.
Deadlocked(w) ==
  \E S \in SUBSET Workers :
    /\ w \in S
    /\ \A v \in S : Blockers(v) # {} /\ Blockers(v) \subseteq S
    /\ UNION {Blockers(v) : v \in S} = S

AbortDeadlock(w) == Deadlocked(w) /\ Rollback(w, "failed")

\* A statement fails, or the connection is lost.
Fail(w) == pc[w] \notin Resting \cup {"log", "announce"} /\ Rollback(w, "failed")

Step(w) == \/ Find(w) \/ Diff(w) \/ Write(w) \/ FindOrder(w) \/ Commit(w)
           \/ Log(w) \/ Announce(w) \/ AbortDeadlock(w)

Next == \E w \in Workers : (\E q \in Requests : Begin(w, q)) \/ Step(w) \/ Fail(w)

Spec == Init /\ [][Next]_vars

\* As in Inventory: awaits settle, locks are granted, deadlocks are broken.
FairSpec == Spec /\ \A w \in Workers : WF_vars(Step(w))

-----------------------------------------------------------------------------
(* Properties.                                                             *)

Row == [status : OrderStatus \cup DeliveryStatus, driver : Drivers \cup {None},
        order : Orders \cup {None}]

\* The types; what a worker holds while it rests; locks are exclusive.
TypeOK ==
  /\ live \subseteq Deliveries
  /\ db \in [Rows -> Row]
  /\ \A o \in Orders : db[o].status \in OrderStatus /\ db[o].order = None
  /\ credits \in [Orders -> Nat] /\ completions \in [Orders -> Nat]
  /\ begun \in 0..MaxRequests
  /\ pc \in [Workers -> Resting \cup {"find", "diff", "write", "findOrder",
                                      "commit", "log", "announce"}]
  /\ \A w \in Workers :
       /\ job[w] \in Request \cup {NoRequest} /\ snap[w].link \in Rows \cup {None}
       /\ DOMAIN buf[w] \subseteq Rows
       /\ pc[w] = "write" => todo[w] # <<>>
       /\ pc[w] \in Resting => job[w] = NoRequest /\ buf[w] = Empty
       /\ \A v \in Workers \ {w} : DOMAIN buf[w] \cap DOMAIN buf[v] = {}
  /\ {reverted, overlap} \subseteq BOOLEAN

\* An order has at most one delivery, also when dispatches and stale saves that
\* cut deliveries off and tie them again interleave.
OneDeliveryPerOrder ==
  \A c, d \in live : db[c].order # None /\ db[c].order = db[d].order => c = d

\* Revenue is recorded at most once for each committed completion of a delivery,
\* and never for one that was rolled back.
CreditsAreEarned ==
  \A o \in Orders : credits[o] <= completions[o]

\* Requests served one at a time undo nothing they were not asked to change.
SerialSavesDoNotRevert == reverted => overlap

\* Requests served one at a time leave no order IN_ROUTE without its delivery:
\* dispatch changes both in one transaction, and no later save cuts them apart.
SerialOrdersInRouteHaveADelivery ==
  overlap \/ \A o \in Orders : db[o].status = "IN_ROUTE" => LinkOf(o) # None

\* Every request is answered, also when complete (delivery, then order) and a
\* stale save of the order (order, then delivery) lock each other out.
RequestsFinish ==
  \A w \in Workers : pc[w] \notin Resting ~> pc[w] \in Resting

\* order.service.ts:318-320, 'Cannot dispatch order in status': an order goes on
\* its way only from ACCEPTED or ASSIGNED.
DispatchFromAcceptedOrAssigned ==
  [][\A w \in Workers :
       job[w].kind = "dispatch" /\ pc[w] = "commit" /\ pc'[w] = "idle" =>
         db[job[w].target].status \in {"ACCEPTED", "ASSIGNED"}]_vars

\* delivery.service.ts:141-143, 'This delivery is not assigned to you': the driver
\* it is assigned to may report its location.
AssignedDriverMayTrack ==
  [][\A w \in Workers :
       /\ job[w].kind = "track" /\ pc[w] = "find" /\ job[w].target \in live
       /\ db[job[w].target].driver # None
       /\ UserOf[db[job[w].target].driver] = job[w].by
       => pc'[w] # "forbidden"]_vars

\* order.service.ts:301: the driver assigned to an order is the order's driver once
\* the assignment is saved.
AssignmentTakesEffect ==
  [][\A w \in Workers :
       job[w].kind = "assign" /\ pc[w] = "commit" /\ pc'[w] = "idle" =>
         db'[job[w].target].driver = job[w].driver]_vars

=============================================================================
