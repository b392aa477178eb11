-------------------------------- MODULE Sales --------------------------------
(***************************************************************************)
(* Orders, storefront checkouts and completed deliveries as requests that  *)
(* share the pool of database connections: create and checkout             *)
(* (order.service.ts), complete (delivery.service.ts) and the customers a  *)
(* checkout registers (customer.service.ts).                               *)
(*                                                                         *)
(* create and complete keep their transaction's connection until they are  *)
(* answered, and what they call before and after the commit (the           *)
(* listeners, findOne, the activity log) asks the pool for another one.    *)
(* Every other statement takes a connection and gives it back.             *)
(***************************************************************************)
EXTENDS Naturals, FiniteSets

CONSTANTS
  Clients,      (* Requests served at the same time.                       *)
  PoolSize,     (* Connections of the pool, 10 unless configured.          *)
  Carts,        (* Orders that clients want placed, each once.             *)
  EmptyCarts,   (* The ones that name no items,                            *)
  BrokenCarts,  (* and the ones with a product that does not exist.        *)
  Deliveries,
  Emails,       (* Customers a checkout may name,                          *)
  None,         (* or not.                                                 *)
  MaxRequests,  (* Bounds the requests ever begun,                         *)
  MaxFailures,  (* the statements that fail,                               *)
  MaxRestarts   (* and the times the process is restarted.                 *)

ASSUME SalesAssumption ==
  /\ PoolSize \in Nat \ {0} /\ MaxRequests \in Nat /\ MaxFailures \in Nat /\ MaxRestarts \in Nat
  /\ EmptyCarts \cup BrokenCarts \subseteq Carts /\ EmptyCarts \cap BrokenCarts = {}
  /\ Carts \cap Deliveries = {} /\ IsFiniteSet(Clients)
  /\ None \notin Carts \cup Deliveries \cup Emails

Targets == Carts \cup Deliveries
Asks ==
  [kind : {"order"}, target : Carts, email : {None}]
  \cup [kind : {"checkout"}, target : Carts, email : Emails \cup {None}]
  \cup [kind : {"complete"}, target : Deliveries, email : {None}]
NoAsk == [kind |-> None, target |-> None, email |-> None]

VARIABLES
  customers,    (* E-mails of the customers on file.                       *)
  committed,    (* How often an order was placed, a delivery completed;    *)
  followed,     (* how often the order was confirmed to its client, the    *)
                (* delivery's revenue credited, or found to need no credit; *)
  missed,       (* how often a failure or a restart prevented that.        *)
  pc, ask,      (* Where a request stands, what it was asked.              *)
  held,         (* Requests that keep a connection.                        *)
  kept,         (* Connections that nobody gives back: 0 the product       *)
                (* repository's, n the one the n-th failure left behind.   *)
  begun, failures, restarts

books  == <<committed, followed, missed>>
bounds == <<begun, failures, restarts>>
vars   == <<customers, books, pc, ask, held, kept, bounds>>

Busy(c) == pc[c] # "idle"
InTransaction == {"insert", "products", "listen", "items", "update", "commit"}
PastCommit == {"read", "log", "askModule", "credit"}

\* Statements that take a connection of their own.
Pooled == {"shop", "findCustomer", "saveCustomer", "findDelivery", "connect", "listen"} \cup PastCommit

InUse == Cardinality(held) + Cardinality(kept)
Free == InUse < PoolSize
Runs(c) == Busy(c) /\ (pc[c] \in Pooled => Free)

\* Everybody who keeps a connection waits for another one.
Stuck == ~Free /\ \A c \in held : pc[c] \in Pooled

-----------------------------------------------------------------------------

Init ==
  /\ customers = {}
  /\ committed = [x \in Targets |-> 0]
  /\ followed = [x \in Targets |-> 0]
  /\ missed = [x \in Targets |-> 0]
  /\ pc = [c \in Clients |-> "idle"]
  /\ ask = [c \in Clients |-> NoAsk]
  /\ held = {} /\ kept = {}
  /\ begun = 0 /\ failures = 0 /\ restarts = 0

Count(book, x) == [book EXCEPT ![x] = @ + 1]

FirstStep(a) ==
  CASE a.kind = "order" -> "connect"
    [] a.kind = "checkout" /\ a.email = None -> "connect"
    [] a.kind = "checkout" /\ a.email # None -> "shop"
    [] a.kind = "complete" -> "findDelivery"

\* A client whose order was confirmed does not place it again; one who got an error does.
Begin(c) ==
  /\ ~Busy(c) /\ begun < MaxRequests
  /\ \E a \in Asks :
       /\ a.kind # "complete" =>
            /\ followed[a.target] = 0
            /\ \A d \in Clients : Busy(d) => ask[d].target # a.target
       /\ ask' = [ask EXCEPT ![c] = a]
       /\ pc' = [pc EXCEPT ![c] = FirstStep(a)]
  /\ begun' = begun + 1
  /\ UNCHANGED <<customers, books, held, kept, failures, restarts>>

Goto(c, l) == pc' = [pc EXCEPT ![c] = l] /\ UNCHANGED <<ask, held, kept>>

\* A slip: the connection is released where the handler returns, not where it throws.
LeaveHolding(c, status) ==
  /\ pc' = [pc EXCEPT ![c] = "idle"]
  /\ ask' = [ask EXCEPT ![c] = NoAsk]
  /\ held' = IF status = "ok" THEN held \ {c} ELSE held
  /\ UNCHANGED kept

\* The answer, after the finally block released the connection.
Leave(c, status) ==
  /\ status \in {"ok", "refused", "error"}
  /\ pc' = [pc EXCEPT ![c] = "idle"]
  /\ ask' = [ask EXCEPT ![c] = NoAsk]
  /\ held' = held \ {c}
  /\ UNCHANGED kept

-----------------------------------------------------------------------------
(* The customer of a checkout, and the customers' own requests             *)

\* Only a company with the shop module keeps its checkouts' customers.
Shop(c) ==
  /\ pc[c] = "shop" /\ Runs(c)
  /\ \E enabled \in BOOLEAN : Goto(c, IF enabled THEN "findCustomer" ELSE "connect")
  /\ UNCHANGED <<customers, books, bounds>>

FindCustomer(c) ==
  /\ pc[c] = "findCustomer" /\ Runs(c)
  /\ Goto(c, IF ask[c].email \in customers THEN "connect" ELSE "saveCustomer")
  /\ UNCHANGED <<customers, books, bounds>>

\* Another one's insert meanwhile raises a duplicate, which is swallowed: the order would
\* carry the customer's data inline.
SaveCustomer(c) ==
  /\ pc[c] = "saveCustomer" /\ Runs(c)
  /\ customers' = customers \cup {ask[c].email}
  /\ Goto(c, "connect")
  /\ UNCHANGED <<books, bounds>>

\* POST and DELETE /customers.  No order refers to a customer: POST /orders takes no
\* customerId, and no checkout gets as far as having one.
CustomerRequest ==
  /\ Free
  /\ \E e \in Emails : customers' \in {customers \cup {e}, customers \ {e}}
  /\ UNCHANGED <<books, pc, ask, held, kept, bounds>>

\* The product repository was given a query runner of its own, which createQueryBuilder
\* uses: the first list of products connects it, and nobody releases it.
ListProducts ==
  /\ 0 \notin kept /\ Free /\ kept' = kept \cup {0}
  /\ UNCHANGED <<customers, books, pc, ask, held, bounds>>

-----------------------------------------------------------------------------
(* create                                                                  *)

Connect(c) ==
  /\ pc[c] = "connect" /\ Runs(c)
  /\ held' = held \cup {c}
  /\ pc' = [pc EXCEPT ![c] = IF ask[c].kind = "complete" THEN "update" ELSE "insert"]
  /\ UNCHANGED <<customers, books, ask, kept, bounds>>

\* createdById is NOT NULL, and is the authenticated user of the request: a checkout of
\* the public storefront has none.
CreatedBy(a) == a.kind # "checkout"

Insert(c) ==
  /\ pc[c] = "insert"
  /\ IF ~CreatedBy(ask[c]) THEN Leave(c, "refused")
     ELSE Goto(c, IF ask[c].target \in EmptyCarts THEN "commit" ELSE "products")
  /\ UNCHANGED <<customers, books, bounds>>

\* The products and variants of the items; one that does not exist rolls back.
FindProducts(c) ==
  /\ pc[c] = "products"
  /\ IF ask[c].target \in BrokenCarts THEN Leave(c, "refused") ELSE Goto(c, "listen")
  /\ UNCHANGED <<customers, books, bounds>>

\* ORDER_STOCK_DEDUCT is awaited while the transaction is open; its listener looks up the
\* inventory module through the pool.
StockListener(c) ==
  /\ pc[c] = "listen" /\ Runs(c)
  /\ Goto(c, "items")
  /\ UNCHANGED <<customers, books, bounds>>

\* The deductions, the items and the totals, on the transaction's connection.
SaveItems(c) ==
  /\ pc[c] = "items"
  /\ Goto(c, "commit")
  /\ UNCHANGED <<customers, books, bounds>>

Commit(c) ==
  /\ pc[c] = "commit"
  /\ committed' = Count(committed, ask[c].target)
  /\ Goto(c, IF ask[c].kind = "complete" THEN "log" ELSE "read")
  /\ UNCHANGED <<customers, followed, missed, bounds>>

\* findOne, for the answer.
ReadBack(c) ==
  /\ pc[c] = "read" /\ Runs(c)
  /\ Goto(c, "log")
  /\ UNCHANGED <<customers, books, bounds>>

\* Nobody listens to ORDER_CREATED.
Log(c) ==
  /\ pc[c] = "log" /\ Runs(c)
  /\ IF ask[c].kind = "complete" THEN Goto(c, "askModule") /\ UNCHANGED followed
     ELSE Leave(c, "ok") /\ followed' = Count(followed, ask[c].target)
  /\ UNCHANGED <<customers, committed, missed, bounds>>

-----------------------------------------------------------------------------
(* complete, of a delivery that delivers an order                          *)

FindDelivery(c) ==
  /\ pc[c] = "findDelivery" /\ Runs(c)
  /\ Goto(c, "connect")
  /\ UNCHANGED <<customers, books, bounds>>

\* A slip: the commit comes last, and the locks are kept while the rest is awaited.
UpdateDeliveryLongLocked(c) ==
  /\ pc[c] = "update"
  /\ \A d \in Clients \ {c} :
       ~(pc[d] \in PastCommit \cup {"commit"} /\ ask[d].target = ask[c].target)
  /\ Goto(c, "commit")
  /\ UNCHANGED <<customers, books, bounds>>

\* A slip: the event is emitted while the transaction is still open as well.
UpdateDeliveryEmits(c) ==
  /\ pc[c] = "update"
  /\ \A d \in Clients \ {c} : ~(pc[d] = "commit" /\ ask[d].target = ask[c].target)
  /\ followed' = Count(followed, ask[c].target)
  /\ Goto(c, "commit")
  /\ UNCHANGED <<customers, committed, missed, bounds>>

\* The delivery's row and its order's stay locked until the commit.
UpdateDelivery(c) ==
  /\ pc[c] = "update"
  /\ \A d \in Clients \ {c} : ~(pc[d] = "commit" /\ ask[d].target = ask[c].target)
  /\ Goto(c, "commit")
  /\ UNCHANGED <<customers, books, bounds>>

\* Only a company with the financial module is credited.
AskModule(c) ==
  /\ pc[c] = "askModule" /\ Runs(c)
  /\ \/ Goto(c, "credit") /\ UNCHANGED followed
     \/ Leave(c, "ok") /\ followed' = Count(followed, ask[c].target)
  /\ UNCHANGED <<customers, committed, missed, bounds>>

Credit(c) ==
  /\ pc[c] = "credit" /\ Runs(c)
  /\ followed' = Count(followed, ask[c].target)
  /\ Leave(c, "ok")
  /\ UNCHANGED <<customers, committed, missed, bounds>>

-----------------------------------------------------------------------------
(* Failures                                                                *)

\* startTransaction comes before the try, whose finally releases the connection.
LeaveBehind(c) ==
  /\ pc' = [pc EXCEPT ![c] = "idle"]
  /\ ask' = [ask EXCEPT ![c] = NoAsk]
  /\ kept' = kept \cup {failures'}
  /\ UNCHANGED held

\* What the customer service throws is swallowed, and so is what a listener throws:
\* @OnEvent suppresses errors.  After the commit, rollbackTransaction itself throws, and the
\* answer, or the credit, is missed for good.
Fail(c) ==
  /\ Runs(c) /\ failures < MaxFailures
  /\ failures' = failures + 1
  /\ CASE pc[c] \in {"findCustomer", "saveCustomer"} -> Goto(c, "connect")
       [] pc[c] = "listen" -> Goto(c, "items")
       [] pc[c] \in {"askModule", "credit"} -> Leave(c, "ok")
       [] pc[c] = "connect" -> Leave(c, "error") \/ LeaveBehind(c)
       [] OTHER -> Leave(c, "error")
  /\ missed' = IF pc[c] \in PastCommit THEN Count(missed, ask[c].target) ELSE missed
  /\ UNCHANGED <<customers, committed, followed, begun, restarts>>

Answering(x) == {c \in Clients : pc[c] \in PastCommit /\ ask[c].target = x}

\* The process stops and starts again: open transactions are rolled back.
Restart ==
  /\ restarts < MaxRestarts /\ restarts' = restarts + 1
  /\ missed' = [x \in Targets |-> missed[x] + Cardinality(Answering(x))]
  /\ pc' = [c \in Clients |-> "idle"]
  /\ ask' = [c \in Clients |-> NoAsk]
  /\ held' = {} /\ kept' = {}
  /\ UNCHANGED <<customers, committed, followed, begun, failures>>

-----------------------------------------------------------------------------

Step(c) ==
  \/ Shop(c) \/ FindCustomer(c) \/ SaveCustomer(c)
  \/ Connect(c) \/ Insert(c) \/ FindProducts(c) \/ StockListener(c) \/ SaveItems(c)
  \/ Commit(c) \/ ReadBack(c) \/ Log(c)
  \/ FindDelivery(c) \/ UpdateDelivery(c) \/ AskModule(c) \/ Credit(c)

Next == (\E c \in Clients : Begin(c) \/ Step(c) \/ Fail(c)) \/ CustomerRequest \/ ListProducts \/ Restart
Spec == Init /\ [][Next]_vars

\* The pool serves those who wait in the order they came, so nobody is passed over.
FairSpec == Spec /\ \A c \in Clients : SF_vars(Step(c))

-----------------------------------------------------------------------------
(* Properties                                                              *)

\* The connections in use are the ones of the requests between connect and their answer,
\* the product repository's and the ones that failures left behind,
\* never more than the pool has.
TypeOK ==
  /\ customers \subseteq Emails
  /\ held = {c \in Clients : pc[c] \in InTransaction \cup PastCommit}
  /\ InUse <= PoolSize
  /\ \A x \in BrokenCarts : committed[x] = 0

\* Every order placed was confirmed, and every delivery completed was credited (or needed
\* no credit), exactly once, or is about to be, or broke off after its commit, which takes
\* a failure or a restart.  So a client who tries again after an error orders twice only
\* when the error came after the commit, and no credit comes twice or before its commit.
CommitsAreAccountedFor ==
  \A x \in Targets :
    /\ committed[x] = followed[x] + missed[x] + Cardinality(Answering(x))
    /\ missed[x] > 0 => failures + restarts > 0

\* Every request is answered, however many wait for the pool, unless it comes to where
\* all connections are kept by requests that wait for another one.
RequestsFinish == \A c \in Clients : Busy(c) ~> (~Busy(c) \/ Stuck)

\* Support for public storefront access: a checkout of existing products that meets no
\* failure places its order.
CheckoutsPlaceOrders ==
  [][\A c \in Clients :
       LET x == ask[c].target IN
       ask[c].kind = "checkout" /\ pc'[c] = "idle" =>
         x \in BrokenCarts \/ committed'[x] > 0 \/ failures' + restarts' > 0]_vars

=============================================================================
