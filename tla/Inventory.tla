------------------------------ MODULE Inventory ------------------------------
(***************************************************************************)
(* The stock of one tenant and the requests that change it: transfer and   *)
(* adjust (inventory.service.ts) and the creation of an order, whose       *)
(* transaction deducts stock through the ORDER_STOCK_DEDUCT listener       *)
(* (order.service.ts, order-inventory.listener.ts).                        *)
(*                                                                         *)
(* Every request runs in one PostgreSQL transaction at READ COMMITTED.  A  *)
(* step of a request is what happens between two awaits that another       *)
(* request can tell apart: it reads a row into memory, it saves an         *)
(* in-memory row, it commits.  A save writes the ABSOLUTE quantity         *)
(* computed from the row as it was read, however old that is.              *)
(***************************************************************************)
EXTENDS Integers, Sequences, FiniteSets

CONSTANTS
  Requests,      (* The HTTP requests in flight.                            *)
  ProductOf,     (* The items in stock; ProductOf[i] = i for a product sold *)
                 (* as it is, the product of i for a variant.               *)
  Vehicles,      (* The vehicles that carry stock.                          *)
  RowIds,        (* Ids of stock_level rows; bounds the rows ever inserted. *)
  RowCell,       (* The item and the place each row is about.               *)
  InitialRows,   (* The rows in the table at first.                         *)
  InitialQty,    (* Their quantities, 0 for a row that does not exist.      *)
  Bodies,        (* The requests a client may send.                         *)
  Catalogue      (* The items whose product and variant exist.              *)

Items     == DOMAIN ProductOf
Default   == "DEFAULT"               \* the only warehouse id
NoVehicle == ""                      \* VEHICLE location without an id
Locations == Vehicles \cup {Default}
Cells     == [item : Items, at : Locations]

Kinds == {"transfer", "adjust", "order"}
Body  == [kind  : Kinds,
          from  : Locations \cup {NoVehicle},
          to    : Locations \cup {NoVehicle},
          lines : Seq([item : Items, n : Int])]

ASSUME RowAssumption ==
  /\ RowCell \in [RowIds -> Cells]
  /\ InitialRows \subseteq RowIds
  /\ InitialQty \in [RowIds -> Nat]
  /\ \A w \in RowIds \ InitialRows : InitialQty[w] = 0

\* The DTOs: a transfer moves at least 1 (@Min(1)); an adjustment and an order
\* line may carry any number.  Only an order has several lines, and it is served
\* from the warehouse when it names no vehicle.
ASSUME BodyAssumption ==
  /\ Bodies \subseteq Body
  /\ \A b \in Bodies : b.kind # "order" => Len(b.lines) = 1
  /\ \A b \in Bodies : b.kind = "transfer" => b.lines[1].n >= 1
  /\ \A b \in Bodies : b.kind = "order" => b.from # NoVehicle

VARIABLES
  rows,      (* Ids of the committed stock_level rows.                      *)
  qty,       (* Their committed quantities.                                 *)
  ledger,    (* Net quantity of the committed movements, by the row each    *)
             (* was recorded for.                                           *)
  pc,        (* Where each request stands.                                  *)
  body,      (* What it was asked to do.                                    *)
  line,      (* The line it works on.                                       *)
  ents,      (* The StockLevel objects it holds in memory, to be saved.     *)
  mine,      (* Rows its transaction has written, hence locked.             *)
  priv,      (* The uncommitted quantities of those rows.                   *)
  moves,     (* Net quantity of its uncommitted movements.                  *)
  stale,     (* History: rows it saved over a value it had not read.        *)
  drift,     (* History: rows for which such a save was committed.          *)
  overlap,   (* History: two transactions were open at the same time.       *)
  short      (* History: orders whose deduction threw for lack of stock.    *)

table == <<rows, qty, ledger>>
txn   == <<mine, priv, moves, stale>>
hist  == <<drift, overlap, short>>
vars  == <<table, pc, body, line, ents, txn, hist>>

Nothing == [w \in RowIds |-> 0]
Finished == {"done", "failed", "errored"}

\* A request that has begun and whose transaction is neither committed nor
\* rolled back.
Open(r) == pc[r] \notin {"idle", "committed"} \cup Finished

-----------------------------------------------------------------------------
(* What a transaction sees, and what the lookup returns.                   *)

Value(r, w) == IF w \in mine[r] THEN priv[r][w] ELSE qty[w]

\* The where clause of getStockLevel.  For an item without a variant it says
\* variantId: null, which TypeORM drops: every variant's row of the product
\* at that place matches as well.
Found(i) == IF ProductOf[i] # i THEN {i}
                                ELSE {j \in Items : ProductOf[j] = i}

Hits(r, i, at) ==
  {w \in rows \cup mine[r] : RowCell[w].at = at /\ RowCell[w].item \in Found(i)}

\* Ids nobody uses: the id a new row will be given.
Unused(r, i, at) ==
  {w \in RowIds : /\ RowCell[w] = [item |-> i, at |-> at]
                  /\ w \notin rows
                  /\ \A s \in Requests :
                       /\ w \notin mine[s]
                       /\ \A k \in DOMAIN ents[s] : ents[s][k].row # w}

\* The entity getStockLevel returns: one of the matching rows (findOne has no
\* order), or a new object of quantity 0.  The mutant serves existing rows from
\* a cache that is never refreshed.
GetStockLevelCached(r, i, at) ==
  IF Hits(r, i, at) # {}
  THEN {[row |-> w, read |-> InitialQty[w], fresh |-> FALSE] : w \in Hits(r, i, at)}
  ELSE {[row |-> w, read |-> 0, fresh |-> TRUE] : w \in Unused(r, i, at)}

GetStockLevel(r, i, at) ==
  IF Hits(r, i, at) # {}
  THEN {[row |-> w, read |-> Value(r, w), fresh |-> FALSE] : w \in Hits(r, i, at)}
  ELSE {[row |-> w, read |-> 0, fresh |-> TRUE] : w \in Unused(r, i, at)}

\* The same entity with its quantity set to read + d.
Changed(e, d) ==
  [row |-> e.row, read |-> e.read, fresh |-> e.fresh, new |-> e.read + d]

\* The check of transfer and of deductStockForOrder.  The mutant is off by one.
LacksOffByOne(e, n) == e.read + 1 < n
Lacks(e, n) == e.read < n

Line(r) == body[r].lines[line[r]]

-----------------------------------------------------------------------------
(* The requests.                                                           *)

Init ==
  /\ rows = InitialRows
  /\ qty = InitialQty
  /\ ledger = Nothing
  /\ pc = [r \in Requests |-> "idle"]
  /\ body \in [Requests -> Bodies]
  /\ line = [r \in Requests |-> 1]
  /\ ents = [r \in Requests |-> <<>>]
  /\ mine = [r \in Requests |-> {}]
  /\ priv = [r \in Requests |-> Nothing]
  /\ moves = [r \in Requests |-> Nothing]
  /\ stale = [r \in Requests |-> {}]
  /\ drift = {}
  /\ overlap = FALSE
  /\ short = {}

Goto(r, l) == pc' = [pc EXCEPT ![r] = l]

\* dataSource.transaction or startTransaction; an order's row is inserted too.
Begin(r) ==
  /\ pc[r] = "idle"
  /\ Goto(r, IF body[r].kind = "order" THEN "ordered" ELSE "read")
  /\ overlap' = (overlap \/ \E s \in Requests : Open(s))
  /\ UNCHANGED <<table, body, line, ents, txn, drift, short>>

\* A mutant without the rollback: the client gets its error, the transaction
\* stays open.
RollbackForgotten(r) ==
  /\ Goto(r, "failed")
  /\ ents' = [ents EXCEPT ![r] = <<>>]
  /\ UNCHANGED <<table, body, line, txn, hist>>

\* The transaction's writes and locks are gone, the client gets an error.
Rollback(r) ==
  /\ Goto(r, "failed")
  /\ ents' = [ents EXCEPT ![r] = <<>>]
  /\ mine' = [mine EXCEPT ![r] = {}]
  /\ priv' = [priv EXCEPT ![r] = Nothing]
  /\ moves' = [moves EXCEPT ![r] = Nothing]
  /\ stale' = [stale EXCEPT ![r] = {}]
  /\ UNCHANGED <<table, body, line, hist>>

Hold(r, es, l) ==
  /\ ents' = [ents EXCEPT ![r] = es]
  /\ Goto(r, l)
  /\ UNCHANGED <<table, body, line, txn, hist>>

ReadForAdjust(r) ==
  /\ pc[r] = "read" /\ body[r].kind = "adjust"
  /\ \/ body[r].from = NoVehicle /\ Rollback(r)
     \/ \E e \in GetStockLevel(r, Line(r).item, body[r].from) :
          IF e.read + Line(r).n < 0
          THEN Rollback(r)
          ELSE Hold(r, <<Changed(e, Line(r).n)>>, "save")

ReadSource(r) ==
  /\ pc[r] = "read" /\ body[r].kind = "transfer"
  /\ \/ body[r].from = NoVehicle /\ Rollback(r)
     \/ \E e \in GetStockLevel(r, Line(r).item, body[r].from) :
          IF Lacks(e, Line(r).n)
          THEN Rollback(r)
          ELSE Hold(r, <<Changed(e, -Line(r).n)>>, "readTo")

ReadDestination(r) ==
  /\ pc[r] = "readTo"
  /\ \/ body[r].to = NoVehicle /\ Rollback(r)
     \/ \E e \in GetStockLevel(r, Line(r).item, body[r].to) :
          Hold(r, Append(ents[r], Changed(e, Line(r).n)), "save")

\* Products and variants are looked up before the event is emitted.  The
\* listener does nothing when the inventory module is off.
Listen(r) ==
  /\ pc[r] = "ordered"
  /\ IF \E k \in DOMAIN body[r].lines : body[r].lines[k].item \notin Catalogue
     THEN Rollback(r)
     ELSE \E active \in BOOLEAN :
            Hold(r, <<>>, IF active /\ body[r].lines # <<>> THEN "read" ELSE "commit")

\* deductStockForOrder.  The exception of a line that lacks stock ends the
\* listener, is swallowed by the event emitter, and the order goes on.
ReadForDeduction(r) ==
  /\ pc[r] = "read" /\ body[r].kind = "order"
  /\ \E e \in GetStockLevel(r, Line(r).item, body[r].from) :
       IF Lacks(e, Line(r).n)
       THEN /\ Goto(r, "commit")
            /\ short' = short \cup {r}
            /\ UNCHANGED <<table, body, line, ents, txn, drift, overlap>>
       ELSE Hold(r, <<Changed(e, -Line(r).n)>>, "save")

-----------------------------------------------------------------------------
(* Saving one entity: manager.save.                                        *)

\* The unique index covers nullable columns; only a vehicle's row of a variant
\* has none of them null.
UniqueCell(c) == ProductOf[c.item] # c.item /\ c.at \in Vehicles

Twin(w, v) == RowCell[w] = RowCell[v] /\ UniqueCell(RowCell[w])

\* The rows there are at first are a table that has the index.
ASSUME IndexAssumption ==
  \A v, w \in InitialRows : Twin(v, w) => v = w

\* The index refuses e when a committed row is its twin; the mutant has no index.
NeverRefused(e) == e.fresh /\ FALSE
Refused(e) == e.fresh /\ \E w \in rows : Twin(e.row, w)

\* Save selects the row again and skips the UPDATE when nothing differs.
Writes(r, e) == e.fresh \/ Value(r, e.row) # e.new

\* The transactions r has to wait for: they hold the row, or the index entry.
Blockers(r) ==
  IF pc[r] # "save" \/ ~Writes(r, Head(ents[r])) THEN {}
  ELSE LET e == Head(ents[r]) IN
       {s \in Requests \ {r} :
          \/ e.row \in mine[s]
          \/ e.fresh /\ \E w \in mine[s] \ rows : Twin(e.row, w)}

\* A mutant that records no movement for the row it inserts.
WriteUnrecorded(r, e) ==
  /\ mine' = [mine EXCEPT ![r] = IF Writes(r, e) THEN @ \cup {e.row} ELSE @]
  /\ priv' = [priv EXCEPT ![r][e.row] = IF Writes(r, e) THEN e.new ELSE @]
  /\ moves' = [moves EXCEPT ![r][e.row] = IF e.fresh THEN @ ELSE @ + (e.new - e.read)]
  /\ stale' = [stale EXCEPT ![r] = IF Value(r, e.row) # e.read
                                   THEN @ \cup {e.row} ELSE @]

\* Write e, record the movement with the last entity of the line, go on.
Write(r, e) ==
  /\ mine' = [mine EXCEPT ![r] = IF Writes(r, e) THEN @ \cup {e.row} ELSE @]
  /\ priv' = [priv EXCEPT ![r][e.row] = IF Writes(r, e) THEN e.new ELSE @]
  /\ moves' = [moves EXCEPT ![r][e.row] = @ + (e.new - e.read)]
  /\ stale' = [stale EXCEPT ![r] = IF Value(r, e.row) # e.read
                                   THEN @ \cup {e.row} ELSE @]

\* What follows a saved entity: the next one, the next line, the commit.  The
\* mutant runs past the last entity.
AfterSaveOverrun(r) == IF Len(ents[r]) > 0 THEN "save" ELSE "commit"
AfterSave(r) ==
  IF Len(ents[r]) > 1 THEN "save"
  ELSE IF line[r] < Len(body[r].lines) THEN "read" ELSE "commit"

Save(r) ==
  /\ pc[r] = "save"
  /\ Blockers(r) = {}
  /\ LET e == Head(ents[r]) IN
     IF Refused(e)
     THEN Rollback(r)
     ELSE /\ Write(r, e)
          /\ ents' = [ents EXCEPT ![r] = Tail(@)]
          /\ Goto(r, AfterSave(r))
          /\ line' = [line EXCEPT ![r] = IF AfterSave(r) = "read" THEN @ + 1 ELSE @]
          /\ UNCHANGED <<table, body, hist>>

\* PostgreSQL's deadlock detector aborts a transaction of a cycle of waiters.
\* For an order the error is swallowed with the listener's, but its aborted
\* transaction refuses the next statement: it is rolled back all the same.
Deadlocked(r) ==
  \E S \in SUBSET Requests :
    /\ r \in S
    /\ \A s \in S : Blockers(s) # {} /\ Blockers(s) \subseteq S
    /\ UNION {Blockers(s) : s \in S} = S

AbortDeadlock(r) == Deadlocked(r) /\ Rollback(r)

\* The connection or the process is lost, or a statement fails.
Fail(r) == Open(r) /\ Rollback(r)

Commit(r) ==
  /\ pc[r] = "commit"
  /\ rows' = rows \cup mine[r]
  /\ qty' = [w \in RowIds |-> Value(r, w)]
  /\ ledger' = [w \in RowIds |-> ledger[w] + moves[r][w]]
  /\ drift' = drift \cup stale[r]
  /\ Goto(r, IF body[r].kind = "order" THEN "committed" ELSE "done")
  /\ mine' = [mine EXCEPT ![r] = {}]
  /\ priv' = [priv EXCEPT ![r] = Nothing]
  /\ moves' = [moves EXCEPT ![r] = Nothing]
  /\ stale' = [stale EXCEPT ![r] = {}]
  /\ UNCHANGED <<body, line, ents, overlap, short>>

\* An order is read back, logged and announced after its commit.  An error
\* there reaches the catch, whose rollback has nothing left to roll back.
Reply(r) ==
  /\ pc[r] = "committed"
  /\ \E answer \in {"done", "errored"} : Goto(r, answer)
  /\ UNCHANGED <<table, body, line, ents, txn, hist>>

Step(r) ==
  \/ ReadForAdjust(r) \/ ReadSource(r) \/ ReadDestination(r)
  \/ Listen(r) \/ ReadForDeduction(r)
  \/ Save(r) \/ AbortDeadlock(r) \/ Commit(r) \/ Reply(r)

Next == \E r \in Requests : Begin(r) \/ Step(r) \/ Fail(r)

Spec == Init /\ [][Next]_vars

\* Node.js runs every continuation whose await has settled, PostgreSQL grants
\* every lock that is released and breaks every deadlock.
FairSpec == Spec /\ \A r \in Requests : WF_vars(Step(r))

-----------------------------------------------------------------------------
(* Properties.                                                             *)

Entity == [row : RowIds, read : Int, new : Int, fresh : BOOLEAN]

\* The types, and the shape of a request's memory: it holds entities exactly
\* while it has some to save, and works on a line of its body.
TypeOK ==
  /\ rows \subseteq RowIds
  /\ qty \in [RowIds -> Int]
  /\ ledger \in [RowIds -> Int]
  /\ pc \in [Requests -> {"idle", "ordered", "read", "readTo", "save", "commit",
                          "committed"} \cup Finished]
  /\ body \in [Requests -> Bodies]
  /\ line \in [Requests -> Nat \ {0}]
  /\ ents \in [Requests -> Seq(Entity)]
  /\ mine \in [Requests -> SUBSET RowIds]
  /\ priv \in [Requests -> [RowIds -> Int]]
  /\ moves \in [Requests -> [RowIds -> Int]]
  /\ stale \in [Requests -> SUBSET RowIds]
  /\ drift \subseteq RowIds
  /\ overlap \in BOOLEAN
  /\ short \subseteq Requests
  /\ \A r \in Requests :
       /\ pc[r] \in {"readTo", "save"} <=> ents[r] # <<>>
       /\ pc[r] = "readTo" => body[r].kind = "transfer"
       /\ pc[r] \in {"read", "readTo", "save"} =>
            line[r] \in DOMAIN body[r].lines
       /\ pc[r] \in {"idle", "ordered"} => line[r] = 1

\* No committed or uncommitted stock_level row is ever negative, however the
\* reads and saves of concurrent requests interleave: the bounds are checked on
\* values that may be stale by the time the result is written
\* ('Stock cannot be negative', inventory.service.ts:138-140).
StockNonNegative ==
  \A w \in RowIds : qty[w] >= 0 /\ \A r \in Requests : priv[r][w] >= 0

\* The movements explain the stock: unless a stale save was committed for a row,
\* its quantity is what it was at first plus its committed movements.
LedgerExplainsStock ==
  \A w \in RowIds \ drift : qty[w] = InitialQty[w] + ledger[w]

SelfTransfer(b) == b.kind = "transfer" /\ b.from = b.to

\* Requests served one at a time never save a stale row, so they keep stock and
\* movements equal; the one exception is a transfer from a place to itself.
SerialRequestsDoNotDrift ==
  drift # {} => overlap \/ \E r \in Requests : pc[r] = "done" /\ SelfTransfer(body[r])

\* The unique index holds wherever it can: no two committed rows for the same
\* variant on the same vehicle.
OneRowPerVehicleVariant ==
  \A v, w \in rows : Twin(v, w) => v = w

\* Every request that began is answered, also when transfers in opposite
\* directions lock each other's rows.
RequestsFinish ==
  \A r \in Requests : pc[r] # "idle" ~> pc[r] \in Finished

\* inventory.service.ts:195-199: 'Insufficient stock for product': an order is
\* refused when the stock does not cover it.
ShortOrdersAreRefused ==
  \A r \in short : pc[r] \notin {"committed", "done"}

\* The same check, over all orders: what they and the transfers take from a row
\* never exceeds what was put there.
NothingIsSoldTwice ==
  \A w \in RowIds : InitialQty[w] + ledger[w] >= 0

=============================================================================
