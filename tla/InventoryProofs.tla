--------------------------- MODULE InventoryProofs ---------------------------
(***************************************************************************)
(* Proofs about Inventory, for every set of requests, rows, items, places  *)
(* and request bodies that meets the module's assumptions.                 *)
(***************************************************************************)
EXTENDS Inventory, SequenceTheorems, TLAPS

\* Every request's body is a body, with typed lines.
LEMMA BodyType ==
  ASSUME TypeOK, NEW r \in Requests
  PROVE  /\ body[r] \in Bodies
         /\ body[r] \in Body
         /\ body[r].lines \in Seq([item : Items, n : Int])
         /\ Len(body[r].lines) \in Nat
         /\ DOMAIN body[r].lines = 1 .. Len(body[r].lines)
<1>1. body[r] \in Bodies /\ body[r] \in Body
  BY BodyAssumption DEF TypeOK
<1>2. body[r].lines \in Seq([item : Items, n : Int])
  BY <1>1 DEF Body
<1> QED
  BY <1>1, <1>2, LenProperties

\* Where a request reads, it works on a line whose item and quantity are typed.
LEMMA LineType ==
  ASSUME TypeOK, NEW r \in Requests, pc[r] \in {"read", "readTo", "save"}
  PROVE  /\ body[r] \in Body
         /\ Line(r).item \in Items
         /\ Line(r).n \in Int
<1>1. body[r] \in Body
  BY BodyAssumption DEF TypeOK
<1>2. line[r] \in DOMAIN body[r].lines
  BY DEF TypeOK
<1>3. body[r].lines \in Seq([item : Items, n : Int])
  BY <1>1 DEF Body
<1>4. Line(r) \in [item : Items, n : Int]
  BY <1>2, <1>3, ElementOfSeq, LenProperties DEF Line
<1> QED
  BY <1>1, <1>4

\* A transfer moves at least one unit.
LEMMA TransferQuantity ==
  ASSUME TypeOK, NEW r \in Requests, pc[r] \in {"read", "readTo"},
         body[r].kind = "transfer"
  PROVE  Line(r).n >= 1
<1>1. body[r] \in Bodies /\ body[r] \in Body
  BY BodyAssumption DEF TypeOK
<1>2. Len(body[r].lines) = 1 /\ body[r].lines[1].n >= 1
  BY <1>1, BodyAssumption
<1>3. body[r].lines \in Seq([item : Items, n : Int])
  BY <1>1 DEF Body
<1>4. line[r] = 1
  <2>1. line[r] \in DOMAIN body[r].lines
    BY DEF TypeOK
  <2> QED
    BY <2>1, <1>2, <1>3
<1> QED
  BY <1>2, <1>4 DEF Line

\* What getStockLevel returns: a row, with the quantity the transaction sees or
\* none at all.
LEMMA StockLevelType ==
  ASSUME TypeOK, NEW r \in Requests, NEW i, NEW at, NEW e \in GetStockLevel(r, i, at)
  PROVE  /\ e.row \in RowIds
         /\ e.read \in Int
         /\ e.fresh \in BOOLEAN
         /\ e.read = Value(r, e.row) \/ e.read = 0
<1>1. \A w \in RowIds : Value(r, w) \in Int
  BY DEF Value, TypeOK
<1>2. Hits(r, i, at) \subseteq RowIds
  BY DEF Hits, TypeOK
<1>3. CASE Hits(r, i, at) # {}
  <2>1. PICK w \in Hits(r, i, at) :
                e = [row |-> w, read |-> Value(r, w), fresh |-> FALSE]
    BY <1>3 DEF GetStockLevel
  <2> QED
    BY <1>1, <1>2, <2>1
<1>4. CASE Hits(r, i, at) = {}
  <2>1. PICK w \in Unused(r, i, at) : e = [row |-> w, read |-> 0, fresh |-> TRUE]
    BY <1>4 DEF GetStockLevel
  <2> QED
    BY <2>1 DEF Unused
<1> QED
  BY <1>3, <1>4

\* An entity whose quantity was set, as transfer, adjust and the deduction set it.
LEMMA ChangedType ==
  ASSUME NEW e, e.row \in RowIds, e.read \in Int, e.fresh \in BOOLEAN, NEW d \in Int
  PROVE  /\ Changed(e, d) \in Entity
         /\ Changed(e, d).row = e.row
         /\ Changed(e, d).read = e.read
         /\ Changed(e, d).new = e.read + d
BY DEF Changed, Entity

-----------------------------------------------------------------------------
(* Type correctness.                                                       *)

\* A rolled back request has an empty memory and no writes.
LEMMA RollbackType ==
  ASSUME TypeOK, NEW r \in Requests, Rollback(r)
  PROVE  TypeOK'
BY DEF TypeOK, Rollback, Goto, Finished, Nothing, table, hist

\* A request that takes entities into memory, or none, and goes on accordingly.
LEMMA HoldType ==
  ASSUME TypeOK, NEW r \in Requests, NEW es \in Seq(Entity), NEW l, Hold(r, es, l),
         \/ l = "commit" /\ es = <<>>
         \/ l = "read" /\ es = <<>> /\ line[r] \in DOMAIN body[r].lines
         \/ l = "readTo" /\ es # <<>> /\ pc[r] = "read" /\ body[r].kind = "transfer"
         \/ l = "save" /\ es # <<>> /\ pc[r] \in {"read", "readTo"}
  PROVE  TypeOK'
BY DEF TypeOK, Hold, Goto, Finished, table, hist, txn

\* A sequence has more than one element exactly when its tail is not empty.
LEMMA TailLen ==
  ASSUME NEW S, NEW s \in Seq(S), s # <<>>
  PROVE  Len(s) > 1 <=> Tail(s) # <<>>
<1>1. Len(s) \in Nat \ {0}
  BY EmptySeq
<1>2. Tail(s) \in Seq(S) /\ Len(Tail(s)) = Len(s) - 1
  BY HeadTailProperties
<1>3. Tail(s) = <<>> => Len(Tail(s)) = 0
  BY EmptySeq
<1>4. Tail(s) # <<>> => Len(Tail(s)) \in Nat \ {0}
  BY <1>2, EmptySeq
<1> DEFINE n == Len(s)
           m == Len(Tail(s))
<1>5. n \in Nat /\ m = n - 1
  BY <1>1, <1>2
<1> HIDE DEF n, m
<1>6. m = 0 => ~(n > 1)
  BY <1>5
<1>7. m \in Nat \ {0} => n > 1
  BY <1>5
<1> QED
  BY <1>3, <1>4, <1>6, <1>7 DEF n, m

\* The entity that is saved next.
LEMMA HeadType ==
  ASSUME TypeOK, NEW r \in Requests, pc[r] = "save"
  PROVE  /\ ents[r] \in Seq(Entity)
         /\ ents[r] # <<>>
         /\ Head(ents[r]) \in Entity
         /\ Tail(ents[r]) \in Seq(Entity)
         /\ Len(ents[r]) > 1 <=> Tail(ents[r]) # <<>>
<1>1. ents[r] \in Seq(Entity) /\ ents[r] # <<>>
  BY DEF TypeOK
<1> QED
  BY <1>1, HeadTailProperties, TailLen

\* The quantity of a row a transaction sees is a number.
LEMMA ValueType ==
  ASSUME TypeOK, NEW r \in Requests, NEW w \in RowIds
  PROVE  Value(r, w) \in Int
BY DEF Value, TypeOK

\* manager.save keeps the types, and a request has entities left exactly while it
\* has some to save.
LEMMA SaveType ==
  ASSUME TypeOK, NEW r \in Requests, Save(r)
  PROVE  TypeOK'
<1>1. CASE Rollback(r)
  BY <1>1, RollbackType
<1>2. CASE ~Rollback(r)
  <2> DEFINE e == Head(ents[r])
  <2>1. e \in Entity /\ Tail(ents[r]) \in Seq(Entity)
    BY HeadType DEF Save
  <2>2. /\ Write(r, e)
        /\ ents' = [ents EXCEPT ![r] = Tail(@)]
        /\ Goto(r, AfterSave(r))
        /\ line' = [line EXCEPT ![r] = IF AfterSave(r) = "read" THEN @ + 1 ELSE @]
        /\ UNCHANGED <<table, body, hist>>
    BY <1>2 DEF Save
  <2>3. /\ mine' \in [Requests -> SUBSET RowIds]
        /\ priv' \in [Requests -> [RowIds -> Int]]
        /\ moves' \in [Requests -> [RowIds -> Int]]
        /\ stale' \in [Requests -> SUBSET RowIds]
    <3>1. e.row \in RowIds /\ e.new \in Int /\ e.read \in Int
      BY <2>1 DEF Entity
    <3>2. mine' \in [Requests -> SUBSET RowIds]
      BY <2>2, <3>1 DEF Write, TypeOK
    <3>3. priv' \in [Requests -> [RowIds -> Int]]
      BY <2>2, <3>1 DEF Write, TypeOK
    <3>4. moves' \in [Requests -> [RowIds -> Int]]
      BY <2>2, <3>1 DEF Write, TypeOK
    <3>5. stale' \in [Requests -> SUBSET RowIds]
      BY <2>2, <3>1 DEF Write, TypeOK
    <3> QED
      BY <3>2, <3>3, <3>4, <3>5
  <2>4. /\ ents' \in [Requests -> Seq(Entity)]
        /\ line' \in [Requests -> Nat \ {0}]
        /\ AfterSave(r) \in {"save", "read", "commit"}
    BY <2>1, <2>2 DEF TypeOK, AfterSave
  <2>5. pc' \in [Requests -> {"idle", "ordered", "read", "readTo", "save", "commit",
                              "committed"} \cup Finished]
    BY <2>2, <2>4 DEF TypeOK, Goto
  <2>6. ASSUME NEW s \in Requests
        PROVE  /\ pc'[s] \in {"readTo", "save"} <=> ents'[s] # <<>>
               /\ pc'[s] = "readTo" => body'[s].kind = "transfer"
               /\ pc'[s] \in {"read", "readTo", "save"} =>
                    line'[s] \in DOMAIN body'[s].lines
               /\ pc'[s] \in {"idle", "ordered"} => line'[s] = 1
    <3>1. CASE s # r
      BY <2>2, <3>1 DEF TypeOK, Goto
    <3>2. CASE s = r
      <4>1. pc'[r] = AfterSave(r) /\ ents'[r] = Tail(ents[r]) /\ body' = body
        BY <2>2 DEF TypeOK, Goto
      <4>2. /\ pc[r] = "save" /\ line[r] \in Nat
            /\ line[r] \in DOMAIN body[r].lines
            /\ Len(body[r].lines) \in Nat
            /\ DOMAIN body[r].lines = 1 .. Len(body[r].lines)
        BY BodyType DEF Save, TypeOK
      <4>3. line'[r] = IF AfterSave(r) = "read" THEN line[r] + 1 ELSE line[r]
        BY <2>2 DEF TypeOK
      <4>4. AfterSave(r) = "save" <=> Tail(ents[r]) # <<>>
        BY <4>2, HeadType DEF AfterSave
      <4>5. AfterSave(r) \in {"read", "save"} => line'[r] \in DOMAIN body[r].lines
        BY <4>2, <4>3 DEF AfterSave
      <4> QED
        BY <2>4, <3>2, <4>1, <4>4, <4>5
    <3> QED
      BY <3>1, <3>2
  <2> QED
    BY <2>2, <2>3, <2>4, <2>5, <2>6 DEF TypeOK, table, hist
<1> QED
  BY <1>1, <1>2

\* A commit publishes numbers, and leaves nothing uncommitted behind.
LEMMA CommitType ==
  ASSUME TypeOK, NEW r \in Requests, Commit(r)
  PROVE  TypeOK'
<1>1. /\ rows' \subseteq RowIds
      /\ qty' \in [RowIds -> Int]
      /\ ledger' \in [RowIds -> Int]
      /\ drift' \subseteq RowIds
  BY ValueType DEF Commit, TypeOK
<1>2. /\ mine' \in [Requests -> SUBSET RowIds]
      /\ priv' \in [Requests -> [RowIds -> Int]]
      /\ moves' \in [Requests -> [RowIds -> Int]]
      /\ stale' \in [Requests -> SUBSET RowIds]
  BY DEF Commit, TypeOK, Nothing
<1>3. /\ pc' \in [Requests -> {"idle", "ordered", "read", "readTo", "save", "commit",
                               "committed"} \cup Finished]
      /\ \A s \in Requests : s # r => pc'[s] = pc[s]
      /\ pc'[r] \in {"committed", "done"}
      /\ pc[r] = "commit"
  BY DEF Commit, TypeOK, Goto, Finished
<1> QED
  BY <1>1, <1>2, <1>3 DEF Commit, TypeOK

\* Whatever requests come, the rows, the ledger and what each request holds in memory
\* keep their types, the shape of its list of entities included.
THEOREM InventoryTypeCorrect == Spec => []TypeOK
<1>1. Init => TypeOK
  <2> SUFFICES ASSUME Init PROVE TypeOK
    OBVIOUS
  <2>1. InitialQty \in [RowIds -> Int]
    BY RowAssumption
  <2> QED
    <3>1. /\ ledger \in [RowIds -> Int]
          /\ priv \in [Requests -> [RowIds -> Int]]
          /\ moves \in [Requests -> [RowIds -> Int]]
      BY DEF Init, Nothing
    <3>2. /\ ents \in [Requests -> Seq(Entity)]
          /\ mine \in [Requests -> SUBSET RowIds]
          /\ stale \in [Requests -> SUBSET RowIds]
      BY DEF Init
    <3>3. \A r \in Requests :
            pc[r] = "idle" /\ ents[r] = <<>> /\ line[r] = 1
      BY DEF Init
    <3>4. pc \in [Requests -> {"idle", "ordered", "read", "readTo", "save",
                              "commit", "committed"} \cup Finished]
      BY DEF Init
    <3>5. /\ line \in [Requests -> Nat \ {0}]
          /\ drift \subseteq RowIds /\ short \subseteq Requests
      BY DEF Init
    <3>7. overlap \in BOOLEAN
      BY DEF Init
    <3>6. /\ rows \subseteq RowIds /\ qty \in [RowIds -> Int]
          /\ body \in [Requests -> Bodies]
      BY <2>1, RowAssumption DEF Init
    <3> QED
      BY <3>1, <3>2, <3>3, <3>4, <3>5, <3>6, <3>7 DEF TypeOK
<1>2. TypeOK /\ [Next]_vars => TypeOK'
  <2> SUFFICES ASSUME TypeOK, [Next]_vars PROVE TypeOK'
    OBVIOUS
  <2>1. CASE UNCHANGED vars
    BY <2>1 DEF TypeOK, vars, table, txn, hist
  <2> SUFFICES ASSUME NEW r \in Requests, Begin(r) \/ Step(r) \/ Fail(r)
               PROVE  TypeOK'
    BY <2>1 DEF Next
  <2>2. CASE Begin(r)
    <3>1. /\ pc' \in [Requests -> {"idle", "ordered", "read", "readTo", "save",
                                   "commit", "committed"} \cup Finished]
          /\ overlap' \in BOOLEAN
          /\ line[r] = 1
      BY <2>2 DEF TypeOK, Begin, Goto, Finished, Open
    <3>2. \A s \in Requests :
            /\ pc'[s] \in {"readTo", "save"} <=> ents'[s] # <<>>
            /\ pc'[s] = "readTo" => body'[s].kind = "transfer"
            /\ pc'[s] \in {"idle", "ordered"} => line'[s] = 1
      BY <2>2 DEF TypeOK, Begin, Goto, Finished, txn
    <3>3. ASSUME NEW s \in Requests, pc'[s] \in {"read", "readTo", "save"}
          PROVE  line'[s] \in DOMAIN body'[s].lines
      <4>1. CASE s = r
        <5>1. body[r] \in Bodies /\ body[r].kind # "order"
          BY <2>2, <3>3, <4>1 DEF TypeOK, Begin, Goto
        <5>2. Len(body[r].lines) = 1 /\ body[r].lines \in Seq([item : Items, n : Int])
          BY <5>1, BodyAssumption DEF Body
        <5> QED
          BY <2>2, <3>1, <4>1, <5>2, LenProperties DEF Begin
      <4>2. CASE s # r
        BY <2>2, <3>3, <4>2 DEF TypeOK, Begin, Goto
      <4> QED
        BY <4>1, <4>2
    <3> QED
      BY <2>2, <3>1, <3>2, <3>3 DEF TypeOK, Begin, table, txn, hist
  <2>3. CASE ReadForAdjust(r)
    <3>1. CASE Rollback(r)
      BY <3>1, RollbackType
    <3>2. ASSUME NEW e \in GetStockLevel(r, Line(r).item, body[r].from),
                 Hold(r, <<Changed(e, Line(r).n)>>, "save")
          PROVE  TypeOK'
      <4>1. Changed(e, Line(r).n) \in Entity
        BY <2>3, <3>2, LineType, StockLevelType, ChangedType DEF ReadForAdjust
      <4>2. /\ <<Changed(e, Line(r).n)>> \in Seq(Entity)
            /\ <<Changed(e, Line(r).n)>> # <<>>
        BY <4>1
      <4> QED
        BY <2>3, <3>2, <4>2, HoldType DEF ReadForAdjust
    <3> QED
      BY <2>3, <3>1, <3>2 DEF ReadForAdjust
  <2>4. CASE ReadSource(r)
    <3>1. CASE Rollback(r)
      BY <3>1, RollbackType
    <3>2. ASSUME NEW e \in GetStockLevel(r, Line(r).item, body[r].from),
                 Hold(r, <<Changed(e, -Line(r).n)>>, "readTo")
          PROVE  TypeOK'
      <4>1. Changed(e, -Line(r).n) \in Entity
        BY <2>4, <3>2, LineType, StockLevelType, ChangedType DEF ReadSource
      <4>2. /\ <<Changed(e, -Line(r).n)>> \in Seq(Entity)
            /\ <<Changed(e, -Line(r).n)>> # <<>>
        BY <4>1
      <4> QED
        BY <2>4, <3>2, <4>2, HoldType DEF ReadSource
    <3> QED
      BY <2>4, <3>1, <3>2 DEF ReadSource
  <2>5. CASE ReadDestination(r)
    <3>1. CASE Rollback(r)
      BY <3>1, RollbackType
    <3>2. ASSUME NEW e \in GetStockLevel(r, Line(r).item, body[r].to),
                 Hold(r, Append(ents[r], Changed(e, Line(r).n)), "save")
          PROVE  TypeOK'
      <4>1. ents[r] \in Seq(Entity) /\ Changed(e, Line(r).n) \in Entity
        BY <2>5, LineType, StockLevelType, ChangedType DEF ReadDestination, TypeOK
      <4>2. /\ Append(ents[r], Changed(e, Line(r).n)) \in Seq(Entity)
            /\ Append(ents[r], Changed(e, Line(r).n)) # <<>>
        BY <4>1, AppendProperties
      <4> QED
        BY <2>5, <3>2, <4>2, HoldType DEF ReadDestination
    <3> QED
      BY <2>5, <3>1, <3>2 DEF ReadDestination
  <2>6. CASE Listen(r)
    <3>1. CASE Rollback(r)
      BY <3>1, RollbackType
    <3>2. CASE Hold(r, <<>>, "commit")
      BY <3>2, HoldType, <<>> \in Seq(Entity)
    <3>3. CASE body[r].lines # <<>> /\ Hold(r, <<>>, "read")
      <4>1. line[r] = 1
        BY <2>6 DEF Listen, TypeOK
      <4>2. Len(body[r].lines) \in Nat \ {0}
        BY <3>3, BodyType, EmptySeq
      <4>3. line[r] \in DOMAIN body[r].lines
        BY <4>1, <4>2, BodyType
      <4> QED
        BY <3>3, <4>3, HoldType, <<>> \in Seq(Entity)
    <3> QED
      BY <2>6, <3>1, <3>2, <3>3 DEF Listen
  <2>7. CASE ReadForDeduction(r)
    <3>1. ASSUME pc[r] = "read", Goto(r, "commit"), short' = short \cup {r},
                 UNCHANGED <<table, body, line, ents, txn, drift, overlap>>
          PROVE  TypeOK'
      <4>1. pc' \in [Requests -> {"idle", "ordered", "read", "readTo", "save",
                                   "commit", "committed"} \cup Finished]
        BY <3>1 DEF TypeOK, Goto
      <4>2. short' \subseteq Requests
        BY <3>1 DEF TypeOK
      <4> QED
        BY <3>1, <4>1, <4>2 DEF TypeOK, Goto, table, txn
    <3>2. ASSUME NEW e \in GetStockLevel(r, Line(r).item, body[r].from),
                 Hold(r, <<Changed(e, -Line(r).n)>>, "save")
          PROVE  TypeOK'
      <4>1. Changed(e, -Line(r).n) \in Entity
        BY <2>7, <3>2, LineType, StockLevelType, ChangedType DEF ReadForDeduction
      <4>2. /\ <<Changed(e, -Line(r).n)>> \in Seq(Entity)
            /\ <<Changed(e, -Line(r).n)>> # <<>>
        BY <4>1
      <4> QED
        BY <2>7, <3>2, <4>2, HoldType DEF ReadForDeduction
    <3> QED
      BY <2>7, <3>1, <3>2 DEF ReadForDeduction
  <2>8. CASE Save(r)
    BY <2>8, SaveType, RollbackType DEF Save
  <2>9. CASE AbortDeadlock(r) \/ Fail(r)
    BY <2>9, RollbackType DEF AbortDeadlock, Fail
  <2>10. CASE Commit(r)
    BY <2>10, CommitType
  <2>11. CASE Reply(r)
    BY <2>11 DEF TypeOK, Reply, Goto, Finished, table, txn, hist
  <2> QED
    BY <2>2, <2>3, <2>4, <2>5, <2>6, <2>7, <2>8, <2>9, <2>10, <2>11 DEF Step
<1> QED
  BY <1>1, <1>2, PTL DEF Spec

-----------------------------------------------------------------------------
(* No quantity is ever negative.  What a request is about to save is not    *)
(* negative either, whatever the row holds by then.                         *)

PendingNonNegative ==
  \A r \in Requests : \A k \in DOMAIN ents[r] : ents[r][k].new >= 0

NonNegative == StockNonNegative /\ PendingNonNegative

\* A rollback leaves no negative quantity: it only drops writes.
LEMMA RollbackNonNegative ==
  ASSUME TypeOK, NonNegative, NEW r \in Requests, Rollback(r)
  PROVE  NonNegative'
<1>1. StockNonNegative'
  BY DEF Rollback, NonNegative, StockNonNegative, Nothing, table, TypeOK
<1>2. PendingNonNegative'
  BY DEF Rollback, NonNegative, PendingNonNegative, TypeOK
<1> QED
  BY <1>1, <1>2 DEF NonNegative

\* Entities that passed their check may be held.
LEMMA HoldNonNegative ==
  ASSUME TypeOK, NonNegative, NEW r \in Requests, NEW es, NEW l, Hold(r, es, l),
         \A k \in DOMAIN es : es[k].new >= 0
  PROVE  NonNegative'
<1>1. StockNonNegative'
  BY DEF Hold, NonNegative, StockNonNegative, table, txn
<1>2. PendingNonNegative'
  BY DEF Hold, NonNegative, PendingNonNegative, TypeOK
<1> QED
  BY <1>1, <1>2 DEF NonNegative

\* A quantity read is not negative.
LEMMA ReadNonNegative ==
  ASSUME TypeOK, NonNegative, NEW r \in Requests, NEW i, NEW at,
         NEW e \in GetStockLevel(r, i, at)
  PROVE  e.read >= 0
BY StockLevelType DEF NonNegative, StockNonNegative, Value

\* A save writes a quantity that passed its check, stale or not.
LEMMA SaveNonNegative ==
  ASSUME TypeOK, NonNegative, NEW r \in Requests, Save(r)
  PROVE  NonNegative'
<1>1. CASE Rollback(r)
  BY <1>1, RollbackNonNegative
<1>2. CASE ~Rollback(r)
  <2> DEFINE e == Head(ents[r])
  <2>1. /\ Write(r, e)
        /\ ents' = [ents EXCEPT ![r] = Tail(@)]
        /\ UNCHANGED table
    BY <1>2 DEF Save
  <2>2. /\ ents[r] \in Seq(Entity) /\ ents[r] # <<>>
        /\ e \in Entity /\ Tail(ents[r]) \in Seq(Entity)
    BY HeadType DEF Save
  <2>3. /\ Len(ents[r]) \in Nat \ {0}
        /\ Len(Tail(ents[r])) = Len(ents[r]) - 1
        /\ DOMAIN ents[r] = 1 .. Len(ents[r])
        /\ DOMAIN Tail(ents[r]) = 1 .. Len(Tail(ents[r]))
        /\ \A k \in 1 .. Len(Tail(ents[r])) : Tail(ents[r])[k] = ents[r][k + 1]
    BY <2>2, HeadTailProperties, EmptySeq, LenProperties
  <2>4. e.new >= 0
    <3>1. e = ents[r][1]
      BY <2>2
    <3>2. 1 \in DOMAIN ents[r]
      BY <2>3
    <3> QED
      BY <3>1, <3>2 DEF NonNegative, PendingNonNegative
  <2>5. StockNonNegative'
    <3>1. e.row \in RowIds
      BY <2>2 DEF Entity
    <3>2. \A s \in Requests, w \in RowIds : priv'[s][w] = priv[s][w] \/ priv'[s][w] = e.new
      BY <2>1, <3>1 DEF Write, TypeOK
    <3> QED
      BY <2>1, <2>4, <3>2 DEF NonNegative, StockNonNegative, table
  <2>6. PendingNonNegative'
    <3> SUFFICES ASSUME NEW s \in Requests, NEW k \in DOMAIN ents'[s]
                 PROVE  ents'[s][k].new >= 0
      BY DEF PendingNonNegative
    <3>1. CASE s # r
      BY <2>1, <3>1 DEF NonNegative, PendingNonNegative, TypeOK
    <3>2. CASE s = r
      <4>1. ents'[r] = Tail(ents[r])
        BY <2>1 DEF TypeOK
      <4>2. k \in 1 .. Len(Tail(ents[r]))
        BY <2>3, <3>2, <4>1
      <4>3. k + 1 \in DOMAIN ents[r]
        BY <2>3, <4>2
      <4>4. ents'[s][k] = ents[r][k + 1]
        BY <2>3, <3>2, <4>1, <4>2
      <4> QED
        BY <4>3, <4>4 DEF NonNegative, PendingNonNegative
    <3> QED
      BY <3>1, <3>2
  <2> QED
    BY <2>5, <2>6 DEF NonNegative
<1> QED
  BY <1>1, <1>2

\* A commit publishes quantities that are not negative.
LEMMA CommitNonNegative ==
  ASSUME TypeOK, NonNegative, NEW r \in Requests, Commit(r)
  PROVE  NonNegative'
<1>1. StockNonNegative'
  <2>1. \A w \in RowIds : qty'[w] >= 0
    BY DEF Commit, Value, NonNegative, StockNonNegative
  <2>2. \A s \in Requests, w \in RowIds : priv'[s][w] = priv[s][w] \/ priv'[s][w] = 0
    BY DEF Commit, TypeOK, Nothing
  <2> QED
    BY <2>1, <2>2 DEF NonNegative, StockNonNegative
<1>2. PendingNonNegative'
  BY DEF Commit, NonNegative, PendingNonNegative
<1> QED
  BY <1>1, <1>2 DEF NonNegative

\* StockNonNegative holds in every reachable state: each check is made on a value
\* that was not negative when it was read, and the result is saved as it is.
THEOREM InventoryStockNonNegative == Spec => []StockNonNegative
<1>1. Init => NonNegative
  <2> SUFFICES ASSUME Init PROVE NonNegative
    OBVIOUS
  <2>1. StockNonNegative
    BY RowAssumption DEF Init, StockNonNegative, Nothing
  <2>2. PendingNonNegative
    BY DEF Init, PendingNonNegative
  <2> QED
    BY <2>1, <2>2 DEF NonNegative
<1>2. TypeOK /\ NonNegative /\ [Next]_vars => NonNegative'
  <2> SUFFICES ASSUME TypeOK, NonNegative, [Next]_vars PROVE NonNegative'
    OBVIOUS
  <2>1. ASSUME UNCHANGED <<qty, priv, ents>> PROVE NonNegative'
    BY <2>1 DEF NonNegative, StockNonNegative, PendingNonNegative
  <2>2. CASE UNCHANGED vars
    BY <2>1, <2>2 DEF vars, table, txn
  <2> SUFFICES ASSUME NEW r \in Requests, Begin(r) \/ Step(r) \/ Fail(r)
               PROVE  NonNegative'
    BY <2>2 DEF Next
  <2>3. CASE Begin(r) \/ Reply(r)
    BY <2>1, <2>3 DEF Begin, Reply, table, txn
  <2>4. CASE Rollback(r)
    BY <2>4, RollbackNonNegative
  <2>5. CASE ReadForAdjust(r)
    <3>1. ASSUME NEW e \in GetStockLevel(r, Line(r).item, body[r].from),
                 ~(e.read + Line(r).n < 0),
                 Hold(r, <<Changed(e, Line(r).n)>>, "save")
          PROVE  NonNegative'
      <4>1. Changed(e, Line(r).n).new >= 0
        BY <2>5, <3>1, LineType, StockLevelType DEF ReadForAdjust, Changed
      <4> QED
        BY <3>1, <4>1, HoldNonNegative
    <3> QED
      BY <2>4, <2>5, <3>1 DEF ReadForAdjust
  <2>6. CASE ReadSource(r)
    <3>1. ASSUME NEW e \in GetStockLevel(r, Line(r).item, body[r].from),
                 ~Lacks(e, Line(r).n),
                 Hold(r, <<Changed(e, -Line(r).n)>>, "readTo")
          PROVE  NonNegative'
      <4>1. Changed(e, -Line(r).n).new >= 0
        BY <2>6, <3>1, LineType, StockLevelType DEF ReadSource, Changed, Lacks
      <4> QED
        BY <3>1, <4>1, HoldNonNegative
    <3> QED
      BY <2>4, <2>6, <3>1 DEF ReadSource
  <2>7. CASE ReadDestination(r)
    <3>1. ASSUME NEW e \in GetStockLevel(r, Line(r).item, body[r].to),
                 Hold(r, Append(ents[r], Changed(e, Line(r).n)), "save")
          PROVE  NonNegative'
      <4> DEFINE c == Changed(e, Line(r).n)
      <4>1. c \in Entity /\ ents[r] \in Seq(Entity)
        BY <2>7, LineType, StockLevelType, ChangedType DEF ReadDestination, TypeOK
      <4>2. Line(r).n >= 1 /\ Line(r).n \in Int
        BY <2>7, LineType, TransferQuantity DEF ReadDestination, TypeOK
      <4>3. e.read >= 0 /\ e.read \in Int
        BY ReadNonNegative, StockLevelType
      <4>4. c.new >= 0
        BY <4>2, <4>3 DEF Changed
      <4>5. \A k \in DOMAIN Append(ents[r], c) : Append(ents[r], c)[k].new >= 0
        BY <4>1, <4>4, AppendProperties, LenProperties
           DEF NonNegative, PendingNonNegative
      <4> QED
        BY <3>1, <4>5, HoldNonNegative
    <3> QED
      BY <2>4, <2>7, <3>1 DEF ReadDestination
  <2>8. CASE Listen(r)
    <3>1. ASSUME NEW l, Hold(r, <<>>, l) PROVE NonNegative'
      BY <3>1, HoldNonNegative
    <3> QED
      BY <2>4, <2>8, <3>1 DEF Listen
  <2>9. CASE ReadForDeduction(r)
    <3>1. ASSUME NEW e \in GetStockLevel(r, Line(r).item, body[r].from),
                 ~Lacks(e, Line(r).n),
                 Hold(r, <<Changed(e, -Line(r).n)>>, "save")
          PROVE  NonNegative'
      <4>1. Changed(e, -Line(r).n).new >= 0
        BY <2>9, <3>1, LineType, StockLevelType DEF ReadForDeduction, Changed, Lacks
      <4> QED
        BY <3>1, <4>1, HoldNonNegative
    <3> QED
      BY <2>1, <2>9, <3>1 DEF ReadForDeduction, table, txn
  <2>10. CASE Save(r)
    BY <2>10, SaveNonNegative
  <2>11. CASE Commit(r)
    BY <2>11, CommitNonNegative
  <2> QED
    BY <2>3, <2>4, <2>5, <2>6, <2>7, <2>8, <2>9, <2>10, <2>11
       DEF Step, AbortDeadlock, Fail
<1> QED
  BY <1>1, <1>2, InventoryTypeCorrect, PTL DEF Spec, NonNegative

-----------------------------------------------------------------------------
(* The movements explain the stock.                                        *)

\* A row is written by one open transaction at a time.
LocksExclusive ==
  \A r, s \in Requests : r # s => mine[r] \cap mine[s] = {}

\* What a transaction makes of a row is what is committed plus its movements,
\* unless it saved the row stale.
MovesExplainWrites ==
  \A r \in Requests : \A w \in RowIds \ (drift \cup stale[r]) :
    Value(r, w) = qty[w] + moves[r][w]

Explained == LocksExclusive /\ MovesExplainWrites /\ LedgerExplainsStock

\* A rollback drops writes and movements together.
LEMMA RollbackExplained ==
  ASSUME TypeOK, Explained, NEW r \in Requests, Rollback(r)
  PROVE  Explained'
<1>1. LocksExclusive'
  BY DEF Rollback, Explained, LocksExclusive, TypeOK
<1>2. MovesExplainWrites'
  BY DEF Rollback, Explained, MovesExplainWrites, Value, Nothing, TypeOK, table, hist
<1>3. LedgerExplainsStock'
  BY DEF Rollback, Explained, LedgerExplainsStock, table, hist
<1> QED
  BY <1>1, <1>2, <1>3 DEF Explained

\* A save that overwrites the value it read keeps quantity and movements equal, and
\* takes a lock no other transaction holds.
LEMMA SaveExplained ==
  ASSUME TypeOK, Explained, NEW r \in Requests, Save(r)
  PROVE  Explained'
<1>1. CASE Rollback(r)
  BY <1>1, RollbackExplained
<1>2. CASE ~Rollback(r)
  <2> DEFINE e == Head(ents[r])
  <2>1. Write(r, e) /\ UNCHANGED <<table, hist>>
    BY <1>2 DEF Save
  <2>2. e.row \in RowIds /\ e.new \in Int /\ e.read \in Int
    BY HeadType DEF Save, Entity
  <2>3. \A s \in Requests \ {r} : Writes(r, e) => e.row \notin mine[s]
    BY DEF Save, Blockers
  <2>4. LocksExclusive'
    BY <2>1, <2>3 DEF Explained, LocksExclusive, Write, TypeOK
  <2>5. MovesExplainWrites'
    <3> SUFFICES ASSUME NEW s \in Requests, NEW w \in RowIds \ (drift' \cup stale'[s])
                 PROVE  Value(s, w)' = qty'[w] + moves'[s][w]
      BY DEF MovesExplainWrites
    <3>1. qty' = qty /\ drift' = drift
      BY <2>1 DEF table, hist
    <3>2. CASE s # r \/ w # e.row
      <4>1. w \notin stale[s]
        BY <2>1, <3>2 DEF Write, TypeOK
      <4>2. /\ w \in mine'[s] <=> w \in mine[s]
            /\ priv'[s][w] = priv[s][w]
            /\ moves'[s][w] = moves[s][w]
        BY <2>1, <2>2, <3>2 DEF Write, TypeOK
      <4> QED
        BY <3>1, <4>1, <4>2 DEF Explained, MovesExplainWrites, Value
    <3>3. CASE s = r /\ w = e.row
      <4>1. Value(r, w) = e.read /\ w \notin stale[r]
        BY <2>1, <3>3 DEF Write, TypeOK
      <4>2. moves'[r][w] = moves[r][w] + (e.new - e.read)
        BY <2>1, <2>2, <3>3 DEF Write, TypeOK
      <4>3. Value(r, w)' = e.new
        <5>1. CASE Writes(r, e)
          BY <2>1, <2>2, <3>3, <5>1 DEF Write, TypeOK, Value
        <5>2. CASE ~Writes(r, e)
          <6>1. Value(r, w) = e.new
            BY <3>3, <5>2 DEF Writes
          <6>2. mine'[r] = mine[r] /\ priv'[r][w] = priv[r][w]
            BY <2>1, <2>2, <3>3, <5>2 DEF Write, TypeOK
          <6> QED
            BY <3>1, <6>1, <6>2 DEF Value
        <5> QED
          BY <5>1, <5>2
      <4>4. Value(r, w) = qty[w] + moves[r][w]
        BY <3>1, <4>1 DEF Explained, MovesExplainWrites
      <4>5. qty[w] \in Int /\ moves[r][w] \in Int
        BY DEF TypeOK
      <4> QED
        BY <2>2, <3>1, <3>3, <4>1, <4>2, <4>3, <4>4, <4>5
    <3> QED
      BY <3>2, <3>3
  <2>6. LedgerExplainsStock'
    BY <2>1 DEF Explained, LedgerExplainsStock, table, hist
  <2> QED
    BY <2>4, <2>5, <2>6 DEF Explained
<1> QED
  BY <1>1, <1>2

\* A commit publishes writes and movements together; nobody else has an uncommitted
\* write of those rows.
LEMMA CommitExplained ==
  ASSUME TypeOK, Explained, NEW r \in Requests, Commit(r)
  PROVE  Explained'
<1>1. LocksExclusive'
  BY DEF Commit, Explained, LocksExclusive, TypeOK
<1>2. /\ \A w \in RowIds : qty'[w] = Value(r, w)
      /\ \A w \in RowIds : ledger'[w] = ledger[w] + moves[r][w]
      /\ drift' = drift \cup stale[r]
      /\ \A w \in RowIds : qty[w] \in Int /\ ledger[w] \in Int /\ moves[r][w] \in Int
  BY DEF Commit, TypeOK
<1>3. MovesExplainWrites'
  <2> SUFFICES ASSUME NEW s \in Requests, NEW w \in RowIds \ (drift' \cup stale'[s])
               PROVE  Value(s, w)' = qty'[w] + moves'[s][w]
    BY DEF MovesExplainWrites
  <2>1. CASE s = r
    <3>1. mine'[r] = {} /\ moves'[r][w] = 0
      BY DEF Commit, TypeOK, Nothing
    <3>2. qty'[w] \in Int
      BY <1>2, ValueType
    <3> QED
      BY <2>1, <3>1, <3>2 DEF Value
  <2>2. CASE s # r
    <3>1. /\ mine'[s] = mine[s] /\ priv'[s] = priv[s]
          /\ moves'[s] = moves[s] /\ stale'[s] = stale[s]
      BY <2>2 DEF Commit, TypeOK
    <3>2. Value(s, w) = qty[w] + moves[s][w] /\ moves[s][w] \in Int
      BY <1>2, <3>1 DEF Explained, MovesExplainWrites, TypeOK
    <3>3. CASE w \in mine[r]
      <4>1. w \notin mine[s]
        BY <2>2, <3>3 DEF Explained, LocksExclusive
      <4>2. moves[s][w] = 0
        BY <1>2, <3>2, <4>1 DEF Value
      <4>3. qty'[w] \in Int
        BY <1>2, ValueType
      <4> QED
        BY <3>1, <4>1, <4>2, <4>3 DEF Value
    <3>4. CASE w \notin mine[r]
      <4>1. qty'[w] = qty[w]
        BY <1>2, <3>4 DEF Value
      <4> QED
        BY <3>1, <3>2, <4>1 DEF Value
    <3> QED
      BY <3>3, <3>4
  <2> QED
    BY <2>1, <2>2
<1>4. LedgerExplainsStock'
  <2> SUFFICES ASSUME NEW w \in RowIds \ drift'
               PROVE  qty'[w] = InitialQty[w] + ledger'[w]
    BY DEF LedgerExplainsStock
  <2>1. Value(r, w) = qty[w] + moves[r][w]
    BY <1>2 DEF Explained, MovesExplainWrites
  <2>2. qty[w] = InitialQty[w] + ledger[w] /\ InitialQty[w] \in Int
    BY <1>2, RowAssumption DEF Explained, LedgerExplainsStock
  <2> QED
    BY <1>2, <2>1, <2>2
<1> QED
  BY <1>1, <1>3, <1>4 DEF Explained

\* LedgerExplainsStock holds in every reachable state: a row whose quantity
\* disagrees with its movements is one some committed request saved stale.
THEOREM InventoryLedgerExplainsStock == Spec => []LedgerExplainsStock
<1>1. Init => Explained
  <2> SUFFICES ASSUME Init PROVE Explained
    OBVIOUS
  <2>1. LocksExclusive
    BY DEF Init, LocksExclusive
  <2>2. MovesExplainWrites
    BY RowAssumption DEF Init, MovesExplainWrites, Value, Nothing
  <2>3. LedgerExplainsStock
    BY RowAssumption DEF Init, LedgerExplainsStock, Nothing
  <2> QED
    BY <2>1, <2>2, <2>3 DEF Explained
<1>2. TypeOK /\ Explained /\ [Next]_vars => Explained'
  <2> SUFFICES ASSUME TypeOK, Explained, [Next]_vars PROVE Explained'
    OBVIOUS
  <2>1. ASSUME UNCHANGED <<table, txn, drift>> PROVE Explained'
    BY <2>1 DEF Explained, LocksExclusive, MovesExplainWrites, LedgerExplainsStock,
                Value, table, txn
  <2>2. CASE UNCHANGED vars
    BY <2>1, <2>2 DEF vars, hist
  <2> SUFFICES ASSUME NEW r \in Requests, Begin(r) \/ Step(r) \/ Fail(r)
               PROVE  Explained'
    BY <2>2 DEF Next
  <2>3. CASE Rollback(r)
    BY <2>3, RollbackExplained
  <2>4. ASSUME NEW es, NEW l, Hold(r, es, l) PROVE Explained'
    BY <2>1, <2>4 DEF Hold, hist
  <2>5. CASE Begin(r) \/ Reply(r)
    BY <2>1, <2>5 DEF Begin, Reply, hist
  <2>6. CASE ReadForAdjust(r) \/ ReadSource(r) \/ ReadDestination(r) \/ Listen(r)
    BY <2>3, <2>4, <2>6 DEF ReadForAdjust, ReadSource, ReadDestination, Listen
  <2>7. CASE ReadForDeduction(r)
    BY <2>1, <2>4, <2>7 DEF ReadForDeduction
  <2>8. CASE Save(r)
    BY <2>8, SaveExplained
  <2>9. CASE Commit(r)
    BY <2>9, CommitExplained
  <2> QED
    BY <2>3, <2>5, <2>6, <2>7, <2>8, <2>9 DEF Step, AbortDeadlock, Fail
<1> QED
  BY <1>1, <1>2, InventoryTypeCorrect, PTL DEF Spec, Explained

-----------------------------------------------------------------------------
(* The unique index: a committed twin refuses an insert, an uncommitted one *)
(* of another transaction holds it up, and one's own is found by the lookup *)
(* before a new row is made.                                               *)

\* A transaction with the writes m and the entities es, over the rows rs: it sees no two
\* twins; a row it is to insert is the twin of none of its own; any other exists.
Indexed(rs, m, es) ==
  /\ \A v, w \in rs \cup m : Twin(v, w) => v = w
  /\ \A k \in DOMAIN es : IF es[k].fresh THEN \A w \in m : ~Twin(es[k].row, w)
                                         ELSE es[k].row \in rs \cup m
  /\ \A j, k \in DOMAIN es : es[k].fresh /\ j # k => ~Twin(es[k].row, es[j].row)

\* Twins are not written by different transactions at the same time.
TwinsApart ==
  \A r, s \in Requests : r # s => \A v \in mine[r], w \in mine[s] : ~Twin(v, w)

IndexHeld ==
  /\ OneRowPerVehicleVariant
  /\ \A r \in Requests :
       /\ Indexed(rows, mine[r], ents[r])
       /\ pc[r] = "readTo" => \A k \in DOMAIN ents[r] : ~ents[r][k].fresh
  /\ TwinsApart

\* A lookup for a vehicle and a variant that finds nothing says that there is no row of
\* them, own writes included; one that finds a row finds it at the place.
LEMMA LookupMeetsIndex ==
  ASSUME TypeOK, NEW r \in Requests, NEW i \in Items, NEW at, NEW e \in GetStockLevel(r, i, at)
  PROVE  /\ RowCell[e.row].at = at
         /\ IF e.fresh
            THEN /\ e.row \in RowIds \ rows /\ e.read = 0
                 /\ \A s \in Requests : e.row \notin mine[s]
                 /\ \A w \in rows \cup mine[r] : ~Twin(e.row, w)
            ELSE e.row \in rows \cup mine[r] /\ e.read = Value(r, e.row)
<1>1. CASE Hits(r, i, at) # {}
  <2>1. PICK w \in Hits(r, i, at) :
                e = [row |-> w, read |-> Value(r, w), fresh |-> FALSE]
    BY <1>1 DEF GetStockLevel
  <2> QED
    BY <2>1 DEF Hits
<1>2. CASE Hits(r, i, at) = {}
  <2>1. PICK w \in Unused(r, i, at) : e = [row |-> w, read |-> 0, fresh |-> TRUE]
    BY <1>2 DEF GetStockLevel
  <2>2. RowCell[w] = [item |-> i, at |-> at] /\ w \in RowIds \ rows
        /\ \A s \in Requests : w \notin mine[s]
    BY <2>1 DEF Unused
  <2>3. ASSUME NEW v \in rows \cup mine[r], Twin(w, v) PROVE FALSE
    <3>1. RowCell[v] = [item |-> i, at |-> at] /\ Found(i) = {i}
      BY <2>2, <2>3 DEF Twin, UniqueCell, Found
    <3>2. v \in Hits(r, i, at)
      BY <3>1 DEF Hits
    <3> QED
      BY <1>2, <3>2
  <2> QED
    BY <2>1, <2>2, <2>3
<1> QED
  BY <1>1, <1>2

\* The entities left after the first is saved, one by one.
LEMMA RestOfEntities ==
  ASSUME TypeOK, NEW r \in Requests, pc[r] = "save"
  PROVE  /\ 1 \in DOMAIN ents[r] /\ Head(ents[r]) = ents[r][1]
         /\ DOMAIN ents[r] \subseteq Nat
         /\ \A k \in DOMAIN Tail(ents[r]) :
              /\ k \in Nat \ {0} /\ k + 1 \in DOMAIN ents[r]
              /\ Tail(ents[r])[k] = ents[r][k + 1]
<1>1. ents[r] \in Seq(Entity) /\ ents[r] # <<>> /\ Tail(ents[r]) \in Seq(Entity)
  BY HeadType
<1>2. /\ Len(ents[r]) \in Nat \ {0}
      /\ Len(Tail(ents[r])) = Len(ents[r]) - 1
      /\ DOMAIN ents[r] = 1 .. Len(ents[r])
      /\ DOMAIN Tail(ents[r]) = 1 .. Len(Tail(ents[r]))
      /\ \A k \in 1 .. Len(Tail(ents[r])) : Tail(ents[r])[k] = ents[r][k + 1]
  BY <1>1, HeadTailProperties, EmptySeq, LenProperties
<1>3. Head(ents[r]) = ents[r][1]
  BY <1>1
<1> QED
  BY <1>2, <1>3

\* A rollback takes the writes back, and the entities with them.
LEMMA RollbackIndexed ==
  ASSUME TypeOK, IndexHeld, NEW r \in Requests, Rollback(r)
  PROVE  IndexHeld'
<1>1. /\ rows' = rows
      /\ mine'[r] = {} /\ ents'[r] = <<>> /\ pc'[r] = "failed"
      /\ \A s \in Requests \ {r} :
           mine'[s] = mine[s] /\ ents'[s] = ents[s] /\ pc'[s] = pc[s]
  BY DEF Rollback, Goto, table, TypeOK
<1>2. Indexed(rows, {}, <<>>)
  BY DEF IndexHeld, Indexed
<1>3. TwinsApart'
  BY <1>1 DEF IndexHeld, TwinsApart
<1> QED
  BY <1>1, <1>2, <1>3 DEF IndexHeld, OneRowPerVehicleVariant

\* Entities may be held that meet the index.
LEMMA HoldIndexed ==
  ASSUME TypeOK, IndexHeld, NEW r \in Requests, NEW es, NEW l, Hold(r, es, l),
         Indexed(rows, mine[r], es), l = "readTo" => \A k \in DOMAIN es : ~es[k].fresh
  PROVE  IndexHeld'
<1>1. /\ rows' = rows /\ mine' = mine
      /\ ents'[r] = es /\ pc'[r] = l
      /\ \A s \in Requests \ {r} : ents'[s] = ents[s] /\ pc'[s] = pc[s]
  BY DEF Hold, Goto, table, txn, TypeOK
<1> QED
  BY <1>1 DEF IndexHeld, TwinsApart, OneRowPerVehicleVariant

\* One entity from a lookup.
LEMMA LookupIndexed ==
  ASSUME TypeOK, IndexHeld, NEW r \in Requests, NEW i \in Items, NEW at,
         NEW e \in GetStockLevel(r, i, at), NEW d \in Int
  PROVE  Indexed(rows, mine[r], <<Changed(e, d)>>)
<1> DEFINE es == <<Changed(e, d)>>
<1>1. DOMAIN es = {1} /\ es[1].row = e.row /\ es[1].fresh = e.fresh
  BY DEF Changed
<1>2. \A v, w \in rows \cup mine[r] : Twin(v, w) => v = w
  BY DEF IndexHeld, Indexed
<1> HIDE DEF es
<1>3. Indexed(rows, mine[r], es)
  BY <1>1, <1>2, LookupMeetsIndex DEF Indexed
<1> QED
  BY <1>3 DEF es

\* A second one: when it is new, no row of the place is held, for the lookup would
\* have found it.
LEMMA SecondIndexed ==
  ASSUME TypeOK, IndexHeld, NEW r \in Requests, pc[r] = "readTo", NEW i \in Items, NEW at,
         NEW e \in GetStockLevel(r, i, at), NEW d \in Int
  PROVE  Indexed(rows, mine[r], Append(ents[r], Changed(e, d)))
<1> DEFINE c  == Changed(e, d)
           es == Append(ents[r], c)
<1>1. c.row = e.row /\ c.fresh = e.fresh
  BY DEF Changed
<1>2. ents[r] \in Seq(Entity) /\ c \in Entity
  BY StockLevelType, ChangedType DEF TypeOK
<1>3. \A k \in DOMAIN es : (k \in DOMAIN ents[r] /\ es[k] = ents[r][k]) \/ es[k] = c
  BY <1>2, AppendProperties, LenProperties
<1>4. \A j, k \in DOMAIN es : j # k => j \in DOMAIN ents[r] \/ k \in DOMAIN ents[r]
  BY <1>2, AppendProperties, LenProperties
<1>5. \A k \in DOMAIN ents[r] : ents[r][k].row \in rows \cup mine[r] /\ ~ents[r][k].fresh
  BY DEF IndexHeld, Indexed
<1>6. \A v, w \in rows \cup mine[r] : Twin(v, w) => v = w
  BY DEF IndexHeld, Indexed
<1>7. /\ e.fresh => \A w \in rows \cup mine[r] : ~Twin(e.row, w)
      /\ ~e.fresh => e.row \in rows \cup mine[r]
  BY LookupMeetsIndex
<1>8. \A j, k \in DOMAIN es : es[k].fresh /\ j # k => es[k] = c /\ es[j].row \in rows \cup mine[r]
  <2> SUFFICES ASSUME NEW j \in DOMAIN es, NEW k \in DOMAIN es, es[k].fresh, j # k
               PROVE  es[k] = c /\ es[j].row \in rows \cup mine[r]
    OBVIOUS
  <2>1. es[k] = c
    BY <1>3, <1>5
  <2>2. CASE j \in DOMAIN ents[r]
    <3>1. es[j] = ents[r][j]
      BY <1>2, <2>2, AppendProperties, LenProperties
    <3> QED
      BY <1>5, <2>1, <2>2, <3>1
  <2>3. CASE k \in DOMAIN ents[r]
    <3>1. es[k] = ents[r][k]
      BY <1>2, <2>3, AppendProperties, LenProperties
    <3> QED
      BY <1>5, <2>3, <3>1
  <2> QED
    BY <1>4, <2>2, <2>3
<1> HIDE DEF es, c
<1>9. Indexed(rows, mine[r], es)
  BY <1>1, <1>3, <1>5, <1>6, <1>7, <1>8 DEF Indexed
<1> QED
  BY <1>9 DEF es, c

\* An insert waits for other transactions' twins and is refused by committed ones; an
\* update takes no row that another transaction has.
LEMMA SaveIndexed ==
  ASSUME TypeOK, IndexHeld, NEW r \in Requests, Save(r)
  PROVE  IndexHeld'
<1>1. CASE Rollback(r)
  BY <1>1, RollbackIndexed
<1>2. CASE ~Rollback(r)
  <2> DEFINE e == Head(ents[r])
             m == mine'[r]
  <2>1. /\ ~Refused(e) /\ Write(r, e)
        /\ ents' = [ents EXCEPT ![r] = Tail(@)]
        /\ Goto(r, AfterSave(r)) /\ rows' = rows
    BY <1>2 DEF Save, table
  <2>2. /\ pc[r] = "save" /\ e \in Entity /\ e = ents[r][1] /\ 1 \in DOMAIN ents[r]
    BY HeadType, RestOfEntities DEF Save
  <2>3. /\ m = IF Writes(r, e) THEN mine[r] \cup {e.row} ELSE mine[r]
        /\ \A s \in Requests \ {r} :
             mine'[s] = mine[s] /\ ents'[s] = ents[s] /\ pc'[s] = pc[s]
        /\ ents'[r] = Tail(ents[r]) /\ pc'[r] = AfterSave(r)
    BY <2>1 DEF Write, Goto, TypeOK
  <2>4. e.fresh => Writes(r, e) /\ \A w \in rows : ~Twin(e.row, w)
    BY <2>1 DEF Refused, Writes
  <2>5. \A s \in Requests \ {r} : Writes(r, e) => e.row \notin mine[s]
    BY <2>2 DEF Save, Blockers
  <2>6. \A s \in Requests \ {r} : e.fresh => \A w \in mine[s] : ~Twin(e.row, w)
    <3>1. \A s \in Requests \ {r} : e.fresh => \A w \in mine[s] \ rows : ~Twin(e.row, w)
      BY <2>2, <2>4 DEF Save, Blockers
    <3> QED
      BY <2>4, <3>1
  <2>7. /\ \A v, w \in rows \cup mine[r] : Twin(v, w) => v = w
        /\ e.fresh => \A w \in mine[r] : ~Twin(e.row, w)
        /\ ~e.fresh => e.row \in rows \cup mine[r]
    BY <2>2 DEF IndexHeld, Indexed
  <2>8. \A v, w : Twin(v, w) <=> Twin(w, v)
    BY DEF Twin
  <2>9. \A v, w \in rows \cup m : Twin(v, w) => v = w
    BY <2>3, <2>4, <2>7, <2>8
  <2>10. Indexed(rows, m, Tail(ents[r]))
    <3>1. \A k \in DOMAIN Tail(ents[r]) :
            IF Tail(ents[r])[k].fresh THEN \A w \in m : ~Twin(Tail(ents[r])[k].row, w)
                                      ELSE Tail(ents[r])[k].row \in rows \cup m
      <4> SUFFICES ASSUME NEW k \in DOMAIN Tail(ents[r]), NEW f, f = Tail(ents[r])[k]
                   PROVE  IF f.fresh THEN \A w \in m : ~Twin(f.row, w)
                                     ELSE f.row \in rows \cup m
        OBVIOUS
      <4>1. k + 1 \in DOMAIN ents[r] /\ f = ents[r][k + 1] /\ k + 1 # 1
        BY <2>2, RestOfEntities
      <4>2. /\ IF f.fresh THEN \A w \in mine[r] : ~Twin(f.row, w)
                          ELSE f.row \in rows \cup mine[r]
            /\ f.fresh => ~Twin(f.row, e.row)
        BY <2>2, <4>1 DEF IndexHeld, Indexed
      <4> QED
        BY <2>3, <4>2
    <3>2. \A j, k \in DOMAIN Tail(ents[r]) :
            Tail(ents[r])[k].fresh /\ j # k => ~Twin(Tail(ents[r])[k].row, Tail(ents[r])[j].row)
      <4> SUFFICES ASSUME NEW j \in DOMAIN Tail(ents[r]), NEW k \in DOMAIN Tail(ents[r]), j # k,
                          Tail(ents[r])[k].fresh
                   PROVE  ~Twin(Tail(ents[r])[k].row, Tail(ents[r])[j].row)
        OBVIOUS
      <4>1. /\ k + 1 \in DOMAIN ents[r] /\ Tail(ents[r])[k] = ents[r][k + 1]
            /\ j + 1 \in DOMAIN ents[r] /\ Tail(ents[r])[j] = ents[r][j + 1]
            /\ j + 1 # k + 1
        BY <2>2, RestOfEntities
      <4> QED
        BY <4>1 DEF IndexHeld, Indexed
    <3> QED
      BY <2>9, <3>1, <3>2 DEF Indexed
  <2>11. ASSUME NEW s \in Requests, s # r PROVE \A v \in m, w \in mine[s] : ~Twin(v, w)
    <3> SUFFICES ASSUME NEW w \in mine[s], Writes(r, e), Twin(e.row, w) PROVE FALSE
      BY <2>3, <2>11 DEF IndexHeld, TwinsApart
    <3>1. ~e.fresh
      BY <2>6, <2>11
    <3>2. CASE e.row \in mine[r]
      BY <2>11, <3>2 DEF IndexHeld, TwinsApart
    <3>3. CASE e.row \in rows
      <4>1. e.row = w
        BY <2>11, <3>3 DEF IndexHeld, Indexed
      <4> QED
        BY <2>5, <2>11, <4>1
    <3> QED
      BY <2>7, <3>1, <3>2, <3>3
  <2>12. TwinsApart'
    BY <2>3, <2>8, <2>11 DEF IndexHeld, TwinsApart
  <2>13. AfterSave(r) # "readTo"
    BY DEF AfterSave
  <2> QED
    BY <2>1, <2>3, <2>10, <2>12, <2>13 DEF IndexHeld, OneRowPerVehicleVariant
<1> QED
  BY <1>1, <1>2

\* A commit publishes rows that are nobody's twins.
LEMMA CommitIndexed ==
  ASSUME TypeOK, IndexHeld, NEW r \in Requests, Commit(r)
  PROVE  IndexHeld'
<1>1. /\ rows' = rows \cup mine[r] /\ ents' = ents
      /\ mine'[r] = {} /\ pc'[r] # "readTo"
      /\ \A s \in Requests \ {r} : mine'[s] = mine[s] /\ pc'[s] = pc[s]
  BY DEF Commit, Goto, TypeOK
<1>2. ents[r] = <<>>
  BY DEF Commit, TypeOK
<1>3. Indexed(rows', {}, <<>>)
  BY <1>1 DEF IndexHeld, Indexed
<1>4. ASSUME NEW s \in Requests, s # r PROVE Indexed(rows', mine[s], ents[s])
  <2>1. \A v, w : Twin(v, w) <=> Twin(w, v)
    BY DEF Twin
  <2>2. Indexed(rows, mine[s], ents[s])
    BY DEF IndexHeld
  <2>3. \A v, w \in rows \cup mine[r] : Twin(v, w) => v = w
    BY DEF IndexHeld, Indexed
  <2>4. \A v \in mine[r], w \in mine[s] : ~Twin(v, w)
    BY <1>4 DEF IndexHeld, TwinsApart
  <2> QED
    BY <1>1, <2>1, <2>2, <2>3, <2>4 DEF Indexed
<1>5. TwinsApart'
  BY <1>1 DEF IndexHeld, TwinsApart
<1>6. OneRowPerVehicleVariant'
  BY <1>1, <1>3 DEF Indexed, OneRowPerVehicleVariant
<1> QED
  BY <1>1, <1>2, <1>3, <1>4, <1>5, <1>6 DEF IndexHeld

\* The unique index on stock_level, with columns that may be null, leaves one row for each
\* variant and vehicle, whoever inserts and updates at the same time.
THEOREM InventoryOneRowPerVariant == Spec => []OneRowPerVehicleVariant
<1>1. Init => IndexHeld
  BY IndexAssumption DEF Init, IndexHeld, Indexed, TwinsApart, OneRowPerVehicleVariant
<1>2. TypeOK /\ IndexHeld /\ [Next]_vars => IndexHeld'
  <2> SUFFICES ASSUME TypeOK, IndexHeld, [Next]_vars PROVE IndexHeld'
    OBVIOUS
  <2>1. CASE UNCHANGED vars
    BY <2>1 DEF IndexHeld, TwinsApart, OneRowPerVehicleVariant, vars, table, txn
  <2> SUFFICES ASSUME NEW r \in Requests, Begin(r) \/ Step(r) \/ Fail(r)
               PROVE  IndexHeld'
    BY <2>1 DEF Next
  <2>2. CASE Rollback(r)
    BY <2>2, RollbackIndexed
  <2>3. ASSUME UNCHANGED <<table, txn, ents>>, NEW l, l # "readTo", Goto(r, l)
        PROVE  IndexHeld'
    <3>1. rows' = rows /\ mine' = mine /\ ents' = ents
          /\ \A s \in Requests : pc'[s] = "readTo" => pc[s] = "readTo"
      BY <2>3 DEF table, txn, Goto, TypeOK
    <3> QED
      BY <3>1 DEF IndexHeld, TwinsApart, OneRowPerVehicleVariant
  <2>4. CASE Begin(r) \/ Reply(r)
    BY <2>3, <2>4 DEF Begin, Reply
  <2>5. ASSUME pc[r] = "read", NEW at, NEW e \in GetStockLevel(r, Line(r).item, at),
               NEW d \in Int, Hold(r, <<Changed(e, d)>>, "save")
        PROVE  IndexHeld'
    BY <2>5, LineType, LookupIndexed, HoldIndexed
  <2>6. CASE ReadForAdjust(r) \/ ReadForDeduction(r)
    <3>1. pc[r] = "read" /\ Line(r).n \in Int /\ -Line(r).n \in Int
      BY <2>6, LineType DEF ReadForAdjust, ReadForDeduction
    <3> QED
      BY <2>2, <2>3, <2>5, <2>6, <3>1 DEF ReadForAdjust, ReadForDeduction
  <2>7. CASE ReadSource(r)
    <3>1. ASSUME NEW e \in GetStockLevel(r, Line(r).item, body[r].from),
                 ~Lacks(e, Line(r).n), Hold(r, <<Changed(e, -Line(r).n)>>, "readTo")
          PROVE  IndexHeld'
      <4>1. Line(r).item \in Items /\ Line(r).n \in Int /\ -Line(r).n \in Int /\ Line(r).n >= 1
        BY <2>7, LineType, TransferQuantity DEF ReadSource
      <4>2. ~e.fresh
        BY <3>1, <4>1, LookupMeetsIndex DEF Lacks
      <4>3. <<Changed(e, -Line(r).n)>>[1].fresh = e.fresh
            /\ DOMAIN <<Changed(e, -Line(r).n)>> = {1}
        BY DEF Changed
      <4> QED
        BY <3>1, <4>1, <4>2, <4>3, LookupIndexed, HoldIndexed
    <3> QED
      BY <2>2, <2>7, <3>1 DEF ReadSource
  <2>8. CASE ReadDestination(r)
    <3>1. Line(r).item \in Items /\ Line(r).n \in Int /\ pc[r] = "readTo"
      BY <2>8, LineType DEF ReadDestination
    <3>2. ASSUME NEW e \in GetStockLevel(r, Line(r).item, body[r].to),
                 Hold(r, Append(ents[r], Changed(e, Line(r).n)), "save")
          PROVE  IndexHeld'
      BY <3>1, <3>2, SecondIndexed, HoldIndexed
    <3> QED
      BY <2>2, <2>8, <3>2 DEF ReadDestination
  <2>9. CASE Listen(r)
    <3>1. Indexed(rows, mine[r], <<>>)
      BY DEF IndexHeld, Indexed
    <3> QED
      BY <2>2, <2>9, <3>1, HoldIndexed DEF Listen
  <2>10. CASE Save(r)
    BY <2>10, SaveIndexed
  <2>11. CASE Commit(r)
    BY <2>11, CommitIndexed
  <2> QED
    BY <2>2, <2>4, <2>6, <2>7, <2>8, <2>9, <2>10, <2>11 DEF Step, AbortDeadlock, Fail
<1>3. IndexHeld => OneRowPerVehicleVariant
  BY DEF IndexHeld
<1> QED
  BY <1>1, <1>2, <1>3, InventoryTypeCorrect, PTL DEF Spec

-----------------------------------------------------------------------------
(* One request at a time saves what it read.                               *)

\* What the only open request holds: entities of different rows, as the transaction sees
\* them.  A transfer from a place to itself may hold one row twice.
Current(r) ==
  /\ stale[r] = {}
  /\ \A k \in DOMAIN ents[r] : ents[r][k].read = Value(r, ents[r][k].row)
  /\ \A j, k \in DOMAIN ents[r] : ents[r][j].row = ents[r][k].row => j = k
  /\ pc[r] = "readTo" => \A k \in DOMAIN ents[r] : RowCell[ents[r][k].row].at = body[r].from

OneAtATime ==
  /\ \A r, s \in Requests : Open(r) /\ Open(s) => r = s
  /\ \A r \in Requests : Open(r) => SelfTransfer(body[r]) \/ Current(r)

Serial ==
  /\ SerialRequestsDoNotDrift
  /\ \A w \in RowIds \ rows : qty[w] = 0
  /\ \A r \in Requests : ~Open(r) => stale[r] = {}
  /\ ~overlap => OneAtATime

\* Requests between their transaction and the answer, or after it, hold nothing.
LEMMA IdleHoldsNothing ==
  ASSUME TypeOK, NEW r \in Requests, ~Open(r)
  PROVE  ents[r] = <<>>
BY DEF Open, TypeOK, Finished

\* A step of the only open request that leaves it open or not, and leaves the tables and
\* the history as they are.
LEMMA AloneSerial ==
  ASSUME TypeOK, Serial, NEW r \in Requests, Open(r),
         UNCHANGED <<table, body, overlap, drift>>,
         \A s \in Requests \ {r} : pc'[s] = pc[s] /\ stale'[s] = stale[s],
         ~Open(r)' => stale'[r] = {},
         ~overlap /\ Open(r)' => SelfTransfer(body[r]) \/ Current(r)'
  PROVE  Serial'
<1>1. SerialRequestsDoNotDrift'
  <2>1. pc[r] # "done"
    BY DEF Open, Finished
  <2> QED
    BY <2>1 DEF Serial, SerialRequestsDoNotDrift
<1>2. \A w \in RowIds \ rows' : qty'[w] = 0
  BY DEF Serial, table
<1>4. \A s \in Requests : ~Open(s)' => stale'[s] = {}
  BY DEF Serial, Open
<1>3. ~overlap' => OneAtATime'
  <2> SUFFICES ASSUME ~overlap PROVE OneAtATime'
    OBVIOUS
  <2>1. \A s \in Requests : Open(s)' => s = r
    BY DEF Serial, OneAtATime, Open
  <2> QED
    BY <2>1 DEF OneAtATime
<1> QED
  BY <1>1, <1>2, <1>3, <1>4 DEF Serial

\* A rolled back request is not open.
LEMMA RollbackSerial ==
  ASSUME TypeOK, Serial, NEW r \in Requests, Open(r), Rollback(r)
  PROVE  Serial'
<1>1. /\ pc'[r] = "failed" /\ stale'[r] = {}
      /\ \A s \in Requests \ {r} : pc'[s] = pc[s] /\ stale'[s] = stale[s]
  BY DEF Rollback, Goto, TypeOK
<1>2. ~Open(r)'
  BY <1>1 DEF Open, Finished
<1>3. UNCHANGED <<table, body, overlap, drift>>
  BY DEF Rollback, hist
<1> QED
  BY <1>1, <1>2, <1>3, AloneSerial

\* Entities may be held that are of different rows and as the transaction sees them.
LEMMA HoldSerial ==
  ASSUME TypeOK, Serial, NEW r \in Requests, Open(r), NEW es, NEW l, Hold(r, es, l),
         l \in {"read", "readTo", "save", "commit"},
         ~overlap /\ ~SelfTransfer(body[r]) =>
           /\ \A k \in DOMAIN es : es[k].read = Value(r, es[k].row)
           /\ \A j, k \in DOMAIN es : es[j].row = es[k].row => j = k
           /\ l = "readTo" => \A k \in DOMAIN es : RowCell[es[k].row].at = body[r].from
  PROVE  Serial'
<1>1. /\ ents'[r] = es /\ pc'[r] = l /\ stale' = stale /\ mine' = mine /\ priv' = priv
      /\ UNCHANGED <<table, body, overlap, drift>>
      /\ \A s \in Requests \ {r} : pc'[s] = pc[s]
  BY DEF Hold, Goto, txn, hist, TypeOK
<1>2. Open(r)'
  BY <1>1 DEF Open, Finished
<1>3. ASSUME ~overlap, ~SelfTransfer(body[r]) PROVE Current(r)'
  <2>1. stale[r] = {}
    BY <1>3 DEF Serial, OneAtATime, Current
  <2>2. \A w : Value(r, w)' = Value(r, w)
    BY <1>1 DEF Value, table
  <2> QED
    BY <1>1, <1>3, <2>1, <2>2 DEF Current
<1> QED
  BY <1>1, <1>2, <1>3, AloneSerial

\* A lookup returns what the transaction sees: a new row has no quantity yet.
LEMMA LookupIsCurrent ==
  ASSUME TypeOK, Serial, NEW r \in Requests, NEW i \in Items, NEW at,
         NEW e \in GetStockLevel(r, i, at)
  PROVE  e.read = Value(r, e.row)
<1>1. CASE e.fresh
  <2>1. e.row \in RowIds \ rows /\ e.row \notin mine[r] /\ e.read = 0
    BY <1>1, LookupMeetsIndex
  <2> QED
    BY <2>1 DEF Serial, Value
<1>2. CASE ~e.fresh
  BY <1>2, LookupMeetsIndex
<1> QED
  BY <1>1, <1>2

LEMMA OneEntitySerial ==
  ASSUME TypeOK, Serial, NEW r \in Requests, pc[r] = "read", NEW at,
         NEW e \in GetStockLevel(r, Line(r).item, at), NEW d \in Int,
         NEW l \in {"readTo", "save"}, Hold(r, <<Changed(e, d)>>, l),
         l = "readTo" => at = body[r].from
  PROVE  Serial'
<1> DEFINE es == <<Changed(e, d)>>
<1>1. DOMAIN es = {1} /\ es[1].row = e.row /\ es[1].read = e.read
  BY DEF Changed
<1>2. Line(r).item \in Items
  BY LineType
<1>3. e.read = Value(r, e.row) /\ RowCell[e.row].at = at
  BY <1>2, LookupIsCurrent, LookupMeetsIndex
<1>4. Open(r) /\ Hold(r, es, l)
  BY DEF Open, Finished
<1> HIDE DEF es
<1> QED
  BY <1>1, <1>3, <1>4, HoldSerial

\* The destination is another place, hence another row, unless the request is a transfer
\* from a place to itself.
LEMMA DestinationSerial ==
  ASSUME TypeOK, Serial, NEW r \in Requests, pc[r] = "readTo",
         NEW e \in GetStockLevel(r, Line(r).item, body[r].to), NEW d \in Int,
         Hold(r, Append(ents[r], Changed(e, d)), "save")
  PROVE  Serial'
<1> DEFINE c  == Changed(e, d)
           es == Append(ents[r], c)
<1>1. Line(r).item \in Items
  BY LineType
<1>2. e.read = Value(r, e.row) /\ RowCell[e.row].at = body[r].to
  BY <1>1, LookupIsCurrent, LookupMeetsIndex
<1>3. c.row = e.row /\ c.read = e.read
  BY DEF Changed
<1>4. Open(r) /\ Hold(r, es, "save")
  BY DEF Open, Finished
<1>5. ents[r] \in Seq(Entity) /\ c \in Entity
  BY <1>1, StockLevelType, ChangedType DEF TypeOK
<1>6. /\ \A k \in DOMAIN es : (k \in DOMAIN ents[r] /\ es[k] = ents[r][k])
                              \/ (k = Len(ents[r]) + 1 /\ es[k] = c)
      /\ Len(ents[r]) + 1 \notin DOMAIN ents[r]
  BY <1>5, AppendProperties, LenProperties
<1>7. ASSUME ~overlap, ~SelfTransfer(body[r])
      PROVE  /\ \A k \in DOMAIN es : es[k].read = Value(r, es[k].row)
             /\ \A j, k \in DOMAIN es : es[j].row = es[k].row => j = k
  <2>1. Current(r)
    BY <1>4, <1>7 DEF Serial, OneAtATime
  <2>2. \A k \in DOMAIN ents[r] : ents[r][k].row # c.row
    <3>1. body[r].from # body[r].to
      BY <1>7 DEF SelfTransfer, TypeOK
    <3> QED
      BY <1>2, <1>3, <2>1, <3>1 DEF Current
  <2> HIDE DEF es, c
  <2>3. \A k \in DOMAIN es : es[k].read = Value(r, es[k].row)
    BY <1>2, <1>3, <1>6, <2>1 DEF Current
  <2>4. \A j, k \in DOMAIN es : es[j].row = es[k].row => j = k
    BY <1>6, <2>1, <2>2 DEF Current
  <2> QED
    BY <2>3, <2>4
<1> HIDE DEF es, c
<1> QED
  BY <1>4, <1>7, HoldSerial

\* The only open request overwrites the value it read, and its other entity's row keeps
\* its value.
LEMMA SaveSerial ==
  ASSUME TypeOK, Serial, NEW r \in Requests, Save(r)
  PROVE  Serial'
<1>1. Open(r) /\ pc[r] = "save"
  BY DEF Save, Open, Finished
<1>2. CASE Rollback(r)
  BY <1>1, <1>2, RollbackSerial
<1>3. CASE ~Rollback(r)
  <2> DEFINE e == Head(ents[r])
  <2>1. /\ Write(r, e)
        /\ ents' = [ents EXCEPT ![r] = Tail(@)]
        /\ Goto(r, AfterSave(r)) /\ UNCHANGED <<table, body, overlap, drift>>
    BY <1>3 DEF Save, hist
  <2>2. /\ e \in Entity /\ e = ents[r][1] /\ 1 \in DOMAIN ents[r]
    BY <1>1, HeadType, RestOfEntities
  <2>3. ents'[r] = Tail(ents[r]) /\ pc'[r] = AfterSave(r)
        /\ \A s \in Requests \ {r} : pc'[s] = pc[s] /\ stale'[s] = stale[s]
    BY <2>1 DEF Goto, Write, TypeOK
  <2>4. pc'[r] # "readTo" /\ Open(r)'
    BY <2>3 DEF AfterSave, Open, Finished
  <2>5. ASSUME ~overlap, ~SelfTransfer(body[r]) PROVE Current(r)'
    <3>1. Current(r)
      BY <1>1, <2>5 DEF Serial, OneAtATime
    <3>2. Value(r, e.row) = e.read /\ stale[r] = {}
      BY <2>2, <3>1 DEF Current
    <3>3. stale'[r] = {}
      BY <2>1, <3>2 DEF Write, TypeOK
    <3>4. \A w \in RowIds : w # e.row => Value(r, w)' = Value(r, w)
      <4>1. \A w \in RowIds : w # e.row =>
               (w \in mine'[r] <=> w \in mine[r]) /\ priv'[r][w] = priv[r][w]
        BY <2>1, <2>2 DEF Write, TypeOK, Entity
      <4> QED
        BY <2>1, <4>1 DEF Value, table
    <3>5. ASSUME NEW k \in DOMAIN Tail(ents[r]), NEW f, f = Tail(ents[r])[k]
          PROVE  f.read = Value(r, f.row)'
      <4>1. k + 1 \in DOMAIN ents[r] /\ f = ents[r][k + 1] /\ k + 1 # 1
        BY <1>1, <3>5, RestOfEntities
      <4>2. f.row # e.row /\ f.read = Value(r, f.row)
        BY <2>2, <3>1, <4>1 DEF Current
      <4>3. f.row \in RowIds
        <5>1. ents[r] \in Seq(Entity)
          BY DEF TypeOK
        <5>2. f \in Entity
          BY <4>1, <5>1, ElementOfSeq, LenProperties
        <5> QED
          BY <5>2 DEF Entity
      <4> QED
        BY <3>4, <4>2, <4>3
    <3>6. ASSUME NEW j \in DOMAIN Tail(ents[r]), NEW k \in DOMAIN Tail(ents[r]),
                 Tail(ents[r])[j].row = Tail(ents[r])[k].row
          PROVE  j = k
      <4>1. /\ k + 1 \in DOMAIN ents[r] /\ Tail(ents[r])[k] = ents[r][k + 1] /\ k \in Nat
            /\ j + 1 \in DOMAIN ents[r] /\ Tail(ents[r])[j] = ents[r][j + 1] /\ j \in Nat
        BY <1>1, RestOfEntities
      <4>2. j + 1 = k + 1
        BY <3>1, <3>6, <4>1 DEF Current
      <4> QED
        BY <4>1, <4>2
    <3> QED
      BY <2>3, <2>4, <3>3, <3>5, <3>6 DEF Current
  <2> QED
    BY <1>1, <2>1, <2>3, <2>4, <2>5, AloneSerial
<1> QED
  BY <1>2, <1>3

\* A commit publishes a stale save only of a transfer from a place to itself, which is
\* done then.
LEMMA CommitSerial ==
  ASSUME TypeOK, Serial, NEW r \in Requests, Commit(r)
  PROVE  Serial'
<1>1. /\ Open(r) /\ pc[r] = "commit" /\ ~Open(r)'
      /\ body' = body /\ overlap' = overlap /\ drift' = drift \cup stale[r]
      /\ rows' = rows \cup mine[r] /\ \A w \in RowIds : qty'[w] = Value(r, w)
      /\ stale'[r] = {}
      /\ \A s \in Requests \ {r} : pc'[s] = pc[s] /\ stale'[s] = stale[s]
      /\ body[r].kind # "order" => pc'[r] = "done"
  BY DEF Commit, Open, Finished, Goto, TypeOK
<1>2. SerialRequestsDoNotDrift'
  <2> SUFFICES ASSUME ~overlap, drift' # {}
               PROVE  \E s \in Requests : pc'[s] = "done" /\ SelfTransfer(body[s])
    BY <1>1 DEF SerialRequestsDoNotDrift
  <2>1. CASE drift # {}
    <3>1. PICK s \in Requests : pc[s] = "done" /\ SelfTransfer(body[s])
      BY <2>1 DEF Serial, SerialRequestsDoNotDrift
    <3> QED
      BY <1>1, <3>1
  <2>2. CASE stale[r] # {}
    <3>1. SelfTransfer(body[r])
      BY <1>1, <2>2 DEF Serial, OneAtATime, Current
    <3> QED
      BY <1>1, <3>1 DEF SelfTransfer
  <2> QED
    BY <1>1, <2>1, <2>2
<1>3. \A w \in RowIds \ rows' : qty'[w] = 0
  BY <1>1 DEF Serial, Value
<1>4. ~overlap => \A s \in Requests : ~Open(s)'
  BY <1>1 DEF Serial, OneAtATime, Open
<1>5. \A s \in Requests : ~Open(s)' => stale'[s] = {}
  BY <1>1 DEF Serial, Open
<1> QED
  BY <1>1, <1>2, <1>3, <1>4, <1>5 DEF Serial, OneAtATime

\* A transaction that begins alone holds nothing; one that begins beside another is an
\* overlap.
LEMMA BeginSerial ==
  ASSUME TypeOK, Serial, NEW r \in Requests, Begin(r)
  PROVE  Serial'
<1>1. /\ pc[r] = "idle" /\ pc'[r] # "readTo" /\ pc'[r] # "idle"
      /\ \A s \in Requests \ {r} : pc'[s] = pc[s]
      /\ overlap' = (overlap \/ \E s \in Requests : Open(s))
      /\ UNCHANGED <<table, body, ents, mine, priv, stale, drift>>
  BY DEF Begin, Goto, txn, TypeOK
<1>2. SerialRequestsDoNotDrift'
  BY <1>1 DEF Serial, SerialRequestsDoNotDrift
<1>3. \A w \in RowIds \ rows' : qty'[w] = 0
  BY <1>1 DEF Serial, table
<1>4. ASSUME ~overlap' PROVE OneAtATime'
  <2>1. \A s \in Requests : ~Open(s)
    BY <1>1, <1>4
  <2>2. \A s \in Requests : Open(s)' => s = r
    BY <1>1, <2>1 DEF Open
  <2>3. ents'[r] = <<>> /\ stale'[r] = {}
    BY <1>1, <2>1, IdleHoldsNothing DEF Serial
  <2>4. Current(r)'
    BY <1>1, <2>3 DEF Current
  <2> QED
    BY <2>2, <2>4 DEF OneAtATime
<1>5. \A s \in Requests : ~Open(s)' => stale'[s] = {}
  <2>1. ~Open(r)
    BY <1>1 DEF Open
  <2> QED
    BY <1>1, <2>1 DEF Serial, Open
<1> QED
  BY <1>2, <1>3, <1>4, <1>5 DEF Serial

\* Requests served one at a time keep stock and movements equal, but for a transfer from
\* a place to itself: for any requests, rows and bodies.
THEOREM InventorySerialDoesNotDrift == Spec => []SerialRequestsDoNotDrift
<1>1. Init => Serial
  <2> SUFFICES ASSUME Init PROVE Serial
    OBVIOUS
  <2>1. \A r \in Requests : ~Open(r) /\ stale[r] = {}
    BY DEF Init, Open
  <2> QED
    BY <2>1, RowAssumption DEF Init, Serial, SerialRequestsDoNotDrift, OneAtATime
<1>2. TypeOK /\ Serial /\ [Next]_vars => Serial'
  <2> SUFFICES ASSUME TypeOK, Serial, [Next]_vars PROVE Serial'
    OBVIOUS
  <2>1. CASE UNCHANGED vars
    BY <2>1 DEF Serial, SerialRequestsDoNotDrift, OneAtATime, Current, Open, Value,
                vars, table, txn, hist
  <2> SUFFICES ASSUME NEW r \in Requests, Begin(r) \/ Step(r) \/ Fail(r)
               PROVE  Serial'
    BY <2>1 DEF Next
  <2>2. ASSUME Open(r), Rollback(r) PROVE Serial'
    BY <2>2, RollbackSerial
  <2>3. CASE Begin(r)
    BY <2>3, BeginSerial
  <2>4. CASE ReadForAdjust(r) \/ ReadSource(r)
    <3>1. pc[r] = "read" /\ Line(r).n \in Int /\ -Line(r).n \in Int /\ Open(r)
      BY <2>4, LineType DEF ReadForAdjust, ReadSource, Open, Finished
    <3> QED
      BY <2>2, <2>4, <3>1, OneEntitySerial DEF ReadForAdjust, ReadSource
  <2>5. CASE ReadDestination(r)
    <3>1. pc[r] = "readTo" /\ Line(r).n \in Int /\ Open(r)
      BY <2>5, LineType DEF ReadDestination, Open, Finished
    <3> QED
      BY <2>2, <2>5, <3>1, DestinationSerial DEF ReadDestination
  <2>6. CASE Listen(r)
    <3>1. Open(r)
      BY <2>6 DEF Listen, Open, Finished
    <3>2. ASSUME NEW l \in {"read", "commit"}, Hold(r, <<>>, l) PROVE Serial'
      BY <3>1, <3>2, HoldSerial
    <3> QED
      BY <2>2, <2>6, <3>1, <3>2 DEF Listen
  <2>7. CASE ReadForDeduction(r)
    <3>1. pc[r] = "read" /\ -Line(r).n \in Int /\ Open(r)
      BY <2>7, LineType DEF ReadForDeduction, Open, Finished
    <3>2. ASSUME Goto(r, "commit"), UNCHANGED <<table, body, line, ents, txn, drift, overlap>>
          PROVE  Serial'
      <4>1. /\ pc'[r] = "commit" /\ ents[r] = <<>> /\ ents' = ents /\ stale' = stale
            /\ \A s \in Requests \ {r} : pc'[s] = pc[s]
        BY <3>1, <3>2 DEF Goto, txn, TypeOK
      <4>2. Open(r)'
        BY <4>1 DEF Open, Finished
      <4>3. ~overlap => SelfTransfer(body[r]) \/ Current(r)'
        BY <3>1, <4>1 DEF Serial, OneAtATime, Current
      <4> QED
        BY <3>1, <3>2, <4>1, <4>2, <4>3, AloneSerial
    <3> QED
      BY <2>7, <3>1, <3>2, OneEntitySerial DEF ReadForDeduction
  <2>8. CASE Save(r)
    BY <2>8, SaveSerial
  <2>9. CASE AbortDeadlock(r)
    <3>1. pc[r] = "save"
      BY <2>9 DEF AbortDeadlock, Deadlocked, Blockers
    <3>2. Open(r)
      BY <3>1 DEF Open, Finished
    <3> QED
      BY <2>2, <2>9, <3>2 DEF AbortDeadlock
  <2>10. CASE Fail(r)
    BY <2>2, <2>10 DEF Fail
  <2>11. CASE Commit(r)
    BY <2>11, CommitSerial
  <2>12. CASE Reply(r)
    <3>1. /\ pc[r] = "committed" /\ pc'[r] \in {"done", "errored"}
          /\ \A s \in Requests \ {r} : pc'[s] = pc[s]
          /\ UNCHANGED <<table, body, ents, stale, mine, priv, drift, overlap>>
      BY <2>12 DEF Reply, Goto, txn, hist, TypeOK
    <3>2. \A s \in Requests : Open(s)' <=> Open(s)
      BY <3>1 DEF Open, Finished
    <3>3. SerialRequestsDoNotDrift'
      BY <3>1 DEF Serial, SerialRequestsDoNotDrift
    <3>4. ~Open(r)
      BY <3>1 DEF Open
    <3>5. ~overlap => \A s \in Requests : Open(s) => (Current(s) => Current(s)')
      BY <3>1, <3>4 DEF Current, Value, table
    <3> QED
      BY <3>1, <3>2, <3>3, <3>5 DEF Serial, OneAtATime, table
  <2> QED
    BY <2>3, <2>4, <2>5, <2>6, <2>7, <2>8, <2>9, <2>10, <2>11, <2>12 DEF Step
<1>3. Serial => SerialRequestsDoNotDrift
  BY DEF Serial
<1> QED
  BY <1>1, <1>2, <1>3, InventoryTypeCorrect, PTL DEF Spec

=============================================================================
