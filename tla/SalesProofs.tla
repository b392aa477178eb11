---------------------------- MODULE SalesProofs ----------------------------
(***************************************************************************)
(* Proofs about Sales, for every pool, every set of requests, orders and   *)
(* deliveries, and every bound that meets the module's assumption.         *)
(***************************************************************************)
EXTENDS Sales, FiniteSetTheorems, TLAPS

Early == {"shop", "findCustomer", "saveCustomer", "findDelivery", "connect"}
Labels == {"idle"} \cup Early \cup InTransaction \cup PastCommit

\* The types of the variables, and what a request has on hand where it stands: past the
\* look at the products, its order names none that is missing; a checkout that registers a
\* customer names one; and only a completion updates a delivery.
Typed ==
  /\ committed \in [Targets -> Nat]
  /\ followed \in [Targets -> Nat]
  /\ missed \in [Targets -> Nat]
  /\ pc \in [Clients -> Labels]
  /\ ask \in [Clients -> Asks \cup {NoAsk}]
  /\ IsFiniteSet(kept)
  /\ failures \in Nat /\ restarts \in Nat
Errands ==
  \A c \in Clients :
    /\ Busy(c) => ask[c] \in Asks
    /\ pc[c] \in {"shop", "findCustomer", "saveCustomer"} => ask[c].email \in Emails
    /\ pc[c] = "update" => ask[c].kind = "complete"
    /\ pc[c] \in {"listen", "items", "commit"} => ask[c].target \notin BrokenCarts

IInv == Typed /\ Errands /\ TypeOK /\ CommitsAreAccountedFor

\* Failures and restarts are only ever added to.
Grown ==
  /\ failures' \in Nat /\ failures <= failures'
  /\ restarts' \in Nat /\ restarts <= restarts'

-----------------------------------------------------------------------------

\* What a request is asked has a target, and only a delivery is completed.
LEMMA AskType ==
  ASSUME NEW a \in Asks
  PROVE  /\ a.target \in Targets
         /\ a.kind \in {"order", "checkout", "complete"}
         /\ a.kind = "complete" => a.target \in Deliveries /\ a.target \notin BrokenCarts
         /\ a.kind # "complete" => a.target \in Carts
  BY SalesAssumption DEF Asks, Targets

\* Where a step moves one request only, at most that one joins or leaves those who are
\* answering for a target.
LEMMA OneMoves ==
  ASSUME NEW c \in Clients, NEW x,
         \A d \in Clients \ {c} : pc'[d] = pc[d] /\ ask'[d] = ask[d]
  PROVE  /\ Cardinality(Answering(x)) \in Nat
         /\ c \in Answering(x) /\ c \in Answering(x)' =>
              Cardinality(Answering(x)') = Cardinality(Answering(x))
         /\ c \notin Answering(x) /\ c \notin Answering(x)' =>
              Cardinality(Answering(x)') = Cardinality(Answering(x))
         /\ c \notin Answering(x) /\ c \in Answering(x)' =>
              Cardinality(Answering(x)') = Cardinality(Answering(x)) + 1
         /\ c \in Answering(x) /\ c \notin Answering(x)' =>
              Cardinality(Answering(x)') = Cardinality(Answering(x)) - 1
<1>1. IsFiniteSet(Answering(x))
  BY FS_Subset, SalesAssumption DEF Answering
<1>2. Cardinality(Answering(x)) \in Nat
  BY <1>1, FS_CardinalityType
<1>3. ASSUME c \in Answering(x) <=> c \in Answering(x)'
      PROVE  Answering(x)' = Answering(x)
  BY <1>3 DEF Answering
<1>4. ASSUME c \notin Answering(x), c \in Answering(x)'
      PROVE  Answering(x)' = Answering(x) \cup {c}
  BY <1>4 DEF Answering
<1>5. ASSUME c \in Answering(x), c \notin Answering(x)'
      PROVE  Answering(x)' = Answering(x) \ {c}
  BY <1>5 DEF Answering
<1>6. c \notin Answering(x) /\ c \in Answering(x)' =>
        Cardinality(Answering(x)') = Cardinality(Answering(x)) + 1
  BY <1>1, <1>4, FS_AddElement
<1>7. c \in Answering(x) /\ c \notin Answering(x)' =>
        Cardinality(Answering(x)') = Cardinality(Answering(x)) - 1
  BY <1>1, <1>5, FS_RemoveElement
<1> QED
  BY <1>2, <1>3, <1>6, <1>7

\* The connections in use are counted by a number, one more with one more holder.
LEMMA HeldType ==
  ASSUME TypeOK
  PROVE  /\ IsFiniteSet(held) /\ Cardinality(held) \in Nat
         /\ \A c \in Clients :
              /\ Cardinality(held \cup {c}) <= Cardinality(held) + 1
              /\ Cardinality(held \cup {c}) \in Nat
              /\ Cardinality(held \ {c}) <= Cardinality(held)
              /\ Cardinality(held \ {c}) \in Nat
<1>1. IsFiniteSet(held)
  BY FS_Subset, SalesAssumption DEF TypeOK
<1>2. Cardinality(held) \in Nat
  BY <1>1, FS_CardinalityType
<1>3. ASSUME NEW c \in Clients
      PROVE  /\ Cardinality(held \cup {c}) <= Cardinality(held) + 1
             /\ Cardinality(held \cup {c}) \in Nat
             /\ Cardinality(held \ {c}) <= Cardinality(held)
             /\ Cardinality(held \ {c}) \in Nat
  <2>1. /\ IsFiniteSet(held \cup {c})
        /\ Cardinality(held \cup {c}) = IF c \in held THEN Cardinality(held)
                                                     ELSE Cardinality(held) + 1
    BY <1>1, FS_AddElement
  <2>2. /\ IsFiniteSet(held \ {c})
        /\ Cardinality(held \ {c}) = IF c \in held THEN Cardinality(held) - 1
                                                  ELSE Cardinality(held)
    BY <1>1, FS_RemoveElement
  <2>3. Cardinality(held \cup {c}) \in Nat /\ Cardinality(held \ {c}) \in Nat
    BY <2>1, <2>2, FS_CardinalityType
  <2> QED
    BY <1>2, <2>1, <2>2, <2>3
<1> QED
  BY <1>1, <1>2, <1>3

\* One connection more at most is kept for good.
LEMMA OneMoreKept ==
  ASSUME IsFiniteSet(kept), NEW n
  PROVE  /\ IsFiniteSet(kept \cup {n}) /\ Cardinality(kept) \in Nat
         /\ Cardinality(kept \cup {n}) \in Nat
         /\ Cardinality(kept \cup {n}) <= Cardinality(kept) + 1
<1>1. Cardinality(kept) \in Nat
  BY FS_CardinalityType
<1>2. /\ IsFiniteSet(kept \cup {n})
      /\ Cardinality(kept \cup {n}) = IF n \in kept THEN Cardinality(kept)
                                                  ELSE Cardinality(kept) + 1
  BY FS_AddElement
<1> QED
  BY <1>1, <1>2

LEMMA SumsGrow ==
  ASSUME NEW a \in Nat, NEW b \in Nat, NEW p \in Nat, NEW q \in Nat,
         a <= p, b <= q, a + b > 0
  PROVE  p + q > 0
OBVIOUS

\* What was missed because of a failure or a restart still was.
LEMMA CausesStay ==
  ASSUME IInv, Grown, NEW x \in Targets, NEW m, m = missed[x] \/ failures' + restarts' > 0
  PROVE  m > 0 => failures' + restarts' > 0
<1>1. missed[x] > 0 => failures + restarts > 0
  BY DEF IInv, CommitsAreAccountedFor
<1>2. failures \in Nat /\ restarts \in Nat
  BY DEF IInv, Typed
<1>3. failures' \in Nat /\ restarts' \in Nat /\ failures <= failures' /\ restarts <= restarts'
  BY DEF Grown
<1>4. failures + restarts > 0 => failures' + restarts' > 0
  BY <1>2, <1>3, SumsGrow
<1>5. CASE m = missed[x]
  BY <1>1, <1>4, <1>5, Zenon
<1>6. CASE failures' + restarts' > 0
  BY <1>6
<1> QED
  BY <1>5, <1>6

-----------------------------------------------------------------------------

LEMMA InitInv == Init => IInv
<1> SUFFICES ASSUME Init PROVE IInv
  OBVIOUS
<1>1. Typed
  BY FS_EmptySet DEF Init, Typed, Labels
<1>2. Errands
  BY DEF Init, Errands, Busy
<1>3. \A x : Answering(x) = {}
  BY DEF Init, Answering, PastCommit
<1>4. held = {c \in Clients : pc[c] \in InTransaction \cup PastCommit}
  BY DEF Init, InTransaction, PastCommit
<1>5. InUse <= PoolSize
  BY FS_EmptySet, SalesAssumption DEF Init, InUse
<1>6. TypeOK
  BY <1>4, <1>5, SalesAssumption DEF Init, TypeOK, Targets
<1>7. CommitsAreAccountedFor
  BY <1>3, FS_EmptySet DEF Init, CommitsAreAccountedFor
<1> QED
  BY <1>1, <1>2, <1>6, <1>7 DEF IInv

-----------------------------------------------------------------------------
(* The shapes of a step                                                    *)

\* A request that goes on, keeping its connection or having none still, and staying on its
\* side of the commit.
LEMMA GoesOn ==
  ASSUME IInv, NEW c \in Clients, NEW l \in Labels, Busy(c), Goto(c, l), l # "idle",
         l \in {"shop", "findCustomer", "saveCustomer"} => ask[c].email \in Emails,
         l = "update" => ask[c].kind = "complete",
         l \in {"listen", "items", "commit"} => ask[c].target \notin BrokenCarts,
         l \in InTransaction <=> pc[c] \in InTransaction,
         l \in PastCommit <=> pc[c] \in PastCommit,
         customers' \subseteq Emails, UNCHANGED books, Grown
  PROVE  IInv'
<1>1. /\ pc' = [pc EXCEPT ![c] = l] /\ pc'[c] = l
      /\ \A d \in Clients \ {c} : pc'[d] = pc[d]
      /\ UNCHANGED <<ask, held, kept, committed, followed, missed>>
  BY DEF Goto, books, IInv, Typed
<1>2. Typed'
  BY <1>1 DEF IInv, Typed, Grown
<1>3. Errands'
  BY <1>1 DEF IInv, Errands, Busy
<1>4. held' = {d \in Clients : pc'[d] \in InTransaction \cup PastCommit}
  BY <1>1 DEF IInv, TypeOK
<1>5. TypeOK'
  BY <1>1, <1>4 DEF IInv, TypeOK, InUse
<1>6. \A x : Answering(x)' = Answering(x)
  BY <1>1 DEF Answering
<1>7. CommitsAreAccountedFor'
  BY <1>1, <1>6, CausesStay DEF IInv, CommitsAreAccountedFor
<1> QED
  BY <1>2, <1>3, <1>5, <1>7 DEF IInv

\* What an answer leaves: the request holds nothing and is asked nothing.
LEMMA Left ==
  ASSUME IInv, NEW c \in Clients, NEW s, Leave(c, s), customers' = customers,
         committed' = committed, followed' \in [Targets -> Nat], missed' \in [Targets -> Nat],
         Grown
  PROVE  /\ Typed' /\ Errands' /\ TypeOK'
         /\ pc'[c] = "idle"
         /\ \A d \in Clients \ {c} : pc'[d] = pc[d] /\ ask'[d] = ask[d]
<1>1. /\ pc' = [pc EXCEPT ![c] = "idle"] /\ pc'[c] = "idle"
      /\ ask' = [ask EXCEPT ![c] = NoAsk]
      /\ \A d \in Clients \ {c} : pc'[d] = pc[d] /\ ask'[d] = ask[d]
      /\ held' = held \ {c} /\ kept' = kept
  BY DEF Leave, IInv, Typed
<1>2. Typed'
  BY <1>1 DEF IInv, Typed, Labels, Grown
<1>3. Errands'
  BY <1>1 DEF IInv, Errands, Busy
<1>4. held' = {d \in Clients : pc'[d] \in InTransaction \cup PastCommit}
  BY <1>1 DEF IInv, TypeOK, InTransaction, PastCommit
<1>5. InUse' <= PoolSize
  <2>1. /\ Cardinality(held) \in Nat /\ Cardinality(held \ {c}) \in Nat
        /\ Cardinality(held \ {c}) <= Cardinality(held)
    BY HeldType DEF IInv
  <2>2. Cardinality(kept) \in Nat /\ Cardinality(held) + Cardinality(kept) <= PoolSize
    BY FS_CardinalityType DEF IInv, Typed, TypeOK, InUse
  <2>3. Cardinality(held') = Cardinality(held \ {c})
    BY <1>1
  <2> QED
    BY <1>1, <2>1, <2>2, <2>3, SalesAssumption DEF InUse
<1>6. TypeOK'
  BY <1>4, <1>5 DEF IInv, TypeOK
<1> QED
  BY <1>1, <1>2, <1>3, <1>6

\* A request answered before its commit leaves the books as they were.
LEMMA LeavesEarly ==
  ASSUME IInv, NEW c \in Clients, NEW s, Leave(c, s), pc[c] \notin PastCommit,
         customers' = customers, UNCHANGED books, Grown
  PROVE  IInv'
<1>1. UNCHANGED <<committed, followed, missed>>
  BY DEF books
<1>2. /\ Typed' /\ Errands' /\ TypeOK' /\ pc'[c] = "idle"
      /\ \A d \in Clients \ {c} : pc'[d] = pc[d] /\ ask'[d] = ask[d]
  BY <1>1, Left DEF IInv, Typed
<1>3. \A x : Answering(x)' = Answering(x)
  BY <1>2 DEF Answering, PastCommit
<1>4. CommitsAreAccountedFor'
  BY <1>1, <1>3, CausesStay DEF IInv, CommitsAreAccountedFor
<1> QED
  BY <1>2, <1>4 DEF IInv

\* A request answered after its commit is counted once, as followed up or as missed.
LEMMA LeavesLate ==
  ASSUME IInv, NEW c \in Clients, NEW s, Leave(c, s), pc[c] \in PastCommit,
         customers' = customers, committed' = committed,
         \/ followed' = Count(followed, ask[c].target) /\ missed' = missed
         \/ /\ missed' = Count(missed, ask[c].target) /\ followed' = followed
            /\ failures' + restarts' > 0,
         Grown
  PROVE  IInv'
<1> DEFINE t == ask[c].target
<1>1. t \in Targets
  BY AskType DEF IInv, Errands, Busy, PastCommit
<1>2. /\ followed \in [Targets -> Nat] /\ missed \in [Targets -> Nat]
      /\ committed \in [Targets -> Nat]
  BY DEF IInv, Typed
<1>3. followed' \in [Targets -> Nat] /\ missed' \in [Targets -> Nat]
  BY <1>1, <1>2 DEF Count
<1>4. /\ Typed' /\ Errands' /\ TypeOK' /\ pc'[c] = "idle"
      /\ \A d \in Clients \ {c} : pc'[d] = pc[d] /\ ask'[d] = ask[d]
  BY <1>3, Left
<1>5. ASSUME NEW x \in Targets
      PROVE  /\ committed'[x] = followed'[x] + missed'[x] + Cardinality(Answering(x)')
             /\ missed'[x] > 0 => failures' + restarts' > 0
  <2>1. committed[x] = followed[x] + missed[x] + Cardinality(Answering(x))
    BY DEF IInv, CommitsAreAccountedFor
  <2>7. missed'[x] > 0 => failures' + restarts' > 0
    BY CausesStay
  <2>2. c \notin Answering(x)'
    BY <1>4 DEF Answering, PastCommit
  <2>3. c \in Answering(x) <=> x = t
    BY DEF Answering
  <2>4. Cardinality(Answering(x)) \in Nat
    BY <1>4, OneMoves
  <2>5. CASE x = t
    <3>1. Cardinality(Answering(x)') = Cardinality(Answering(x)) - 1
      BY <1>4, <2>2, <2>3, <2>5, OneMoves
    <3>2. followed'[x] + missed'[x] = followed[x] + missed[x] + 1
      BY <1>1, <1>2, <2>5 DEF Count
    <3> QED
      BY <1>2, <1>3, <2>1, <2>4, <2>7, <3>1, <3>2
  <2>6. CASE x # t
    <3>1. Cardinality(Answering(x)') = Cardinality(Answering(x))
      BY <1>4, <2>2, <2>3, <2>6, OneMoves
    <3>2. followed'[x] = followed[x] /\ missed'[x] = missed[x]
      BY <1>1, <1>2, <2>6 DEF Count
    <3> QED
      BY <2>1, <2>7, <3>1, <3>2
  <2> QED
    BY <2>5, <2>6, <2>7
<1>6. CommitsAreAccountedFor'
  BY <1>5 DEF CommitsAreAccountedFor
<1> QED
  BY <1>4, <1>6 DEF IInv

\* A request whose transaction does not start leaves the connection behind that was free.
LEMMA LeavesBehind ==
  ASSUME IInv, NEW c \in Clients, LeaveBehind(c), pc[c] = "connect", Free,
         customers' = customers, UNCHANGED books, Grown
  PROVE  IInv'
<1>1. /\ pc' = [pc EXCEPT ![c] = "idle"] /\ pc'[c] = "idle"
      /\ ask' = [ask EXCEPT ![c] = NoAsk]
      /\ \A d \in Clients \ {c} : pc'[d] = pc[d] /\ ask'[d] = ask[d]
      /\ held' = held /\ kept' = kept \cup {failures'}
      /\ UNCHANGED <<committed, followed, missed>>
  BY DEF LeaveBehind, books, IInv, Typed
<1>2. /\ IsFiniteSet(kept') /\ Cardinality(kept') \in Nat
      /\ Cardinality(kept') <= Cardinality(kept) + 1 /\ Cardinality(kept) \in Nat
  BY <1>1, OneMoreKept DEF IInv, Typed
<1>3. Typed'
  BY <1>1, <1>2 DEF IInv, Typed, Labels, Grown
<1>4. Errands'
  BY <1>1 DEF IInv, Errands, Busy
<1>5. held' = {d \in Clients : pc'[d] \in InTransaction \cup PastCommit}
  BY <1>1 DEF IInv, TypeOK, InTransaction, PastCommit
<1>6. InUse' <= PoolSize
  <2>1. Cardinality(held) \in Nat
    BY HeldType DEF IInv
  <2>2. Cardinality(held) + Cardinality(kept) < PoolSize
    BY DEF Free, InUse
  <2>3. Cardinality(held') = Cardinality(held)
    BY <1>1
  <2> QED
    BY <1>2, <2>1, <2>2, <2>3, SalesAssumption DEF InUse
<1>7. TypeOK'
  BY <1>1, <1>5, <1>6 DEF IInv, TypeOK
<1>8. \A x : Answering(x)' = Answering(x)
  BY <1>1 DEF Answering, PastCommit
<1>9. CommitsAreAccountedFor'
  BY <1>1, <1>8, CausesStay DEF IInv, CommitsAreAccountedFor
<1> QED
  BY <1>3, <1>4, <1>7, <1>9 DEF IInv

-----------------------------------------------------------------------------
(* The steps                                                               *)

LEMMA BeginInv == ASSUME IInv, NEW c \in Clients, Begin(c) PROVE IInv'
<1>1. PICK a \in Asks :
        /\ ask' = [ask EXCEPT ![c] = a]
        /\ pc' = [pc EXCEPT ![c] = FirstStep(a)]
  BY DEF Begin
<1>2. /\ pc[c] = "idle"
      /\ UNCHANGED <<customers, committed, followed, missed, held, kept, failures, restarts>>
  BY DEF Begin, Busy, books
<1>3. FirstStep(a) \in Early
  BY AskType, SalesAssumption DEF FirstStep, Early
<1>4. /\ pc'[c] = FirstStep(a) /\ ask'[c] = a
      /\ \A d \in Clients \ {c} : pc'[d] = pc[d] /\ ask'[d] = ask[d]
  BY <1>1 DEF IInv, Typed
<1>5. Typed'
  BY <1>1, <1>2, <1>3 DEF IInv, Typed, Labels
<1>6. Errands'
  <2>1. FirstStep(a) = "shop" => a.email \in Emails
    BY DEF FirstStep, Asks
  <2>2. FirstStep(a) \in Early \ {"findCustomer", "saveCustomer"}
    BY AskType DEF FirstStep, Early
  <2> QED
    BY <1>4, <2>1, <2>2 DEF IInv, Errands, Busy, Early
<1>7. held' = {d \in Clients : pc'[d] \in InTransaction \cup PastCommit}
  BY <1>2, <1>3, <1>4 DEF IInv, TypeOK, Early, InTransaction, PastCommit
<1>8. TypeOK'
  BY <1>2, <1>7 DEF IInv, TypeOK, InUse
<1>9. \A x : Answering(x)' = Answering(x)
  BY <1>2, <1>3, <1>4 DEF Answering, Early, PastCommit
<1>10. CommitsAreAccountedFor'
  BY <1>2, <1>9 DEF IInv, CommitsAreAccountedFor
<1> QED
  BY <1>5, <1>6, <1>8, <1>10 DEF IInv

\* The connection asked for was free.
LEMMA ConnectInv == ASSUME IInv, NEW c \in Clients, Connect(c) PROVE IInv'
<1>1. /\ pc[c] = "connect" /\ held' = held \cup {c}
      /\ UNCHANGED <<customers, committed, followed, missed, ask, kept, failures, restarts>>
  BY DEF Connect, books, bounds
<1>2. PICK l \in {"update", "insert"} :
        /\ pc' = [pc EXCEPT ![c] = l]
        /\ l = "update" => ask[c].kind = "complete"
  BY DEF Connect
<1>3. pc'[c] = l /\ \A d \in Clients \ {c} : pc'[d] = pc[d]
  BY <1>2 DEF IInv, Typed
<1>4. Typed'
  BY <1>1, <1>2 DEF IInv, Typed, Labels, InTransaction
<1>5. Errands'
  BY <1>1, <1>2, <1>3 DEF IInv, Errands, Busy
<1>6. held' = {d \in Clients : pc'[d] \in InTransaction \cup PastCommit}
  BY <1>1, <1>3 DEF IInv, TypeOK, InTransaction
<1>7. InUse' <= PoolSize
  <2>1. Free
    BY <1>1 DEF Connect, Runs, Pooled
  <2>2. /\ Cardinality(held) \in Nat /\ Cardinality(held \cup {c}) \in Nat
        /\ Cardinality(held \cup {c}) <= Cardinality(held) + 1
    BY HeldType DEF IInv
  <2>3. Cardinality(kept) \in Nat /\ Cardinality(held) + Cardinality(kept) < PoolSize
    BY <2>1, FS_CardinalityType DEF Free, InUse, IInv, Typed
  <2>4. Cardinality(held') = Cardinality(held \cup {c})
    BY <1>1
  <2> QED
    BY <1>1, <2>2, <2>3, <2>4, SalesAssumption DEF InUse
<1>8. TypeOK'
  BY <1>1, <1>6, <1>7 DEF IInv, TypeOK
<1>9. \A x : Answering(x)' = Answering(x)
  BY <1>1, <1>3 DEF Answering, PastCommit
<1>10. CommitsAreAccountedFor'
  BY <1>1, <1>9 DEF IInv, CommitsAreAccountedFor
<1> QED
  BY <1>4, <1>5, <1>8, <1>10 DEF IInv

\* A commit counts its order or delivery and makes its request one that is answering.
LEMMA CommitInv == ASSUME IInv, NEW c \in Clients, Commit(c) PROVE IInv'
<1> DEFINE t == ask[c].target
<1>1. /\ pc[c] = "commit" /\ committed' = Count(committed, t)
      /\ UNCHANGED <<customers, followed, missed, ask, held, kept, failures, restarts>>
  BY DEF Commit, Goto, bounds
<1>2. PICK l \in {"log", "read"} : pc' = [pc EXCEPT ![c] = l]
  BY DEF Commit, Goto
<1>3. pc'[c] = l /\ \A d \in Clients \ {c} : pc'[d] = pc[d] /\ ask'[d] = ask[d]
  BY <1>1, <1>2 DEF IInv, Typed
<1>4. t \in Targets /\ t \notin BrokenCarts
  BY <1>1, AskType DEF IInv, Errands, Busy
<1>5. /\ committed \in [Targets -> Nat] /\ followed \in [Targets -> Nat]
      /\ missed \in [Targets -> Nat]
  BY DEF IInv, Typed
<1>6. /\ committed' \in [Targets -> Nat] /\ committed'[t] = committed[t] + 1
      /\ \A x \in Targets \ {t} : committed'[x] = committed[x]
  BY <1>1, <1>4, <1>5 DEF Count
<1>7. Typed'
  BY <1>1, <1>2, <1>6 DEF IInv, Typed, Labels, PastCommit
<1>8. Errands'
  BY <1>1, <1>2, <1>3 DEF IInv, Errands, Busy
<1>9. held' = {d \in Clients : pc'[d] \in InTransaction \cup PastCommit}
  BY <1>1, <1>3 DEF IInv, TypeOK, InTransaction, PastCommit
<1>10. TypeOK'
  <2>1. BrokenCarts \subseteq Targets
    BY SalesAssumption DEF Targets
  <2> QED
    BY <1>1, <1>4, <1>6, <1>9, <2>1 DEF IInv, TypeOK, InUse
<1>11. ASSUME NEW x \in Targets
       PROVE  committed'[x] = followed'[x] + missed'[x] + Cardinality(Answering(x)')
  <2>1. committed[x] = followed[x] + missed[x] + Cardinality(Answering(x))
    BY DEF IInv, CommitsAreAccountedFor
  <2>2. c \notin Answering(x)
    BY <1>1 DEF Answering, PastCommit
  <2>3. c \in Answering(x)' <=> x = t
    BY <1>1, <1>3 DEF Answering, PastCommit
  <2>4. /\ Cardinality(Answering(x)) \in Nat
        /\ x = t => Cardinality(Answering(x)') = Cardinality(Answering(x)) + 1
        /\ x # t => Cardinality(Answering(x)') = Cardinality(Answering(x))
    BY <1>3, <2>2, <2>3, OneMoves
  <2> QED
    BY <1>1, <1>5, <1>6, <2>1, <2>4
<1>12. CommitsAreAccountedFor'
  BY <1>1, <1>11 DEF IInv, CommitsAreAccountedFor
<1> QED
  BY <1>7, <1>8, <1>10, <1>12 DEF IInv

LEMMA StepInv == ASSUME IInv, NEW c \in Clients, Step(c) PROVE IInv'
<1> USE DEF Labels, Early, InTransaction, PastCommit
<1>1. customers \subseteq Emails /\ Grown
  <2>1. UNCHANGED bounds
    BY DEF Step, Shop, FindCustomer, SaveCustomer, Connect, Insert, FindProducts,
           StockListener, SaveItems, Commit, ReadBack, Log, FindDelivery, UpdateDelivery,
           AskModule, Credit
  <2> QED
    BY <2>1 DEF IInv, Typed, TypeOK, Grown, bounds
<1>2. CASE Shop(c)
  <2>1. PICK l \in {"findCustomer", "connect"} : Goto(c, l)
    BY <1>2 DEF Shop
  <2>2. pc[c] = "shop" /\ Busy(c) /\ customers' \subseteq Emails /\ UNCHANGED books
    BY <1>1, <1>2 DEF Shop, Busy
  <2>3. ask[c].email \in Emails
    BY <2>2 DEF IInv, Errands
  <2> QED
    BY <1>1, <2>1, <2>2, <2>3, GoesOn
<1>3. CASE FindCustomer(c)
  <2>1. PICK l \in {"saveCustomer", "connect"} : Goto(c, l)
    BY <1>3 DEF FindCustomer
  <2>2. pc[c] = "findCustomer" /\ Busy(c) /\ customers' \subseteq Emails /\ UNCHANGED books
    BY <1>1, <1>3 DEF FindCustomer, Busy
  <2>3. ask[c].email \in Emails
    BY <2>2 DEF IInv, Errands
  <2> QED
    BY <1>1, <2>1, <2>2, <2>3, GoesOn
<1>4. CASE SaveCustomer(c)
  <2>1. pc[c] = "saveCustomer" /\ Busy(c) /\ Goto(c, "connect") /\ UNCHANGED books
    BY <1>4 DEF SaveCustomer, Busy
  <2>2. ask[c].email \in Emails
    BY <2>1 DEF IInv, Errands
  <2>3. customers' \subseteq Emails
    BY <1>1, <1>4, <2>2 DEF SaveCustomer
  <2> QED
    BY <1>1, <2>1, <2>3, GoesOn
<1>5. CASE Connect(c)
  BY <1>5, ConnectInv
<1>6. CASE Insert(c)
  <2>1. pc[c] = "insert" /\ Busy(c) /\ customers' = customers /\ UNCHANGED books
    BY <1>6 DEF Insert, Busy
  <2>2. CASE Leave(c, "refused")
    BY <1>1, <2>1, <2>2, LeavesEarly
  <2>3. CASE Goto(c, "commit") /\ ask[c].target \in EmptyCarts
    BY <1>1, <2>1, <2>3, GoesOn, SalesAssumption
  <2>4. CASE Goto(c, "products")
    BY <1>1, <2>1, <2>4, GoesOn
  <2> QED
    BY <1>6, <2>2, <2>3, <2>4 DEF Insert
<1>7. CASE FindProducts(c)
  <2>1. pc[c] = "products" /\ Busy(c) /\ customers' = customers /\ UNCHANGED books
    BY <1>7 DEF FindProducts, Busy
  <2>2. CASE Leave(c, "refused")
    BY <1>1, <2>1, <2>2, LeavesEarly
  <2>3. CASE Goto(c, "listen") /\ ask[c].target \notin BrokenCarts
    BY <1>1, <2>1, <2>3, GoesOn
  <2> QED
    BY <1>7, <2>2, <2>3 DEF FindProducts
<1>8. CASE StockListener(c)
  <2>1. /\ pc[c] = "listen" /\ Busy(c) /\ Goto(c, "items")
        /\ customers' \subseteq Emails /\ UNCHANGED books
    BY <1>1, <1>8 DEF StockListener, Busy
  <2>2. ask[c].target \notin BrokenCarts
    BY <2>1 DEF IInv, Errands
  <2> QED
    BY <1>1, <2>1, <2>2, GoesOn
<1>9. CASE SaveItems(c)
  <2>1. /\ pc[c] = "items" /\ Busy(c) /\ Goto(c, "commit")
        /\ customers' \subseteq Emails /\ UNCHANGED books
    BY <1>1, <1>9 DEF SaveItems, Busy
  <2>2. ask[c].target \notin BrokenCarts
    BY <2>1 DEF IInv, Errands
  <2> QED
    BY <1>1, <2>1, <2>2, GoesOn
<1>10. CASE Commit(c)
  BY <1>10, CommitInv
<1>11. CASE ReadBack(c)
  <2>1. /\ pc[c] = "read" /\ Busy(c) /\ Goto(c, "log")
        /\ customers' \subseteq Emails /\ UNCHANGED books
    BY <1>1, <1>11 DEF ReadBack, Busy
  <2> QED
    BY <1>1, <2>1, GoesOn
<1>12. CASE Log(c)
  <2>1. pc[c] = "log" /\ Busy(c) /\ customers' = customers /\ UNCHANGED <<committed, missed>>
    BY <1>12 DEF Log, Busy
  <2>2. CASE Goto(c, "askModule") /\ UNCHANGED followed
    <3>1. customers' \subseteq Emails /\ UNCHANGED books
      BY <1>1, <2>1, <2>2 DEF books
    <3> QED
      BY <1>1, <2>1, <2>2, <3>1, GoesOn
  <2>3. CASE Leave(c, "ok") /\ followed' = Count(followed, ask[c].target)
    BY <1>1, <2>1, <2>3, LeavesLate
  <2> QED
    BY <1>12, <2>2, <2>3 DEF Log
<1>13. CASE FindDelivery(c)
  <2>1. /\ pc[c] = "findDelivery" /\ Busy(c) /\ Goto(c, "connect")
        /\ customers' \subseteq Emails /\ UNCHANGED books
    BY <1>1, <1>13 DEF FindDelivery, Busy
  <2> QED
    BY <1>1, <2>1, GoesOn
<1>14. CASE UpdateDelivery(c)
  <2>1. /\ pc[c] = "update" /\ Busy(c) /\ Goto(c, "commit")
        /\ customers' \subseteq Emails /\ UNCHANGED books
    BY <1>1, <1>14 DEF UpdateDelivery, Busy
  <2>2. ask[c].target \notin BrokenCarts
    BY <2>1, AskType DEF IInv, Errands
  <2> QED
    BY <1>1, <2>1, <2>2, GoesOn
<1>15. CASE AskModule(c)
  <2>1. pc[c] = "askModule" /\ Busy(c) /\ customers' = customers /\ UNCHANGED <<committed, missed>>
    BY <1>15 DEF AskModule, Busy
  <2>2. CASE Goto(c, "credit") /\ UNCHANGED followed
    <3>1. customers' \subseteq Emails /\ UNCHANGED books
      BY <1>1, <2>1, <2>2 DEF books
    <3> QED
      BY <1>1, <2>1, <2>2, <3>1, GoesOn
  <2>3. CASE Leave(c, "ok") /\ followed' = Count(followed, ask[c].target)
    BY <1>1, <2>1, <2>3, LeavesLate
  <2> QED
    BY <1>15, <2>2, <2>3 DEF AskModule
<1>16. CASE Credit(c)
  BY <1>1, <1>16, LeavesLate DEF Credit
<1> QED
  BY <1>2, <1>3, <1>4, <1>5, <1>6, <1>7, <1>8, <1>9, <1>10, <1>11, <1>12, <1>13, <1>14,
     <1>15, <1>16 DEF Step

\* A failure loses the follow-up exactly when it comes after the commit; where the
\* transaction fails to start, it may leave a connection behind.
LEMMA FailInv == ASSUME IInv, NEW c \in Clients, Fail(c) PROVE IInv'
<1>1. /\ Busy(c) /\ customers' = customers /\ UNCHANGED <<committed, followed>>
      /\ customers' \subseteq Emails
  BY DEF Fail, Runs, IInv, TypeOK
<1>2. failures' + restarts' > 0 /\ Grown
  BY DEF Fail, IInv, Typed, Grown
<1>3. CASE pc[c] \in PastCommit
  <2>1. missed' = Count(missed, ask[c].target)
    BY <1>3 DEF Fail
  <2>2. \E s \in {"ok", "error"} : Leave(c, s)
    BY <1>3 DEF Fail, PastCommit
  <2> QED
    BY <1>1, <1>2, <1>3, <2>1, <2>2, LeavesLate
<1>4. CASE pc[c] \notin PastCommit
  <2>1. UNCHANGED books
    BY <1>1, <1>4 DEF Fail, books
  <2>2. CASE pc[c] \in {"findCustomer", "saveCustomer"}
    <3>1. Goto(c, "connect")
      BY <2>2 DEF Fail
    <3> QED
      BY <1>1, <1>2, <2>1, <2>2, <3>1, GoesOn DEF Labels, Early, InTransaction, PastCommit
  <2>3. CASE pc[c] = "listen"
    <3>1. Goto(c, "items")
      BY <2>3 DEF Fail
    <3>2. ask[c].target \notin BrokenCarts
      BY <2>3 DEF IInv, Errands
    <3> QED
      BY <1>1, <1>2, <2>1, <2>3, <3>1, <3>2, GoesOn DEF Labels, InTransaction, PastCommit
  <2>4. CASE \E s \in {"ok", "error"} : Leave(c, s)
    BY <1>1, <1>2, <1>4, <2>1, <2>4, LeavesEarly
  <2>5. CASE pc[c] = "connect" /\ LeaveBehind(c)
    BY <1>1, <1>2, <2>1, <2>5, LeavesBehind DEF Fail, Runs, Pooled
  <2> QED
    BY <2>2, <2>3, <2>4, <2>5 DEF Fail
<1> QED
  BY <1>3, <1>4

\* Those who were answering are missed, all at once, and every connection is given back.
LEMMA RestartInv == ASSUME IInv, Restart PROVE IInv'
<1>1. /\ pc' = [c \in Clients |-> "idle"] /\ ask' = [c \in Clients |-> NoAsk]
      /\ held' = {} /\ kept' = {} /\ UNCHANGED <<customers, committed, followed, failures>>
      /\ restarts' = restarts + 1
      /\ missed' = [x \in Targets |-> missed[x] + Cardinality(Answering(x))]
  BY DEF Restart
<1>2. \A x : Cardinality(Answering(x)) \in Nat
  <2>1. \A x : IsFiniteSet(Answering(x))
    BY FS_Subset, SalesAssumption DEF Answering
  <2> QED
    BY <2>1, FS_CardinalityType
<1>3. missed' \in [Targets -> Nat]
  BY <1>1, <1>2 DEF IInv, Typed
<1>4. Typed'
  BY <1>1, <1>3, FS_EmptySet DEF IInv, Typed, Labels
<1>5. Errands'
  BY <1>1 DEF Errands, Busy
<1>6. InUse' <= PoolSize
  BY <1>1, FS_EmptySet, SalesAssumption DEF InUse
<1>7. held' = {c \in Clients : pc'[c] \in InTransaction \cup PastCommit}
  BY <1>1 DEF InTransaction, PastCommit
<1>8. TypeOK'
  BY <1>1, <1>6, <1>7 DEF IInv, TypeOK
<1>9. \A x : Cardinality(Answering(x)') = 0
  <2>1. \A x : Answering(x)' = {}
    BY <1>1 DEF Answering, PastCommit
  <2> QED
    BY <2>1, FS_EmptySet
<1>10. CommitsAreAccountedFor'
  BY <1>1, <1>2, <1>3, <1>9 DEF IInv, Typed, CommitsAreAccountedFor
<1> QED
  BY <1>4, <1>5, <1>8, <1>10 DEF IInv

\* The customers' requests and the product repository keep to the pool's limit and touch no book.
LEMMA OthersInv ==
  ASSUME IInv, CustomerRequest \/ ListProducts \/ UNCHANGED vars
  PROVE  IInv'
<1>1. UNCHANGED <<committed, followed, missed, pc, ask, held, failures, restarts>>
  BY DEF CustomerRequest, ListProducts, vars, books, bounds
<1>2. customers' \subseteq Emails
  BY DEF CustomerRequest, ListProducts, vars, IInv, TypeOK
<1>3. kept' = kept \/ (kept' = kept \cup {0} /\ Free)
  BY DEF CustomerRequest, ListProducts, vars
<1>4. InUse' <= PoolSize
  <2>1. Cardinality(held) \in Nat /\ Cardinality(held') = Cardinality(held)
    BY <1>1, HeldType DEF IInv
  <2>2. InUse <= PoolSize
    BY DEF IInv, TypeOK
  <2>3. /\ Cardinality(kept) \in Nat /\ Cardinality(kept \cup {0}) \in Nat
        /\ Cardinality(kept \cup {0}) <= Cardinality(kept) + 1
    BY OneMoreKept DEF IInv, Typed
  <2> QED
    BY <1>3, <2>1, <2>2, <2>3, SalesAssumption DEF Free, InUse
<1>5. Typed'
  BY <1>1, <1>3, FS_AddElement DEF IInv, Typed
<1>6. Errands'
  BY <1>1 DEF IInv, Errands, Busy
<1>7. TypeOK'
  BY <1>1, <1>2, <1>4 DEF IInv, TypeOK
<1>8. \A x : Answering(x)' = Answering(x)
  BY <1>1 DEF Answering
<1>9. CommitsAreAccountedFor'
  BY <1>1, <1>8 DEF IInv, CommitsAreAccountedFor
<1> QED
  BY <1>5, <1>6, <1>7, <1>9 DEF IInv

LEMMA NextInv == IInv /\ [Next]_vars => IInv'
BY BeginInv, StepInv, FailInv, RestartInv, OthersInv DEF Next

-----------------------------------------------------------------------------

\* The connections in use are those of the requests between connect and their answer, and
\* the pool is never overdrawn, whatever its size and however many requests are served.
THEOREM PoolIsRespected == Spec => []TypeOK
<1>1. IInv => TypeOK
  BY DEF IInv
<1> QED
  BY <1>1, InitInv, NextInv, PTL DEF Spec

\* Every commit of an order or of a completion was followed up exactly once, will be by the
\* request that made it, or was broken off after it.
THEOREM CommitsAccountedFor == Spec => []CommitsAreAccountedFor
<1>1. IInv => CommitsAreAccountedFor
  BY DEF IInv
<1> QED
  BY <1>1, InitInv, NextInv, PTL DEF Spec
=============================================================================
