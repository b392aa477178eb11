---------------------------- MODULE MCFulfilment ----------------------------
(***************************************************************************)
(* Instances of Fulfilment for TLC: one order, ids for three deliveries,   *)
(* two drivers.                                                            *)
(***************************************************************************)
EXTENDS Fulfilment

CONSTANT Workload

MCUserOf == [d \in {"ana", "bob"} |-> IF d = "ana" THEN "user_ana" ELSE "user_bob"]

OrderRequest(kind, driver) ==
  [NoRequest EXCEPT !.kind = kind, !.target = "o", !.driver = driver]
DeliveryRequest(kind, d) == [NoRequest EXCEPT !.kind = kind, !.target = d]
Create(o, driver) ==
  [NoRequest EXCEPT !.kind = "create", !.order = o, !.driver = driver]
Track(d, by) == [DeliveryRequest("track", d) EXCEPT !.by = by]
SetStatus(d, s) == [DeliveryRequest("setStatus", d) EXCEPT !.status = s]

\* Every handler.
All ==
  {OrderRequest(k, None) : k \in OrderKinds \ {"assign"}}
    \cup {OrderRequest("assign", "ana"), OrderRequest("assign", "bob")}
    \cup {DeliveryRequest(k, "d1") : k \in {"patch", "start", "complete"}}
    \cup {Track("d1", "user_ana"), SetStatus("d1", "ARRIVED"),
          [DeliveryRequest("patch", "d1") EXCEPT !.driver = "bob", !.order = "o"]}
    \cup {Create("o", "ana"), Create(None, None)}

\* What a busy order sees.
Busy ==
  {OrderRequest("assign", "ana"), OrderRequest("dispatch", None),
   OrderRequest("cancel", None), DeliveryRequest("complete", "d1"),
   DeliveryRequest("start", "d1"), Create(None, None)}

MCRequests == IF Workload = "all" THEN All ELSE Busy

=============================================================================
