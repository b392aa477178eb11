---------------------------- MODULE MCInventory ----------------------------
(***************************************************************************)
(* Instances of Inventory for TLC.  The item "p" is a product that also    *)
(* has a variant "v"; the truck carries stock at first, the van does not.  *)
(* Rows 1 and 2 exist at first, the others are ids for rows inserted       *)
(* later, as many as the requests can insert.                              *)
(***************************************************************************)
EXTENDS Inventory

CONSTANT Workload

Product == [i \in {"p", "v", "gone"} |-> IF i = "v" THEN "p" ELSE i]
Cell(i, at) == [item |-> i, at |-> at]

MCRowIds == 1..9
MCRowCell ==
  <<Cell("p", Default), Cell("v", "truck"),
    Cell("v", Default), Cell("v", Default), Cell("v", Default),
    Cell("v", "van"), Cell("v", "van"), Cell("p", "van"), Cell("p", "van")>>
MCInitialRows == {1, 2}
MCInitialQty == [w \in MCRowIds |-> CASE w = 1 -> 2 [] w = 2 -> 1 [] OTHER -> 0]

Lines(i, n) == <<[item |-> i, n |-> n]>>
Transfer(i, from, to, n) ==
  [kind |-> "transfer", from |-> from, to |-> to, lines |-> Lines(i, n)]
Adjust(i, at, n) ==
  [kind |-> "adjust", from |-> at, to |-> at, lines |-> Lines(i, n)]
Order(at, lines) ==
  [kind |-> "order", from |-> at, to |-> at, lines |-> lines]

\* Every operation, its refusals included; requests that contend for rows 1 and 2 in
\* both orders; a transfer from a place to itself; first rows of a cell.
All ==
  {Transfer("p", Default, "truck", 1), Transfer("p", "truck", Default, 1),
   Transfer("p", Default, Default, 1), Transfer("v", "truck", "van", 1),
   Transfer("v", NoVehicle, Default, 1), Transfer("v", "truck", NoVehicle, 1),
   Adjust("p", Default, 2), Adjust("p", Default, -2), Adjust("p", NoVehicle, 1),
   Adjust("v", Default, 1), Adjust("v", "van", 1), Adjust("p", "van", 1),
   Adjust("v", "van", 0), Order(Default, Lines("p", 2)),
   Order("truck", Lines("v", 1) \o Lines("p", 1)), Order("van", Lines("v", -1)),
   Order(Default, Lines("p", -1)), Order(Default, Lines("gone", 1)),
   Order(Default, <<>>)}

\* Orders for the same row.
Orders == {Order(Default, Lines("p", 2)),
           Order(Default, Lines("p", 1) \o Lines("p", 2))}

MCBodies == IF Workload = "all" THEN All ELSE Orders

=============================================================================
