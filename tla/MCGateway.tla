------------------------------ MODULE MCGateway ------------------------------
(* Two companies, one of them yet to register.                             *)
EXTENDS Gateway, TLC

Symmetry == Permutations(Clients)

=============================================================================
