----------------------------- MODULE MCSeeding ------------------------------
(* Two containers on a new database, on the one an older release left, and on
   one where somebody registered a company under the demo company's name.  *)
EXTENDS Seeding

MCPermissions == <<"can_create_order", "can_read_order">>
MCStarts ==
  {[rows |-> {}, granted |-> {}, onboarded |-> FALSE],
   [rows |-> AllRows \ (Rows("permission", {"can_create_order"}) \cup Rows("module", {"document"})),
    granted |-> {"can_read_order"}, onboarded |-> TRUE],
   [rows |-> {Company, AdminRole}, granted |-> {}, onboarded |-> FALSE]}

=============================================================================
