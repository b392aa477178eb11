------------------------- MODULE MCModuleActivation -------------------------
(***************************************************************************)
(* Instances of ModuleActivation for TLC: a module with two older names,   *)
(* another one, and an essential one.                                      *)
(***************************************************************************)
EXTENDS ModuleActivation

CONSTANTS Workload, Start

MCCanonicalOf == [n \in {"fleet", "trucks"} |-> "fleet_management"]

Row(m, on) == [module |-> m, active |-> on]

EmptyTable == [i \in {} |-> Row("inventory", TRUE)]
Twice == <<Row("fleet", FALSE), Row("trucks", TRUE)>>
Thrice == <<Row("fleet", TRUE), Row("fleet_management", FALSE), Row("trucks", TRUE)>>

\* An empty tenant, and tenants with one module under two or three names.
MCInitialTables ==
  CASE Start = "empty" -> {EmptyTable}
    [] Start = "both"  -> {EmptyTable, Twice}
    [] OTHER           -> {EmptyTable, Twice, Thrice}

Ask(kind, m) == [NoRequest EXCEPT !.kind = kind, !.module = m, !.header = TRUE]
Unnamed(q) == [q EXCEPT !.header = FALSE]

Modular ==
  {Ask(k, m) : k \in {"activate", "deactivate"}, m \in {"fleet", "inventory", "ecommerce"}}

Onboarding ==
  {Ask("complete", "inventory"), Ask("complete", "fleet_management"),
   Ask("complete", "fleet"), Ask("skip", None),
   [Ask("configure", None) EXCEPT !.flag = "on"], Unnamed(Ask("configure", None))}

Rest ==
  {Ask("activate", "erp"), Ask("deactivate", "erp"), Ask("complete", "erp"),
   Ask("activate", "fleet_management"), Unnamed(Ask("deactivate", "inventory")),
   [Ask("configure", None) EXCEPT !.flag = "off"], Ask("configure", None)}

MCRequests ==
  CASE Workload = "modules"    -> Modular
    [] Workload = "onboarding" -> Onboarding
    [] OTHER                   -> Modular \cup Onboarding \cup Rest

=============================================================================
