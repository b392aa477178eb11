---------------------------- MODULE ModuleCatalog ----------------------------
(***************************************************************************)
(* What tenant-module.service.ts and onboarding.service.ts promise to a    *)
(* tenant: the set of modules that are on, whether onboarding is over, and *)
(* the answer to the last request.  Every request takes effect at once.    *)
(* ModuleActivation shows how rows, aliases and saves bring this about.    *)
(***************************************************************************)
EXTENDS Naturals, FiniteSets

CONSTANTS
  Modules,     (* Canonical module ids.                                    *)
  Names,       (* These and older names of modules.                        *)
  Essential,   (* Modules the plan does not count.                         *)
  Suggested,   (* Modules that onboarding offers.                          *)
  Limit,       (* Modules the tenant's plan allows.                        *)
  InitiallyOn  (* What may be on at the start.                             *)

VARIABLES enabled, onboarded, answer

vars == <<enabled, onboarded, answer>>

Answer(kind, m, ok) == [kind |-> kind, module |-> m, ok |-> ok]

Full == Cardinality(enabled \ Essential) >= Limit

Init ==
  /\ enabled \in InitiallyOn
  /\ onboarded \in BOOLEAN
  /\ answer = Answer("none", "none", TRUE)

\* A module that is on may be activated again; another one only below the limit.
MayActivate(m) == m \in enabled \/ ~Full

Activate(m) ==
  /\ MayActivate(m)
  /\ enabled' = enabled \cup {m}
  /\ answer' = Answer("activate", m, TRUE)
  /\ UNCHANGED onboarded

Deactivate(m) ==
  /\ m \notin Essential
  /\ enabled' = enabled \ {m}
  /\ answer' = Answer("deactivate", m, TRUE)
  /\ UNCHANGED onboarded

\* Onboarding ends once, with one suggested module or with none.  It takes the ids
\* it offers, and no older name of the same modules.
MayComplete(m) == ~onboarded /\ m \in Suggested \ Essential /\ ~Full

Complete(m) ==
  /\ MayComplete(m)
  /\ enabled' = enabled \cup {m}
  /\ onboarded' = TRUE
  /\ answer' = Answer("complete", m, TRUE)

Skip ==
  /\ ~onboarded
  /\ onboarded' = TRUE
  /\ answer' = Answer("skip", "none", TRUE)
  /\ UNCHANGED enabled

\* The tenant's configuration holds the flag, and a client may write it.
Configure ==
  /\ onboarded' \in BOOLEAN
  /\ answer' = Answer("configure", "none", TRUE)
  /\ UNCHANGED enabled

\* A request is refused only for these reasons, and then changes nothing.
Refuse ==
  /\ \/ \E m \in Modules :
          \/ ~MayActivate(m) /\ answer' = Answer("activate", m, FALSE)
          \/ (m \in Essential \/ ~onboarded) /\ answer' = Answer("deactivate", m, FALSE)
     \/ \E n \in Names : ~MayComplete(n) /\ answer' = Answer("complete", n, FALSE)
     \/ onboarded /\ answer' = Answer("skip", "none", FALSE)
     \/ ~onboarded /\ answer' = Answer("configure", "none", FALSE)
  /\ UNCHANGED <<enabled, onboarded>>

Next ==
  \/ \E m \in Modules : Activate(m) \/ Deactivate(m) \/ Complete(m)
  \/ Skip \/ Configure \/ Refuse

Spec == Init /\ [][Next]_vars

=============================================================================
