----------------------------- MODULE MCAccounts -----------------------------
(* Two requests at a time among two companies and two e-mails.             *)
EXTENDS Accounts

Symmetry == Permutations(Clients)
Ask(k, t, e) == [NoAsk EXCEPT !.kind = k, !.company = t, !.email = e]
Named(k, t, e, r) == [Ask(k, t, e) EXCEPT !.role = r]
Drive(t, u, n) == [NoAsk EXCEPT !.kind = "createDriver", !.company = t, !.user = u, !.cpf = n]

MCAsks ==
  {Ask("register", t, e) : t \in Companies, e \in {"ana", "bob"}}
  \cup {Ask("join", "acme", "bob"), Ask("join", None, "bob"), Ask("join", "beta", "ana")}
  \cup {Named("createUser", "acme", "bob", "seller"), Named("createUser", "acme", "eve", "seller"),
        Named("inviteUser", "acme", "bob", None), Named("register", "beta", "eve", "seller")}
  \cup {Ask("registerDriver", "acme", "bob"), Ask("inviteDriver", "acme", "bob"),
        Ask("inviteDriver", "beta", "ana"), Ask("inviteDriver", "acme", "ana")}
  \cup {Drive("acme", User("acme", "ana"), "111"), Drive("acme", User("acme", "bob"), "222"),
        Drive("beta", User("acme", "bob"), "222")}
  \cup {Ask("createTenant", "beta", None)}

\* Nothing yet, and a company with its administrator.
MCStarts ==
  {[tenants |-> {}, users |-> {}, drivers |-> {}],
   [tenants |-> {"acme"}, users |-> {User("acme", "ana")}, drivers |-> {}]}

=============================================================================
