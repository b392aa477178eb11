------------------------------ MODULE MCAccess ------------------------------
(* Two requests at a time against a tenant with up to three users.         *)
EXTENDS Access, TLC

Symmetry == Permutations(Clients)
MCUsers == {1, 2}
MCRoles == {"admin", "staff"}
A(kind, u, r, slugs) ==
  [NoAsk EXCEPT !.kind = kind, !.user = u, !.role = r, !.slugs = slugs]
Word(kind, r, w) == [NoAsk EXCEPT !.kind = kind, !.role = r, !.word = w]
Enter(u, d) == [NoAsk EXCEPT !.kind = "enter", !.user = u, !.door = d]

DoorsUsed == {d \in OrderDoors : d.handler \in {"complete", "findOne"}}
             \cup {d \in ModuleDoors : d.handler \in {"findAll", "activate"}}

MCAsks ==
  {A("me", u, None, <<>>) : u \in MCUsers}
  \cup {Enter(2, d) : d \in DoorsUsed}
  \cup {A("addRole", u, "staff", <<>>) : u \in MCUsers}
  \cup {A("removeRole", 1, "admin", <<>>), A("addRole", 2, "admin", <<>>)}
  \cup {A(k, 2, None, <<p>>) : k \in {"grant", "revoke"},
                               p \in {"can_read_order", "can_complete_order"}}
  \cup {A(k, 2, None, <<"no_such_permission">>) : k \in {"grant", "revoke"}}
  \cup {A("addPerms", 0, "staff", <<"can_complete_order", "can_assign_driver">>),
        A("dropPerms", 0, "staff", <<"can_complete_order">>),
        A("addPerms", 0, "admin", <<"no_such_permission", "can_create_document">>)}
  \cup {Word("activate", None, "document"), Word("deactivate", None, "document"),
        Word("deactivate", None, "user")}
  \cup {A("join", 2, None, <<>>), A("leave", 1, None, <<>>), A("update", 1, None, <<>>)}
  \cup {Word("newRole", "staff", "staff"), Word("rename", "staff", "admin"),
        Word("rename", "staff", "Admin"),
        Word("rename", "admin", "boss"),
        Word("delete", "staff", None), Word("delete", "admin", None)}

Db(us, rs, ur, rp, on) ==
  [users |-> us, roles |-> rs, adminNamed |-> "admin", userRoles |-> ur,
   rolePerms |-> rp, active |-> on]

\* A tenant whose registration broke off before its user got the role, one that lost
\* its assignments, one at work.
MCStarts ==
  {Db({1}, {"admin"}, {}, {}, {}),
   Db({1, 2}, MCRoles, {}, {}, {"order_management", "ecommerce"}),
   Db({1, 2}, MCRoles, {<<1, "admin">>, <<2, "staff">>}, {<<"staff", "can_complete_order">>},
      {"order_management"})}

\* A company as its registration began it: its first users ask, leave and are updated, and
\* another one joins them.  The module that is on tells it from the others.
FirstAsks ==
  {A(k, u, None, <<>>) : k \in {"me", "update", "leave"}, u \in {1, 2}}
  \cup {A("me", 3, None, <<>>), A("join", 3, None, <<>>), A("removeRole", 1, "admin", <<>>)}
FirstStart == Db({1, 2}, {"admin"}, {}, {}, {"inventory"})
First == active = FirstStart.active

AllUsers == {1, 2, 3}
AllAsks == MCAsks \cup FirstAsks
AllStarts == MCStarts \cup {FirstStart}

\* What is asked of which company, and how often.
BeginAsAsked(c) ==
  /\ First \/ begun < 3
  /\ Begin(c)
  /\ ask'[c] \in IF First THEN FirstAsks ELSE MCAsks

MCNext == \E c \in Clients : BeginAsAsked(c) \/ Resolve(c) \/ Administer(c)
MCSpec == Init /\ [][MCNext]_vars

=============================================================================
