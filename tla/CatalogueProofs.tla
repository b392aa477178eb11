--------------------------- MODULE CatalogueProofs ---------------------------
(***************************************************************************)
(* What was answered of products and categories holds, and what is lost    *)
(* has a cause, for any requests, products, categories and jobs.           *)
(*                                                                         *)
(* Requests that are served at the same time overlap (Timed), which is     *)
(* what every exception of the properties refers to.  The inductive        *)
(* invariant follows each promise from the statement that makes it on      *)
(* (Whole, Held, Filed, Gone), and what a request loaded before it saves   *)
(* (SeenHeld, SeenGone); a request that overlaps nobody finds the rows as  *)
(* it left them (Quiet).                                                   *)
(***************************************************************************)
EXTENDS Catalogue, TLAPS

Kinds == Creates \cup {"updateProduct", "removeProduct", "publishProduct",
                       "updateCategory", "removeCategory"}
Answers == {None, "ok", "missing", "refused", "failed"}

Active(r) == Begun(r) /\ ~Ended(r)
\* A request that was not refused has made the statement.
Made(r, s) == Begun(r) /\ answer[r] \in {None, "ok"} /\ s \in Route(job[r]) \ todo[r]
\* It has read what it is about to save.
Loaded(r) == Active(r) /\ "save" \in todo[r] /\ "load" \notin todo[r]
Found(r)  == Active(r) /\ "saveCategory" \in todo[r] /\ "find" \notin todo[r]
Alone(r)  == \A s \in Requests : ~Overlap(r, s)

Functions ==
  /\ DOMAIN job = Requests /\ DOMAIN todo = Requests /\ DOMAIN seen = Requests
  /\ DOMAIN entry = Requests /\ DOMAIN answer = Requests /\ DOMAIN before = Requests

Routed(r) ==
  IF Begun(r)
  THEN /\ job[r].kind \in Kinds /\ todo[r] \subseteq Route(job[r])
       /\ Ended(r) <=> todo[r] = {}
       /\ job[r].profile \in {None, "slugged", "slugless"}
       /\ job[r].variants \in {None, "named", "nameless"} /\ job[r].sets \subseteq Columns
       /\ "unlink" \in todo[r] /\ "link" \in Route(job[r]) => "link" \in todo[r]
       /\ {"insert", "find"} \cap todo[r] # {} => todo[r] = Route(job[r])
  ELSE todo[r] = {} /\ answer[r] = None

Timed == \A r, s \in Requests : s \in before[r] => Ended(s)

\* The row that bears the request's name may be there.
Inserted(r) == job[r].kind \in Creates /\ {"insert", "insertCategory"} \cap todo[r] = {}
\* A request is about a row that was there when it began.
Addresses(r) ==
  Begun(r) /\ job[r].kind \notin Creates =>
    /\ job[r].kind \in {"updateProduct", "removeProduct", "publishProduct"} => Target(r) \in ProductIds
    /\ job[r].kind \in {"updateCategory", "removeCategory"} => Target(r) \in CategoryIds
    /\ Target(r) \in Requests => Inserted(Target(r)) /\ r \notin before[Target(r)]
NewRows ==
  /\ \A p \in DOMAIN products \cap Requests : Inserted(p)
  /\ \A x \in DOMAIN categories \cap Requests : Inserted(x)
  /\ \A q \in profiles : q.product = Nobody
  /\ \A l \in links : l.by \in Requests \cup {Nobody}
  /\ \A r \in Requests : Loaded(r) => seen[r].row \in [Columns -> Requests \cup {Nobody}]

Lost(x) == On(x, "removeCategory") # {}
Disputed(u, c) ==
  \E v \in On(Target(u), "updateProduct") : NotBefore(v, u) /\ (c \in job[v].sets \/ Overlap(u, v))
Undone(u) ==
  \E v \in Requests : NotBefore(v, u) /\ Target(v) = Target(u)
                      /\ (job[v].kind = "removeProduct" \/ job[v].relink)
Refiled(p) == \E u \in On(p, "updateProduct") : job[u].relink
Restored(r, kind) == \E u \in On(Target(r), kind) : Overlap(r, u)

Whole(r) ==
  Made(r, "insert") =>
    \/ On(r, "removeProduct") # {}
    \/ /\ r \in DOMAIN products
       /\ Made(r, "variants") => <<r, r>> \in variants
       /\ Made(r, "profile") => \E q \in profiles : q.by = r
       /\ Made(r, "link") => \A x \in job[r].links :
            (\E l \in LinksOf(r) : l.category = x) \/ Lost(x) \/ Refiled(r)
Held(r) ==
  Made(r, "save") => \A c \in job[r].sets :
    (Target(r) \in DOMAIN products => products[Target(r)][c] = r) \/ Disputed(r, c)
SeenHeld(r) ==
  Loaded(r) => \A u \in Requests : Made(u, "save") /\ Target(u) = Target(r) =>
    \A c \in job[u].sets : seen[r].row[c] = u \/ Disputed(u, c)
Filed(r) ==
  Made(r, "link") /\ job[r].kind = "updateProduct" => \A x \in job[r].links :
    (\E l \in LinksOf(Target(r)) : l.category = x) \/ Lost(x) \/ Undone(r)
Cleared(r) ==
  Active(r) /\ "link" \in todo[r] /\ "unlink" \notin todo[r] =>
    \A l \in LinksOf(Target(r)) : l.by \in Requests /\ Overlap(l.by, r)
Gone(r) ==
  /\ Made(r, "delete") =>
       /\ Target(r) \in DOMAIN products => Restored(r, "updateProduct")
       /\ \A v \in VariantsOf(Target(r)) : v[2] \in Requests /\ Overlap(v[2], r)
  /\ Made(r, "deleteCategory") =>
       (Target(r) \in DOMAIN categories => Restored(r, "updateCategory"))
SeenGone(r) ==
  /\ Loaded(r) => \A d \in Requests :
       Made(d, "delete") /\ Target(d) = Target(r) => Restored(d, "updateProduct")
  /\ Found(r) => \A d \in Requests :
       Made(d, "deleteCategory") /\ Target(d) = Target(r) => Restored(d, "updateCategory")

\* What a request that overlaps nobody finds where it left it.
Quiet(r) ==
  Active(r) /\ Alone(r) =>
    /\ job[r].kind = "createProduct" /\ "insert" \notin todo[r] => r \in DOMAIN products
    /\ job[r].kind = "updateProduct" /\ "save" \notin todo[r] => Target(r) \in DOMAIN products
    /\ Loaded(r) => Unlost(r, Target(r))
    /\ {"insertCategory", "saveCategory"} \cap todo[r] # {} /\ "slug" \notin todo[r] =>
         ~Taken(entry[r].slug, DOMAIN categories \ {Target(r)})
Cause(r) ==
  answer[r] = "failed" =>
    \/ job[r].profile = "slugless" \/ job[r].variants = "nameless"
    \/ ~Alone(r) \/ \E x \in job[r].links : Lost(x)
Known ==
  /\ \A r \in Requests : \A x \in job[r].links : x \in DOMAIN categories \/ Lost(x)
  /\ \A x \in Shelved : x \in DOMAIN categories \/ Lost(x)

Promises(r) ==
  Whole(r) /\ Held(r) /\ SeenHeld(r) /\ Filed(r) /\ Cleared(r) /\ Gone(r) /\ SeenGone(r)
IInv ==
  /\ TypeOK /\ Functions /\ Timed /\ NewRows /\ Known /\ LinksAreOfOneRequest
  /\ \A r \in Requests : Routed(r) /\ Addresses(r) /\ Promises(r) /\ Quiet(r) /\ Cause(r)

-----------------------------------------------------------------------------
(* Lemmas                                                                  *)

\* Which jobs make a statement.
LEMMA RouteFacts ==
  ASSUME NEW j, j.kind \in Kinds
  PROVE  /\ "insert" \in Route(j) <=> j.kind = "createProduct"
         /\ "load" \in Route(j) <=> j.kind \in {"updateProduct", "removeProduct"}
         /\ "save" \in Route(j) <=> j.kind = "updateProduct"
         /\ "delete" \in Route(j) <=> j.kind = "removeProduct"
         /\ "publish" \in Route(j) <=> j.kind = "publishProduct"
         /\ "profile" \in Route(j) <=>
              j.kind \in {"createProduct", "updateProduct"} /\ j.profile # None
         /\ "unlink" \in Route(j) <=> j.kind = "updateProduct" /\ j.relink
         /\ "link" \in Route(j) <=>
              j.links # {} /\ (j.kind = "createProduct" \/ (j.kind = "updateProduct" /\ j.relink))
         /\ "variants" \in Route(j) <=> j.kind = "createProduct" /\ j.variants # None
         /\ "find" \in Route(j) <=> j.kind \in {"updateCategory", "removeCategory"}
         /\ "slug" \in Route(j) <=> j.kind \in {"createCategory", "updateCategory"}
         /\ "insertCategory" \in Route(j) <=> j.kind = "createCategory"
         /\ "saveCategory" \in Route(j) <=> j.kind = "updateCategory"
         /\ "deleteCategory" \in Route(j) <=> j.kind = "removeCategory"
         /\ Route(j) # {} /\ Route(j) \subseteq DOMAIN Rank
         /\ j.kind = "createProduct" =>
              Route(j) \subseteq {"insert", "profile", "link", "variants", "read"}
         /\ j.kind \in {"updateCategory", "removeCategory"} =>
              Route(j) \subseteq {"find", "slug", "saveCategory", "deleteCategory"}
<1>1. CASE j.kind = "createProduct" BY <1>1 DEF Route, If, Rank
<1>2. CASE j.kind = "updateProduct" BY <1>2 DEF Route, If, Rank
<1>3. CASE j.kind = "removeProduct" BY <1>3 DEF Route, Rank
<1>4. CASE j.kind = "publishProduct" BY <1>4 DEF Route, Rank
<1>5. CASE j.kind = "createCategory" BY <1>5 DEF Route, Rank
<1>6. CASE j.kind = "updateCategory" BY <1>6 DEF Route, Rank
<1>7. CASE j.kind = "removeCategory" BY <1>7 DEF Route, Rank
<1> QED BY <1>1, <1>2, <1>3, <1>4, <1>5, <1>6, <1>7 DEF Kinds, Creates

\* What has been made before a statement is next.
LEMMA Earlier ==
  ASSUME NEW r, NEW s, At(r, s)
  PROVE  /\ s = "insert" => \A t \in DOMAIN Rank \cap todo[r] : Rank[t] >= 1
         /\ s \in {"save", "delete"} => "load" \notin todo[r]
         /\ s = "profile" => {"insert", "load", "save"} \cap todo[r] = {}
         /\ s = "unlink" => {"insert", "load", "save", "profile"} \cap todo[r] = {}
         /\ s \in {"link", "variants", "read"} =>
              {"insert", "load", "save", "profile", "unlink"} \cap todo[r] = {}
         /\ s = "slug" => "find" \notin todo[r]
         /\ s \in {"insertCategory", "saveCategory", "deleteCategory"} =>
              {"find", "slug"} \cap todo[r] = {}
         /\ "insert" \in todo[r] /\ todo[r] \subseteq {"insert", "profile", "link", "variants", "read"} =>
              s = "insert"
         /\ "find" \in todo[r] /\ todo[r] \subseteq {"find", "slug", "saveCategory", "deleteCategory"} =>
              s = "find"
BY DEF At, Rank

-----------------------------------------------------------------------------
(* What a step of a request is                                             *)

Makes(r, s) == At(r, s) /\ s \notin todo'[r] /\ answer'[r] \in {None, "ok"}

\* Why the database refuses a statement of r.
Refused(r) ==
  LET p == Target(r) IN
  \/ At(r, "profile") /\ job[r].profile # "slugged"
  \/ At(r, "link") /\ ~(/\ p \in DOMAIN products /\ job[r].links \subseteq DOMAIN categories
                        /\ \A l \in LinksOf(p) : l.category \notin job[r].links)
  \/ At(r, "variants") /\ ~(job[r].variants = "named" /\ p \in DOMAIN products)
  \/ At(r, "save") /\ ~Unlost(r, p)
  \/ /\ At(r, "insertCategory") \/ At(r, "saveCategory")
     /\ Taken(entry[r].slug, DOMAIN categories \ {p})

Control(r) ==
  /\ Active(r) /\ job' = job /\ before' = before /\ Functions'
  /\ todo'[r] \subseteq todo[r] /\ answer' \in [Requests -> Answers]
  /\ answer'[r] = None <=> todo'[r] # {}
  /\ todo'[r] # todo[r] /\ todo'[r] # {} => \E s \in todo[r] \ todo'[r] : At(r, s)
  /\ \A s \in todo[r] \ todo'[r] : answer'[r] \in {None, "ok"} =>
       Makes(r, s) \/ (s = "slug" /\ Makes(r, "find") /\ job[r].kind # "createCategory")
  /\ answer'[r] = "failed" => Refused(r)
  /\ \A d \in Requests \ {r} :
       todo'[d] = todo[d] /\ answer'[d] = answer[d] /\ seen'[d] = seen[d] /\ entry'[d] = entry[d]

Products(r) ==
  LET p == Target(r) IN
  /\ \A q \in DOMAIN products' :
       \/ q \in DOMAIN products /\ products'[q] = products[q]
       \/ q = p /\ (Makes(r, "insert") \/ Makes(r, "save"))
  /\ \A q \in DOMAIN products \ DOMAIN products' : q = p /\ Makes(r, "delete")
  /\ Makes(r, "insert") =>
       p \in DOMAIN products' /\ products'[p] \in [Columns -> Requests \cup {Nobody}]
  /\ Makes(r, "save") =>
       /\ Unlost(r, p) /\ p \in DOMAIN products'
       /\ products'[p] = [c \in Columns |-> IF c \in job[r].sets THEN r ELSE seen[r].row[c]]
  /\ Makes(r, "delete") => p \notin DOMAIN products'

Filing(r) ==
  LET p == Target(r) IN
  /\ \A l \in links \ links' : \/ l.product = p /\ (Makes(r, "unlink") \/ Makes(r, "delete"))
                               \/ l.category = p /\ Makes(r, "deleteCategory")
  /\ links' \ links \subseteq [product : {p}, category : job[r].links, by : {r}]
  /\ links' \subseteq links \/ Makes(r, "link")
  /\ Makes(r, "link") =>
       /\ p \in DOMAIN products /\ job[r].links \subseteq DOMAIN categories
       /\ \A l \in LinksOf(p) : l.category \notin job[r].links
       /\ [product : {p}, category : job[r].links, by : {r}] \subseteq links'
  /\ Makes(r, "unlink") \/ Makes(r, "delete") => \A l \in links' : l.product # p
  /\ Makes(r, "deleteCategory") => \A l \in links' : l.category # p

Extras(r) ==
  LET p == Target(r) IN
  /\ variants' \subseteq variants \/ Makes(r, "variants")
  /\ variants' \subseteq variants \cup {<<p, r>>}
  /\ \A v \in variants \ variants' : v[1] = p /\ Makes(r, "delete")
  /\ Makes(r, "variants") => p \in DOMAIN products /\ <<p, r>> \in variants'
  /\ Makes(r, "delete") => \A v \in variants' : v[1] # p
  /\ profiles \subseteq profiles' /\ \A q \in profiles' \ profiles : q.product = Nobody
  /\ Makes(r, "profile") /\ job[r].kind = "createProduct" => \E q \in profiles' : q.by = r

Shelves(r) ==
  LET x == Target(r) IN
  /\ \A y \in DOMAIN categories' :
       \/ y \in DOMAIN categories /\ categories'[y] = categories[y]
       \/ y = x /\ (Makes(r, "insertCategory") \/ Makes(r, "saveCategory"))
  /\ \A y \in DOMAIN categories \ DOMAIN categories' : y = x /\ Makes(r, "deleteCategory")
  /\ Makes(r, "insertCategory") \/ Makes(r, "saveCategory") =>
       /\ ~Taken(entry[r].slug, DOMAIN categories \ {x})
       /\ x \in DOMAIN categories' /\ categories'[x] = entry[r]
  /\ Makes(r, "deleteCategory") => x \notin DOMAIN categories'

Memory(r) ==
  LET p == Target(r) IN
  /\ Makes(r, "load") =>
       /\ p \in DOMAIN products
       /\ seen'[r] = [row |-> products[p], links |-> LinksOf(p), variants |-> VariantsOf(p)]
  /\ ~Makes(r, "load") => seen'[r] = seen[r]
  /\ Makes(r, "find") =>
       /\ p \in DOMAIN categories
       /\ job[r].kind = "updateCategory" /\ "slug" \notin todo'[r] => entry'[r] = categories[p]
  /\ Makes(r, "slug") => ~Taken(entry[r].slug, DOMAIN categories)
  /\ ~Makes(r, "find") /\ "slug" \notin todo'[r] => entry'[r] = entry[r]

Step(r) == Control(r) /\ Products(r) /\ Filing(r) /\ Extras(r) /\ Shelves(r) /\ Memory(r)

-----------------------------------------------------------------------------
(* What steps keep                                                         *)

\* Nothing that was asked, and nobody's overlaps, change with a step of a request.
LEMMA HistoryKept ==
  ASSUME job' = job, before' = before
  PROVE  /\ \A a : Begun(a)' = Begun(a) /\ Target(a)' = Target(a) /\ Undone(a)' = Undone(a)
                   /\ Alone(a)' = Alone(a) /\ Lost(a)' = Lost(a) /\ Refiled(a)' = Refiled(a)
         /\ \A a, b : Overlap(a, b)' = Overlap(a, b) /\ On(a, b)' = On(a, b)
                      /\ NotBefore(a, b)' = NotBefore(a, b)
                      /\ Disputed(a, b)' = Disputed(a, b) /\ Restored(a, b)' = Restored(a, b)
<1>1. \A a : Begun(a)' = Begun(a) /\ Target(a)' = Target(a) BY DEF Begun, Target
<1>2. \A a, b : Overlap(a, b)' = Overlap(a, b) BY <1>1 DEF Overlap
<1>3. \A a, b : On(a, b)' = On(a, b) BY <1>1 DEF On, OfKind
<1>4. \A a, b : NotBefore(a, b)' = NotBefore(a, b) BY <1>1 DEF NotBefore
<1>5. \A a : Undone(a)' = Undone(a) BY <1>1, <1>4 DEF Undone
<1>6. \A a : Alone(a)' = Alone(a) BY <1>2 DEF Alone
<1>7. \A a : Lost(a)' = Lost(a) /\ Refiled(a)' = Refiled(a) BY <1>3 DEF Lost, Refiled
<1>8. \A a, b : Disputed(a, b)' = Disputed(a, b) BY <1>1, <1>2, <1>3, <1>4 DEF Disputed
<1>9. \A a, b : Restored(a, b)' = Restored(a, b) BY <1>1, <1>2, <1>3 DEF Restored
<1> QED BY <1>1, <1>2, <1>3, <1>4, <1>5, <1>6, <1>7, <1>8, <1>9

\* Requests that are served at the same time overlap.
LEMMA TogetherOverlap ==
  ASSUME IInv, NEW r \in Requests, NEW s \in Requests, Active(r), Active(s), r # s
  PROVE  Overlap(r, s) /\ NotBefore(r, s) /\ ~Alone(r)
BY DEF IInv, Timed, Active, Overlap, NotBefore, Alone

LEMMA RouteOf ==
  ASSUME IInv, NEW r \in Requests, Begun(r)
  PROVE  /\ job[r].kind \in Kinds /\ todo[r] \subseteq Route(job[r])
         /\ Route(job[r]) \subseteq DOMAIN Rank /\ Route(job[r]) # {}
BY RouteFacts DEF IInv, Routed

LEMMA OthersKept ==
  ASSUME IInv, NEW r \in Requests, Control(r), NEW d \in Requests \ {r}
  PROVE  /\ \A s : Made(d, s)' = Made(d, s)
         /\ Active(d)' = Active(d) /\ Loaded(d)' = Loaded(d) /\ Found(d)' = Found(d)
         /\ Ended(d)' = Ended(d)
<1>1. Begun(d)' = Begun(d) BY HistoryKept DEF Control
<1> QED BY <1>1 DEF Control, Made, Active, Loaded, Found, Ended

\* What r has made after its step it made before or with the step.
LEMMA OwnMade ==
  ASSUME IInv, NEW r \in Requests, Control(r)
  PROVE  /\ \A s : Made(r, s)' => Made(r, s) \/ Makes(r, s) \/ s = "slug"
         /\ \A s, t : Makes(r, s) /\ Made(r, t)' /\ ~Makes(r, t) => Made(r, t) \/ t = "slug"
         /\ Loaded(r)' => Loaded(r) \/ Makes(r, "load")
         /\ Found(r)' => Found(r) \/ Makes(r, "find")
         /\ \A s : Makes(r, s) => Made(r, s)' /\ s \in todo[r] /\ ~Made(r, s)
         /\ Active(r)' => answer'[r] = None
<1>1. Begun(r)' = Begun(r) /\ job' = job BY HistoryKept DEF Control
<1>2. Begun(r) /\ answer[r] = None BY DEF Control, Active, Ended
<1>3. todo[r] \subseteq Route(job[r]) BY <1>2, RouteOf
<1>4. \A s : Makes(r, s) => s \in todo[r] /\ s \notin todo'[r] /\ answer'[r] \in {None, "ok"}
  BY DEF Makes, At
<1>5. Active(r)' => answer'[r] = None BY DEF Active, Ended
<1>6. \A s : Made(r, s)' => Made(r, s) \/ Makes(r, s) \/ s = "slug"
  <2> TAKE s
  <2> SUFFICES ASSUME Made(r, s)', s # "slug" PROVE Made(r, s) \/ Makes(r, s)
    OBVIOUS
  <2>1. s \in Route(job[r]) /\ s \notin todo'[r] /\ answer'[r] \in {None, "ok"} BY <1>1 DEF Made
  <2> QED BY <2>1, <1>2 DEF Made, Control
<1>7. \A s : Makes(r, s) => Made(r, s)' /\ s \in todo[r] /\ ~Made(r, s)
  BY <1>1, <1>2, <1>3, <1>4 DEF Made
<1>8. Loaded(r)' => Loaded(r) \/ Makes(r, "load")
  BY <1>2, <1>5 DEF Loaded, Active, Ended, Control
<1>9. Found(r)' => Found(r) \/ Makes(r, "find")
  BY <1>2, <1>5 DEF Found, Active, Ended, Control
<1> QED BY <1>5, <1>6, <1>7, <1>8, <1>9

LEMMA ControlKept ==
  ASSUME IInv, NEW r \in Requests, Control(r)
  PROVE  /\ Functions' /\ Timed'
         /\ \A d \in Requests : Routed(d)' /\ Addresses(d)' /\ (Inserted(d) => Inserted(d)')
<1>1. /\ \A d : Begun(d)' = Begun(d) /\ Target(d)' = Target(d)
      /\ job' = job /\ before' = before
  BY HistoryKept DEF Control
<1>2. \A d \in Requests : Ended(d) => Ended(d)'
  BY DEF Control, Ended, Active
<1>3. Timed' BY <1>1, <1>2 DEF IInv, Timed
<1>4. \A d \in Requests : todo'[d] \subseteq todo[d]
  BY DEF Control
<1>5. \A d \in Requests : Inserted(d) => Inserted(d)'
  BY <1>1, <1>4 DEF Inserted
<1>6. \A d \in Requests : Addresses(d)'
  BY <1>1, <1>5 DEF IInv, Addresses
<1>7. \A d \in Requests \ {r} : Routed(d)'
  <2> TAKE d \in Requests \ {r}
  <2>1. Routed(d) /\ todo'[d] = todo[d] /\ answer'[d] = answer[d] BY DEF IInv, Control
  <2> QED BY <2>1, <1>1 DEF Routed, Ended
<1>8. Routed(r)'
  <2>1. Begun(r) /\ Routed(r) BY DEF Control, Active, IInv
  <2>2. {"insert", "find"} \cap todo'[r] # {} => todo'[r] = Route(job[r])
    <3> SUFFICES ASSUME NEW t \in {"insert", "find"} \cap todo'[r], todo'[r] # todo[r] PROVE FALSE
      BY <2>1, <1>4 DEF Routed
    <3>1. PICK s \in todo[r] \ todo'[r] : At(r, s) BY DEF Control
    <3>2. t \in todo[r] /\ todo[r] = Route(job[r]) /\ job[r].kind \in Kinds
      BY <2>1, <1>4 DEF Routed
    <3>3. CASE t = "insert"
      <4>1. job[r].kind = "createProduct" BY <3>2, <3>3, RouteFacts
      <4>2. todo[r] \subseteq {"insert", "profile", "link", "variants", "read"}
        BY <3>2, <4>1, RouteFacts
      <4> QED BY <3>1, <3>2, <3>3, <4>2, Earlier
    <3>4. CASE t = "find"
      <4>1. job[r].kind \in {"updateCategory", "removeCategory"} BY <3>2, <3>4, RouteFacts
      <4>2. todo[r] \subseteq {"find", "slug", "saveCategory", "deleteCategory"}
        BY <3>2, <4>1, RouteFacts
      <4> QED BY <3>1, <3>2, <3>4, <4>2, Earlier
    <3> QED BY <3>3, <3>4
  <2>3. Ended(r)' <=> todo'[r] = {} BY DEF Control, Ended
  <2>4. todo'[r] \subseteq Route(job[r]) BY <2>1, <1>4 DEF Routed
  <2>5. "unlink" \in todo'[r] /\ "link" \in Route(job[r]) => "link" \in todo'[r]
    <3> SUFFICES ASSUME "unlink" \in todo'[r], "link" \in todo[r] \ todo'[r]
                 PROVE  FALSE
      BY <2>1, <1>4 DEF Routed
    <3>1. todo'[r] # {} /\ answer'[r] = None BY DEF Control
    <3>2. Makes(r, "link") BY <3>1 DEF Control
    <3> QED BY <3>2, <1>4, Earlier DEF Makes
  <2> QED BY <2>1, <2>2, <2>3, <2>4, <2>5, <1>1 DEF Routed
<1>9. Functions' BY DEF Control
<1> QED BY <1>3, <1>5, <1>6, <1>7, <1>8, <1>9

\* A row that bears the request's name is there only after its insert.
LEMMA InsertMakesInserted ==
  ASSUME IInv, NEW r \in Requests, Control(r), Makes(r, "insert") \/ Makes(r, "insertCategory")
  PROVE  Target(r) = r /\ Inserted(r)'
<1>1. Begun(r) /\ job' = job BY DEF Control, Active
<1>2. todo[r] \subseteq Route(job[r]) /\ job[r].kind \in Kinds BY <1>1, RouteOf
<1>3. CASE Makes(r, "insert")
  <2>1. "insert" \in todo[r] /\ "insert" \notin todo'[r] BY <1>3 DEF Makes, At
  <2>2. job[r].kind = "createProduct" BY <2>1, <1>2, RouteFacts
  <2>3. "insertCategory" \notin todo'[r] BY <2>2, <1>2, RouteFacts DEF Control
  <2> QED BY <2>1, <2>2, <2>3, <1>1 DEF Inserted, Target, Creates
<1>4. CASE Makes(r, "insertCategory")
  <2>1. "insertCategory" \in todo[r] /\ "insertCategory" \notin todo'[r] BY <1>4 DEF Makes, At
  <2>2. job[r].kind = "createCategory" BY <2>1, <1>2, RouteFacts
  <2>3. "insert" \notin todo'[r] BY <2>2, <1>2, RouteFacts DEF Control
  <2> QED BY <2>1, <2>2, <2>3, <1>1 DEF Inserted, Target, Creates
<1> QED BY <1>3, <1>4

\* An update writes to a row that there may be.
LEMMA SavesGoToOldRows ==
  ASSUME IInv, NEW r \in Requests, Control(r), Makes(r, "save") \/ Makes(r, "saveCategory")
  PROVE  /\ Makes(r, "save") => Target(r) \in ProductIds /\ job[r].kind = "updateProduct" /\ Loaded(r)
         /\ Makes(r, "saveCategory") =>
              Target(r) \in CategoryIds /\ job[r].kind = "updateCategory" /\ Found(r)
         /\ Target(r) \in Requests => Inserted(Target(r))
<1>1. Begun(r) /\ Active(r) BY DEF Control, Active
<1>2. todo[r] \subseteq Route(job[r]) /\ job[r].kind \in Kinds BY <1>1, RouteOf
<1>3. Addresses(r) BY DEF IInv
<1>4. CASE Makes(r, "save")
  <2>1. "save" \in todo[r] /\ "load" \notin todo[r] BY <1>4, Earlier DEF Makes, At
  <2>2. job[r].kind = "updateProduct" BY <2>1, <1>2, RouteFacts
  <2>3. "saveCategory" \notin todo[r] BY <2>2, <1>2, RouteFacts
  <2>4. ~Makes(r, "saveCategory") BY <2>3 DEF Makes, At
  <2> QED BY <2>1, <2>2, <2>4, <1>1, <1>3 DEF Addresses, Loaded, Creates
<1>5. CASE Makes(r, "saveCategory")
  <2>1. "saveCategory" \in todo[r] /\ "find" \notin todo[r] BY <1>5, Earlier DEF Makes, At
  <2>2. job[r].kind = "updateCategory" BY <2>1, <1>2, RouteFacts
  <2>3. "save" \notin todo[r] BY <2>2, <1>2, RouteFacts
  <2>4. ~Makes(r, "save") BY <2>3 DEF Makes, At
  <2> QED BY <2>1, <2>2, <2>4, <1>1, <1>3 DEF Addresses, Found, Creates
<1> QED BY <1>4, <1>5

LEMMA NewRowsKept ==
  ASSUME IInv, NEW r \in Requests, Step(r)
  PROVE  NewRows'
<1> USE DEF Step
<1>1. \A d \in Requests : Inserted(d) => Inserted(d)' BY ControlKept
<1>2. ASSUME NEW p \in DOMAIN products' \cap Requests PROVE Inserted(p)'
  <2>1. CASE p \in DOMAIN products BY <2>1, <1>1, <1>2 DEF IInv, NewRows
  <2>2. CASE p = Target(r) /\ Makes(r, "insert") BY <2>2, InsertMakesInserted
  <2>3. CASE p = Target(r) /\ Makes(r, "save") BY <2>3, <1>1, <1>2, SavesGoToOldRows
  <2> QED BY <1>2, <2>1, <2>2, <2>3 DEF Products
<1>3. ASSUME NEW x \in DOMAIN categories' \cap Requests PROVE Inserted(x)'
  <2>1. CASE x \in DOMAIN categories BY <2>1, <1>1, <1>3 DEF IInv, NewRows
  <2>2. CASE x = Target(r) /\ Makes(r, "insertCategory") BY <2>2, InsertMakesInserted
  <2>3. CASE x = Target(r) /\ Makes(r, "saveCategory") BY <2>3, <1>1, <1>3, SavesGoToOldRows
  <2> QED BY <1>3, <2>1, <2>2, <2>3 DEF Shelves
<1>4. \A q \in profiles' : q.product = Nobody BY DEF Extras, IInv, NewRows
<1>6. \A l \in links' : l.by \in Requests \cup {Nobody} BY DEF Filing, IInv, NewRows
<1>5. ASSUME NEW d \in Requests, Loaded(d)' PROVE seen'[d].row \in [Columns -> Requests \cup {Nobody}]
  <2>1. CASE d # r BY <2>1, <1>5, OthersKept DEF IInv, NewRows, Control
  <2>2. CASE d = r /\ Makes(r, "load") BY <2>2 DEF Memory, IInv, TypeOK
  <2>3. CASE d = r /\ ~Makes(r, "load")
    <3>1. Loaded(r) BY <2>3, <1>5, OwnMade
    <3> QED BY <3>1, <2>3 DEF Memory, IInv, NewRows
  <2> QED BY <2>1, <2>2, <2>3
<1> QED BY <1>2, <1>3, <1>4, <1>5, <1>6 DEF NewRows

LEMMA TypeKept ==
  ASSUME IInv, NEW r \in Requests, Step(r)
  PROVE  TypeOK'
<1> USE DEF Step
<1>1. TypeOK BY DEF IInv
<1>2. Makes(r, "insert") \/ Makes(r, "save") => Target(r) \in ProductIds
  BY InsertMakesInserted, SavesGoToOldRows DEF ProductIds
<1>3. Makes(r, "insertCategory") \/ Makes(r, "saveCategory") => Target(r) \in CategoryIds
  BY InsertMakesInserted, SavesGoToOldRows DEF CategoryIds
<1>4. DOMAIN products' \subseteq ProductIds BY <1>1, <1>2 DEF TypeOK, Products
<1>5. DOMAIN categories' \subseteq CategoryIds BY <1>1, <1>3 DEF TypeOK, Shelves
<1>6. ASSUME NEW p \in DOMAIN products'
      PROVE  products'[p] \in [Columns -> Requests \cup {Nobody}]
  <2>1. CASE p \in DOMAIN products /\ products'[p] = products[p] BY <2>1, <1>1 DEF TypeOK
  <2>2. CASE p = Target(r) /\ Makes(r, "insert") BY <2>2 DEF Products
  <2>3. CASE p = Target(r) /\ Makes(r, "save")
    <3>1. seen[r].row \in [Columns -> Requests \cup {Nobody}]
      BY <2>3, SavesGoToOldRows DEF IInv, NewRows
    <3>2. products'[p] = [c \in Columns |-> IF c \in job[r].sets THEN r ELSE seen[r].row[c]]
      BY <2>3 DEF Products
    <3> QED BY <3>1, <3>2
  <2> QED BY <1>6, <2>1, <2>2, <2>3 DEF Products
<1>7. ASSUME NEW l \in links' PROVE l.product \in DOMAIN products' /\ l.category \in DOMAIN categories'
  <2>1. l.product \in DOMAIN products /\ l.category \in DOMAIN categories
    <3>1. CASE l \in links BY <3>1, <1>1 DEF TypeOK
    <3>2. CASE l \notin links BY <3>2, <1>7 DEF Filing
    <3> QED BY <3>1, <3>2
  <2>2. l.product \in DOMAIN products'
    <3>1. Makes(r, "delete") => l.product # Target(r) BY <1>7 DEF Filing
    <3> QED BY <3>1, <2>1 DEF Products
  <2>3. l.category \in DOMAIN categories'
    <3>1. Makes(r, "deleteCategory") => l.category # Target(r) BY <1>7 DEF Filing
    <3> QED BY <3>1, <2>1 DEF Shelves
  <2> QED BY <2>2, <2>3
<1>8. ASSUME NEW k \in links', NEW l \in links', k.product = l.product, k.category = l.category
      PROVE  k = l
  <2>1. CASE k \in links /\ l \in links BY <2>1, <1>1, <1>8 DEF TypeOK
  <2>2. CASE k \notin links /\ l \notin links BY <2>2, <1>8 DEF Filing
  <2>3. ASSUME NEW m \in links, NEW n \in links' \ links, m.product = n.product,
               m.category = n.category
        PROVE  FALSE
    <3>1. Makes(r, "link") /\ n.product = Target(r) /\ n.category \in job[r].links
      BY DEF Filing
    <3>2. m \in LinksOf(Target(r)) BY <2>3, <3>1 DEF LinksOf
    <3> QED BY <2>3, <3>1, <3>2 DEF Filing
  <2> QED BY <1>8, <2>1, <2>2, <2>3
<1>9. ASSUME NEW v \in variants' PROVE v[1] \in DOMAIN products'
  <2>1. v[1] \in DOMAIN products
    <3>1. CASE v \in variants BY <3>1, <1>1 DEF TypeOK
    <3>2. CASE v \notin variants BY <3>2, <1>9 DEF Extras
    <3> QED BY <3>1, <3>2
  <2>2. Makes(r, "delete") => v[1] # Target(r) BY <1>9 DEF Extras
  <2> QED BY <2>1, <2>2 DEF Products
<1>10. ASSUME NEW x \in DOMAIN categories', NEW y \in DOMAIN categories',
              Text(categories'[x].slug) = Text(categories'[y].slug), x # y
       PROVE  FALSE
  <2>1. ASSUME NEW z \in DOMAIN categories', z # Target(r)
        PROVE  z \in DOMAIN categories /\ categories'[z] = categories[z]
    BY <2>1 DEF Shelves
  <2>2. CASE x # Target(r) /\ y # Target(r) BY <2>1, <2>2, <1>1, <1>10 DEF TypeOK
  <2>3. ASSUME NEW z \in DOMAIN categories', z # Target(r), Target(r) \in DOMAIN categories',
               Text(categories'[z].slug) = Text(categories'[Target(r)].slug)
        PROVE  FALSE
    <3>1. z \in DOMAIN categories /\ categories'[z] = categories[z] BY <2>1, <2>3
    <3>2. CASE Target(r) \in DOMAIN categories /\ categories'[Target(r)] = categories[Target(r)]
      BY <3>1, <3>2, <2>3, <1>1 DEF TypeOK
    <3>3. CASE Makes(r, "insertCategory") \/ Makes(r, "saveCategory")
      <4>1. ~Taken(entry[r].slug, DOMAIN categories \ {Target(r)})
            /\ categories'[Target(r)] = entry[r]
        BY <3>3 DEF Shelves
      <4> QED BY <4>1, <3>1, <2>3 DEF Taken
    <3> QED BY <2>3, <3>2, <3>3 DEF Shelves
  <2> QED BY <1>10, <2>2, <2>3
<1>11. answer' \in [Requests -> Answers] /\ before' = before BY DEF Control
<1> QED BY <1>1, <1>4, <1>5, <1>6, <1>7, <1>8, <1>9, <1>10, <1>11 DEF TypeOK, Answers

\* What is taken away is taken away by a request for it.
LEMMA Removals ==
  ASSUME IInv, NEW r \in Requests, Control(r)
  PROVE  /\ Makes(r, "delete") => r \in On(Target(r), "removeProduct")
         /\ Makes(r, "unlink") =>
              job[r].kind = "updateProduct" /\ job[r].relink /\ Refiled(Target(r))
         /\ Makes(r, "deleteCategory") =>
              r \in On(Target(r), "removeCategory") /\ Lost(Target(r))
<1>1. Begun(r) BY DEF Control, Active
<1>2. todo[r] \subseteq Route(job[r]) /\ job[r].kind \in Kinds BY <1>1, RouteOf
<1>3. \A s : Makes(r, s) => s \in Route(job[r]) BY <1>2 DEF Makes, At
<1>4. Makes(r, "delete") => r \in On(Target(r), "removeProduct")
  BY <1>2, <1>3, RouteFacts DEF On, OfKind
<1>5. Makes(r, "unlink") => job[r].kind = "updateProduct" /\ job[r].relink
  BY <1>2, <1>3, RouteFacts
<1>6. Makes(r, "unlink") => Refiled(Target(r)) BY <1>5 DEF Refiled, On, OfKind
<1>7. Makes(r, "deleteCategory") => r \in On(Target(r), "removeCategory")
  BY <1>2, <1>3, RouteFacts DEF On, OfKind
<1> QED BY <1>4, <1>5, <1>6, <1>7 DEF Lost

LEMMA LinksKept ==
  ASSUME IInv, NEW r \in Requests, Control(r), Filing(r), NEW p, NEW l \in LinksOf(p)
  PROVE  \/ l \in links' \/ Lost(l.category)
         \/ p = Target(r) /\ (Makes(r, "unlink") \/ Makes(r, "delete"))
<1>1. l \in links /\ l.product = p BY DEF LinksOf
<1> QED BY <1>1, Removals DEF Filing

LEMMA WholeKept ==
  ASSUME IInv, NEW r \in Requests, Step(r), NEW d \in Requests
  PROVE  Whole(d)'
<1> USE DEF Step
<1>1. /\ On(d, "removeProduct")' = On(d, "removeProduct") /\ Refiled(d)' = Refiled(d)
      /\ \A x : Lost(x)' = Lost(x)
      /\ job' = job
  BY HistoryKept DEF Control
<1> SUFFICES ASSUME Made(d, "insert")', On(d, "removeProduct") = {}
             PROVE  /\ d \in DOMAIN products'
                    /\ Made(d, "variants")' => <<d, d>> \in variants'
                    /\ Made(d, "profile")' => \E q \in profiles' : q.by = d
                    /\ Made(d, "link")' => \A x \in job[d].links :
                         (\E l \in LinksOf(d)' : l.category = x) \/ Lost(x) \/ Refiled(d)
  BY <1>1 DEF Whole
<1>2. Makes(r, "delete") => Target(r) # d BY Removals
<1>3. Makes(r, "unlink") => Target(r) # d \/ Refiled(d) BY Removals
\* What was there stays there.
<1>4. /\ d \in DOMAIN products => d \in DOMAIN products'
      /\ <<d, d>> \in variants => <<d, d>> \in variants'
      /\ (\E q \in profiles : q.by = d) => \E q \in profiles' : q.by = d
      /\ \A x : (\E l \in LinksOf(d) : l.category = x) =>
           (\E l \in LinksOf(d)' : l.category = x) \/ Lost(x) \/ Refiled(d)
  <2>1. d \in DOMAIN products => d \in DOMAIN products' BY <1>2 DEF Products
  <2>2. <<d, d>> \in variants => <<d, d>> \in variants' BY <1>2 DEF Extras
  <2>3. (\E q \in profiles : q.by = d) => \E q \in profiles' : q.by = d BY DEF Extras
  <2>4. \A x : (\E l \in LinksOf(d) : l.category = x) =>
           (\E l \in LinksOf(d)' : l.category = x) \/ Lost(x) \/ Refiled(d)
    BY <1>2, <1>3, LinksKept DEF LinksOf
  <2> QED BY <2>1, <2>2, <2>3, <2>4
<1>5. CASE d # r
  <2>1. \A s : Made(d, s)' = Made(d, s) BY <1>5, OthersKept
  <2>2. Whole(d) BY DEF IInv, Promises
  <2> QED BY <2>1, <2>2, <1>4 DEF Whole
<1>6. CASE d = r
  <2>1. Begun(r) /\ todo[r] \subseteq Route(job[r]) /\ job[r].kind \in Kinds /\ Routed(r)
    BY RouteOf DEF Control, Active, IInv
  <2>2. "insert" \in Route(job[r]) BY <1>1, <1>6 DEF Made
  <2>3. job[r].kind = "createProduct" BY <2>1, <2>2, RouteFacts
  <2>4. Target(r) = r BY <2>3 DEF Target, Creates
  <2>5. CASE Makes(r, "insert")
    <3>1. "insert" \in todo[r] BY <2>5 DEF Makes, At
    <3>2. todo[r] = Route(job[r]) BY <3>1, <2>1 DEF Routed
    <3>3. \A s : Makes(r, s) => s = "insert"
      BY <3>1, <3>2, <2>1, <2>3, RouteFacts, Earlier DEF Makes
    <3>4. \A s \in {"variants", "profile", "link"} : ~Made(r, s)'
      BY <3>2, <3>3, OwnMade DEF Made
    <3>5. r \in DOMAIN products' BY <2>4, <2>5 DEF Products
    <3> QED BY <1>6, <3>4, <3>5
  <2>6. CASE ~Makes(r, "insert")
    <3>1. Made(r, "insert") BY <1>6, <2>6, OwnMade
    <3>2. Whole(r) BY DEF IInv, Promises
    <3>3. r \in DOMAIN products' BY <3>1, <3>2, <1>4, <1>6 DEF Whole
    <3>4. Made(r, "variants")' => <<r, r>> \in variants'
      <4>1. CASE Makes(r, "variants") BY <4>1, <2>4 DEF Extras
      <4>2. CASE ~Makes(r, "variants") BY <4>2, <3>1, <3>2, <1>4, <1>6, OwnMade DEF Whole
      <4> QED BY <4>1, <4>2
    <3>5. Made(r, "profile")' => \E q \in profiles' : q.by = r
      <4>1. CASE Makes(r, "profile") BY <4>1, <2>3 DEF Extras
      <4>2. CASE ~Makes(r, "profile") BY <4>2, <3>1, <3>2, <1>4, <1>6, OwnMade DEF Whole
      <4> QED BY <4>1, <4>2
    <3>6. Made(r, "link")' => \A x \in job[r].links :
            (\E l \in LinksOf(r)' : l.category = x) \/ Lost(x) \/ Refiled(r)
      <4>1. CASE Makes(r, "link")
        <5> SUFFICES ASSUME NEW x \in job[r].links
                     PROVE  \E l \in LinksOf(r)' : l.category = x
          OBVIOUS
        <5>1. [product |-> r, category |-> x, by |-> r] \in links' BY <4>1, <2>4 DEF Filing
        <5> QED BY <5>1 DEF LinksOf
      <4>2. CASE ~Makes(r, "link") BY <4>2, <3>1, <3>2, <1>4, <1>6, OwnMade DEF Whole
      <4> QED BY <4>1, <4>2
    <3> QED BY <1>6, <3>3, <3>4, <3>5, <3>6
  <2> QED BY <2>5, <2>6
<1> QED BY <1>5, <1>6

\* A request that is still served did not end before another began.
LEMMA StillServed ==
  ASSUME IInv, NEW r \in Requests, Control(r), NEW d \in Requests, Begun(d), d # r
  PROVE  NotBefore(r, d) /\ r \notin before[d] /\ Begun(r)
BY DEF IInv, Timed, Control, Active, NotBefore

\* What one asks for is the kind of its statements.
LEMMA KindOf ==
  ASSUME IInv, NEW r \in Requests, Begun(r), NEW s, s \in todo[r] \/ Made(r, s)
  PROVE  /\ job[r].kind \in Kinds /\ s \in Route(job[r])
         /\ s = "insert" \/ s = "variants" => job[r].kind = "createProduct" /\ Target(r) = r
         /\ s = "save" => job[r].kind = "updateProduct" /\ r \in On(Target(r), "updateProduct")
         /\ s = "delete" => job[r].kind = "removeProduct" /\ r \in On(Target(r), "removeProduct")
         /\ s = "insertCategory" => job[r].kind = "createCategory" /\ Target(r) = r
         /\ s = "saveCategory" =>
              job[r].kind = "updateCategory" /\ r \in On(Target(r), "updateCategory")
         /\ s = "deleteCategory" =>
              job[r].kind = "removeCategory" /\ r \in On(Target(r), "removeCategory")
         /\ s = "unlink" => job[r].kind = "updateProduct" /\ job[r].relink
         /\ s = "link" =>
              \/ job[r].kind = "createProduct" /\ Target(r) = r
              \/ job[r].kind = "updateProduct" /\ job[r].relink
<1>1. job[r].kind \in Kinds /\ s \in Route(job[r]) BY RouteOf DEF Made
<1> QED BY <1>1, RouteFacts DEF On, OfKind, Target, Creates

\* A row is written anew by its insert, before anybody can name it, or by a save.
LEMMA NamedRowsAreNotNew ==
  ASSUME IInv, NEW r \in Requests, Control(r), Makes(r, "insert") \/ Makes(r, "insertCategory"),
         NEW d \in Requests, Begun(d), job[d].kind \notin Creates
  PROVE  Target(d) # Target(r)
<1>1. Begun(r) BY DEF Control, Active
<1>2. {"insert", "insertCategory"} \cap todo[r] # {} BY DEF Makes, At
<1>3. Target(r) = r BY <1>1, <1>2, KindOf
<1>4. ~Inserted(r) BY <1>2 DEF Inserted
<1> QED BY <1>3, <1>4 DEF IInv, Addresses

LEMMA HeldKept ==
  ASSUME IInv, NEW r \in Requests, Step(r), NEW d \in Requests
  PROVE  Held(d)'
<1> USE DEF Step
<1>1. Target(d)' = Target(d) /\ job' = job /\ (\A c : Disputed(d, c)' = Disputed(d, c))
      /\ Begun(d)' = Begun(d)
  BY HistoryKept DEF Control
<1>2. SUFFICES ASSUME Made(d, "save")', NEW c \in job[d].sets, Target(d) \in DOMAIN products',
                      ~Disputed(d, c)
               PROVE  products'[Target(d)][c] = d
  BY <1>1 DEF Held
<1>3. Made(d, "save") \/ (d = r /\ Makes(r, "save")) BY <1>2, OthersKept, OwnMade
<1>4. Begun(d) BY <1>1, <1>2 DEF Made
<1>5. job[d].kind = "updateProduct" /\ d \in On(Target(d), "updateProduct")
  BY <1>3, <1>4, KindOf DEF Makes, At
<1>6. c \in Columns BY <1>4 DEF IInv, Routed
<1>7. CASE d = r /\ Makes(r, "save") BY <1>7, <1>6 DEF Products
<1>8. CASE ~(d = r /\ Makes(r, "save"))
  <2>1. Made(d, "save") BY <1>3, <1>8
  <2>2. CASE Target(d) \in DOMAIN products /\ products'[Target(d)] = products[Target(d)]
    BY <2>1, <2>2, <1>2 DEF IInv, Promises, Held
  <2>3. CASE Target(d) = Target(r) /\ Makes(r, "insert")
    BY <2>3, <1>4, <1>5, NamedRowsAreNotNew DEF Creates
  <2>4. CASE Target(d) = Target(r) /\ Makes(r, "save")
    <3>1. d # r BY <1>8, <2>4
    <3>2. NotBefore(r, d) /\ Begun(r) BY <3>1, <1>4, StillServed
    <3>3. r \in On(Target(d), "updateProduct") BY <2>4, <3>2, KindOf DEF Makes, At
    <3>4. c \notin job[r].sets BY <1>2, <3>2, <3>3 DEF Disputed
    <3>5. Loaded(r) BY <2>4, SavesGoToOldRows
    <3>6. seen[r].row[c] = d BY <3>5, <2>1, <2>4, <1>2 DEF IInv, Promises, SeenHeld
    <3> QED BY <2>4, <3>4, <3>6, <1>6 DEF Products
  <2> QED BY <1>2, <2>2, <2>3, <2>4 DEF Products
<1> QED BY <1>7, <1>8

LEMMA SeenHeldKept ==
  ASSUME IInv, NEW r \in Requests, Step(r), NEW d \in Requests
  PROVE  SeenHeld(d)'
<1> USE DEF Step
<1>1. /\ \A a : Target(a)' = Target(a) /\ Begun(a)' = Begun(a)
      /\ \A a, b : Disputed(a, b)' = Disputed(a, b)
      /\ job' = job
  BY HistoryKept DEF Control
<1>2. SUFFICES ASSUME Loaded(d)', NEW u \in Requests, Made(u, "save")', Target(u) = Target(d),
                      NEW c \in job[u].sets, ~Disputed(u, c)
               PROVE  seen'[d].row[c] = u
  BY <1>1 DEF SeenHeld
<1>3. "save" \in todo'[d] /\ "save" \notin todo'[u] /\ u # d /\ Begun(d) /\ Begun(u)
  BY <1>1, <1>2 DEF Loaded, Made, Active
<1>4. "save" \in todo[d] BY <1>3 DEF Control
<1>5. CASE d # r
  <2>1. Loaded(d) /\ Active(d) BY <1>2, <1>5, OthersKept DEF Loaded
  <2>2. CASE Made(u, "save") BY <2>1, <2>2, <1>2, <1>5 DEF IInv, Promises, SeenHeld, Control
  <2>3. CASE ~Made(u, "save")
    <3>1. u = r BY <2>3, <1>2, OthersKept
    <3>2. Overlap(r, d) /\ NotBefore(d, r) BY <2>1, <1>5, TogetherOverlap DEF Control, Overlap
    <3>3. d \in On(Target(u), "updateProduct") BY <1>2, <1>3, <1>4, KindOf
    <3> QED BY <3>1, <3>2, <3>3, <1>2 DEF Disputed
  <2> QED BY <2>2, <2>3
<1>6. CASE d = r
  <2>1. Made(u, "save") BY <1>2, <1>3, <1>6, OthersKept
  <2>2. CASE Makes(r, "load")
    <3>1. Target(u) \in DOMAIN products /\ seen'[r].row = products[Target(u)]
      BY <2>2, <1>2, <1>6 DEF Memory
    <3> QED BY <2>1, <3>1, <1>2, <1>6 DEF IInv, Promises, Held
  <2>3. CASE ~Makes(r, "load")
    <3>1. Loaded(r) BY <2>3, <1>2, <1>6, OwnMade
    <3> QED BY <2>1, <2>3, <3>1, <1>2, <1>6 DEF IInv, Promises, SeenHeld, Memory
  <2> QED BY <2>2, <2>3
<1> QED BY <1>5, <1>6

LEMMA FiledKept ==
  ASSUME IInv, NEW r \in Requests, Step(r), NEW d \in Requests
  PROVE  Filed(d)'
<1> USE DEF Step
<1>1. /\ Target(d)' = Target(d) /\ Begun(d)' = Begun(d) /\ Undone(d)' = Undone(d)
      /\ \A x : Lost(x)' = Lost(x)
      /\ job' = job
  BY HistoryKept DEF Control
<1>2. SUFFICES ASSUME Made(d, "link")', job[d].kind = "updateProduct", NEW x \in job[d].links,
                      ~Lost(x), ~Undone(d)
               PROVE  \E l \in links' : l.product = Target(d) /\ l.category = x
  BY <1>1 DEF Filed, LinksOf
<1>3. Begun(d) BY <1>1, <1>2 DEF Made
<1>4. CASE d = r /\ Makes(r, "link")
  <2>1. [product |-> Target(d), category |-> x, by |-> d] \in links' BY <1>4 DEF Filing
  <2> QED BY <2>1
<1>5. CASE ~(d = r /\ Makes(r, "link"))
  <2>1. Made(d, "link") BY <1>2, <1>5, OthersKept, OwnMade
  <2>2. PICK l \in LinksOf(Target(d)) : l.category = x
    BY <2>1, <1>2 DEF IInv, Promises, Filed
  <2>3. CASE Target(d) = Target(r) /\ (Makes(r, "unlink") \/ Makes(r, "delete"))
    <3>1. job[r].kind = "removeProduct" \/ (job[r].kind = "updateProduct" /\ job[r].relink)
      BY <2>3, KindOf DEF Makes, At, Control, Active
    <3>2. CASE d = r
      <4>1. "unlink" \in todo[r] BY <3>2, <2>3, <1>2, <1>3, KindOf DEF Makes, At
      <4>2. "link" \in todo[r] BY <4>1, <3>2, <2>1, <1>3 DEF IInv, Routed, Made
      <4> QED BY <4>2, <3>2, <2>1 DEF Made
    <3>3. CASE d # r
      <4>1. NotBefore(r, d) BY <3>3, <1>3, StillServed
      <4> QED BY <4>1, <3>1, <2>3, <1>2 DEF Undone
    <3> QED BY <3>2, <3>3
  <2>4. CASE ~(Target(d) = Target(r) /\ (Makes(r, "unlink") \/ Makes(r, "delete")))
    <3>1. l \in links' BY <2>2, <2>4, <1>2, LinksKept
    <3> QED BY <3>1, <2>2 DEF LinksOf
  <2> QED BY <2>3, <2>4
<1> QED BY <1>4, <1>5

\* What a request links to finds no link of one that ended before it began.
LEMMA LinksApartKept ==
  ASSUME IInv, NEW r \in Requests, Step(r)
  PROVE  LinksAreOfOneRequest'
<1> USE DEF Step
<1>1. \A a, b : Overlap(a, b)' = Overlap(a, b) BY HistoryKept DEF Control
<1>2. Nobody \notin Requests BY CatalogueAssumption
<1>3. \A a, b : Overlap(a, b) => Overlap(b, a) BY DEF Overlap
<1>4. ASSUME NEW k \in links', NEW l \in links', k.product = l.product
      PROVE  k.by = l.by \/ (Nobody \notin {k.by, l.by} /\ Overlap(k.by, l.by))
  <2>1. CASE k \in links /\ l \in links BY <2>1, <1>4 DEF IInv, LinksAreOfOneRequest
  <2>2. CASE k \notin links /\ l \notin links BY <2>2, <1>4 DEF Filing
  <2>3. ASSUME NEW m \in links, NEW n \in links' \ links, m.product = n.product
        PROVE  n.by = r /\ m.by \in Requests /\ Overlap(m.by, r)
    <3>1. Makes(r, "link") /\ n.by = r /\ n.product = Target(r) BY DEF Filing
    <3>2. Active(r) /\ "link" \in todo[r] /\ "unlink" \notin todo[r]
      BY <3>1, Earlier DEF Makes, At, Control
    <3>3. m \in LinksOf(Target(r)) BY <3>1, <2>3 DEF LinksOf
    <3> QED BY <3>1, <3>2, <3>3 DEF IInv, Promises, Cleared
  <2> QED BY <1>2, <1>3, <1>4, <2>1, <2>2, <2>3
<1> QED BY <1>1, <1>4 DEF LinksAreOfOneRequest

LEMMA ClearedKept ==
  ASSUME IInv, NEW r \in Requests, Step(r), NEW d \in Requests
  PROVE  Cleared(d)'
<1> USE DEF Step
<1>1. Target(d)' = Target(d) /\ \A a : Overlap(a, d)' = Overlap(a, d)
  BY HistoryKept DEF Control
<1>2. SUFFICES ASSUME Active(d)', "link" \in todo'[d], "unlink" \notin todo'[d],
                      NEW l \in links', l.product = Target(d)
               PROVE  l.by \in Requests /\ Overlap(l.by, d)
  BY <1>1 DEF Cleared, LinksOf
<1>3. CASE d # r
  <2>1. Active(d) /\ Cleared(d) /\ todo'[d] = todo[d]
    BY <1>2, <1>3, OthersKept DEF IInv, Promises, Control
  <2>2. CASE l \in links BY <2>1, <2>2, <1>2 DEF Cleared, LinksOf
  <2>3. CASE l \notin links
    <3>1. l.by = r BY <2>3, <1>2 DEF Filing
    <3> QED BY <3>1, <2>1, <1>3, TogetherOverlap DEF Control
  <2> QED BY <2>2, <2>3
<1>4. CASE d = r
  <2>1. ~Makes(r, "link") BY <1>2, <1>4 DEF Makes
  <2>2. l \in links /\ Active(r) /\ "link" \in todo[r] BY <2>1, <1>2, <1>4 DEF Filing, Control
  <2>3. CASE "unlink" \in todo[r]
    <3>1. answer'[r] = None BY <1>2, <1>4, OwnMade
    <3>2. Makes(r, "unlink") BY <3>1, <2>3, <1>2, <1>4 DEF Control
    <3> QED BY <3>2, <1>2, <1>4 DEF Filing
  <2>4. CASE "unlink" \notin todo[r]
    BY <2>2, <2>4, <1>2, <1>4 DEF IInv, Promises, Cleared, LinksOf
  <2> QED BY <2>3, <2>4
<1> QED BY <1>3, <1>4

LEMMA GoneKept ==
  ASSUME IInv, NEW r \in Requests, Step(r), NEW d \in Requests
  PROVE  Gone(d)'
<1> USE DEF Step
<1>1. /\ Target(d)' = Target(d) /\ Begun(d)' = Begun(d) /\ \A k : Restored(d, k)' = Restored(d, k)
      /\ \A a : Overlap(a, d)' = Overlap(a, d)
  BY HistoryKept DEF Control
<1>2. ASSUME Made(d, "delete")'
      PROVE  /\ Target(d) \in DOMAIN products' => Restored(d, "updateProduct")
             /\ \A v \in variants' : v[1] = Target(d) => v[2] \in Requests /\ Overlap(v[2], d)
  <2>1. CASE d = r /\ Makes(r, "delete") BY <2>1 DEF Products, Extras
  <2>2. CASE ~(d = r /\ Makes(r, "delete"))
    <3>1. Made(d, "delete") /\ Begun(d) BY <1>1, <1>2, <2>2, OthersKept, OwnMade DEF Made
    <3>2. job[d].kind = "removeProduct" BY <3>1, KindOf
    <3>3. /\ Target(d) \in DOMAIN products => Restored(d, "updateProduct")
          /\ \A v \in VariantsOf(Target(d)) : v[2] \in Requests /\ Overlap(v[2], d)
      BY <3>1 DEF IInv, Promises, Gone
    <3>4. ASSUME Target(d) \in DOMAIN products' PROVE Restored(d, "updateProduct")
      <4>1. CASE Target(d) \in DOMAIN products BY <4>1, <3>3
      <4>2. CASE Target(d) = Target(r) /\ Makes(r, "insert")
        BY <4>2, <3>1, <3>2, NamedRowsAreNotNew DEF Creates
      <4>3. CASE Target(d) = Target(r) /\ Makes(r, "save")
        <5>1. Loaded(r) BY <4>3, SavesGoToOldRows
        <5> QED BY <5>1, <4>3, <3>1 DEF IInv, Promises, SeenGone
      <4> QED BY <3>4, <4>1, <4>2, <4>3 DEF Products
    <3>5. ASSUME NEW v \in variants', v[1] = Target(d) PROVE v[2] \in Requests /\ Overlap(v[2], d)
      <4>1. CASE v \in variants BY <4>1, <3>3, <3>5 DEF VariantsOf
      <4>2. CASE v \notin variants
        <5>1. Makes(r, "variants") /\ v = <<Target(r), r>> BY <4>2, <3>5 DEF Extras
        <5>2. Begun(r) BY DEF Control, Active
        <5>3. Target(r) = r /\ job[r].kind = "createProduct"
          BY <5>1, <5>2, KindOf DEF Makes, At
        <5>4. Target(d) = r /\ d # r BY <5>1, <5>3, <3>2, <3>5
        <5>5. r \notin before[d] BY <5>4, <3>1, StillServed
        <5>6. d \notin before[r] BY <5>4, <3>1, <3>2 DEF IInv, Addresses, Creates
        <5> QED BY <5>1, <5>2, <5>4, <5>5, <5>6, <3>1 DEF Overlap
      <4> QED BY <4>1, <4>2
    <3> QED BY <3>4, <3>5
  <2> QED BY <2>1, <2>2
<1>3. ASSUME Made(d, "deleteCategory")', Target(d) \in DOMAIN categories'
      PROVE  Restored(d, "updateCategory")
  <2>1. CASE d = r /\ Makes(r, "deleteCategory") BY <2>1, <1>3 DEF Shelves
  <2>2. CASE ~(d = r /\ Makes(r, "deleteCategory"))
    <3>1. Made(d, "deleteCategory") /\ Begun(d) BY <1>1, <1>3, <2>2, OthersKept, OwnMade DEF Made
    <3>2. job[d].kind = "removeCategory" BY <3>1, KindOf
    <3>3. CASE Target(d) \in DOMAIN categories BY <3>1, <3>3 DEF IInv, Promises, Gone
    <3>4. CASE Target(d) = Target(r) /\ Makes(r, "insertCategory")
      BY <3>4, <3>1, <3>2, NamedRowsAreNotNew DEF Creates
    <3>5. CASE Target(d) = Target(r) /\ Makes(r, "saveCategory")
      <4>1. Found(r) BY <3>5, SavesGoToOldRows
      <4> QED BY <4>1, <3>5, <3>1 DEF IInv, Promises, SeenGone
    <3> QED BY <1>3, <3>3, <3>4, <3>5 DEF Shelves
  <2> QED BY <2>1, <2>2
<1> QED BY <1>1, <1>2, <1>3 DEF Gone, VariantsOf

LEMMA SeenGoneKept ==
  ASSUME IInv, NEW r \in Requests, Step(r), NEW e \in Requests
  PROVE  SeenGone(e)'
<1> USE DEF Step
<1>1. /\ \A a : Target(a)' = Target(a) /\ Begun(a)' = Begun(a)
      /\ \A a, b : Restored(a, b)' = Restored(a, b)
  BY HistoryKept DEF Control
<1>2. \A a, b : Overlap(a, b) => Overlap(b, a) BY DEF Overlap
<1>3. ASSUME Loaded(e)', NEW d \in Requests, Made(d, "delete")', Target(d) = Target(e)
      PROVE  Restored(d, "updateProduct")
  <2>1. "save" \in todo[e] /\ Begun(e) /\ Begun(d)
    BY <1>1, <1>3 DEF Loaded, Active, Made, Control
  <2>2. job[e].kind = "updateProduct" /\ e \in On(Target(d), "updateProduct")
    BY <2>1, <1>3, KindOf
  <2>3. CASE d = r /\ Makes(r, "delete")
    <3>1. job[r].kind = "removeProduct" BY <2>1, <2>3, KindOf DEF Makes, At
    <3>2. e # r BY <3>1, <2>2
    <3>3. Active(e) BY <3>2, <1>3, OthersKept DEF Loaded
    <3>4. Overlap(r, e) BY <3>2, <3>3, TogetherOverlap DEF Control
    <3> QED BY <3>4, <2>2, <2>3 DEF Restored
  <2>4. CASE ~(d = r /\ Makes(r, "delete"))
    <3>1. Made(d, "delete") BY <1>3, <2>4, OthersKept, OwnMade
    <3>2. CASE Loaded(e) BY <3>1, <3>2, <1>3 DEF IInv, Promises, SeenGone
    <3>3. CASE ~Loaded(e)
      <4>1. e = r /\ Makes(r, "load") BY <3>3, <1>3, OthersKept, OwnMade
      <4>2. Target(d) \in DOMAIN products BY <4>1, <1>3 DEF Memory
      <4> QED BY <4>2, <3>1 DEF IInv, Promises, Gone
    <3> QED BY <3>2, <3>3
  <2> QED BY <2>3, <2>4
<1>4. ASSUME Found(e)', NEW d \in Requests, Made(d, "deleteCategory")', Target(d) = Target(e)
      PROVE  Restored(d, "updateCategory")
  <2>1. "saveCategory" \in todo[e] /\ Begun(e) /\ Begun(d)
    BY <1>1, <1>4 DEF Found, Active, Made, Control
  <2>2. job[e].kind = "updateCategory" /\ e \in On(Target(d), "updateCategory")
    BY <2>1, <1>4, KindOf
  <2>3. CASE d = r /\ Makes(r, "deleteCategory")
    <3>1. job[r].kind = "removeCategory" BY <2>1, <2>3, KindOf DEF Makes, At
    <3>2. e # r BY <3>1, <2>2
    <3>3. Active(e) BY <3>2, <1>4, OthersKept DEF Found
    <3>4. Overlap(r, e) BY <3>2, <3>3, TogetherOverlap DEF Control
    <3> QED BY <3>4, <2>2, <2>3 DEF Restored
  <2>4. CASE ~(d = r /\ Makes(r, "deleteCategory"))
    <3>1. Made(d, "deleteCategory") BY <1>4, <2>4, OthersKept, OwnMade
    <3>2. CASE Found(e) BY <3>1, <3>2, <1>4 DEF IInv, Promises, SeenGone
    <3>3. CASE ~Found(e)
      <4>1. e = r /\ Makes(r, "find") BY <3>3, <1>4, OthersKept, OwnMade
      <4>2. Target(d) \in DOMAIN categories BY <4>1, <1>4 DEF Memory
      <4> QED BY <4>2, <3>1 DEF IInv, Promises, Gone
    <3> QED BY <3>2, <3>3
  <2> QED BY <2>3, <2>4
<1> QED BY <1>1, <1>3, <1>4 DEF SeenGone

LEMMA KnownKept ==
  ASSUME IInv, NEW r \in Requests, Step(r)
  PROVE  Known'
<1> USE DEF Step
<1>1. (\A x : Lost(x)' = Lost(x)) /\ job' = job BY HistoryKept DEF Control
<1>2. \A x \in DOMAIN categories : x \in DOMAIN categories' \/ Lost(x)
  BY Removals DEF Shelves
<1> QED BY <1>1, <1>2 DEF IInv, Known

\* Nobody else's step is made while a request that overlaps nobody is served.
LEMMA QuietKept ==
  ASSUME IInv, NEW r \in Requests, Step(r), NEW d \in Requests
  PROVE  Quiet(d)'
<1> USE DEF Step
<1>1. Target(d)' = Target(d) /\ Alone(d)' = Alone(d) /\ job' = job
  BY HistoryKept DEF Control
<1>2. SUFFICES ASSUME Active(d)', Alone(d) PROVE Quiet(d)'
  BY <1>1 DEF Quiet
<1>3. d = r BY <1>2, OthersKept, TogetherOverlap DEF Control
<1>4. Active(r) /\ Quiet(r) /\ Begun(r) /\ Alone(r) BY <1>2, <1>3 DEF Control, IInv, Active
<1>5. answer'[r] = None /\ \A s \in todo[r] \ todo'[r] :
        Makes(r, s) \/ (s = "slug" /\ Makes(r, "find") /\ job[r].kind # "createCategory")
  BY <1>2, <1>3, OwnMade DEF Control
<1>6. todo'[r] \subseteq todo[r] BY DEF Control
<1>7. \A s : Makes(r, s) => s \in todo[r] /\ s \notin todo'[r] BY DEF Makes, At
<1>8. ASSUME job[r].kind = "createProduct", "insert" \notin todo'[r] PROVE r \in DOMAIN products'
  <2>1. Target(r) = r BY <1>8 DEF Target, Creates
  <2>2. ~Makes(r, "delete") BY <1>4, <1>7, <1>8, KindOf
  <2>3. r \in DOMAIN products \/ Makes(r, "insert") BY <1>4, <1>5, <1>8 DEF Quiet
  <2> QED BY <2>1, <2>2, <2>3 DEF Products
<1>9. ASSUME job[r].kind = "updateProduct", "save" \notin todo'[r]
      PROVE  Target(r) \in DOMAIN products'
  <2>1. ~Makes(r, "delete") BY <1>4, <1>7, <1>9, KindOf
  <2>2. Target(r) \in DOMAIN products \/ Makes(r, "save") BY <1>4, <1>5, <1>9 DEF Quiet
  <2> QED BY <2>1, <2>2 DEF Products
<1>10. ASSUME Loaded(r)'
       PROVE  /\ {l \in links' : l.product = Target(r)} \subseteq seen'[r].links
              /\ {v \in variants' : v[1] = Target(r)} \subseteq seen'[r].variants
  <2>1. "save" \in todo[r] BY <1>6, <1>10 DEF Loaded
  <2>2. ~Makes(r, "link") /\ ~Makes(r, "variants") BY <2>1, Earlier DEF Makes
  <2>3. links' \subseteq links /\ variants' \subseteq variants BY <2>2 DEF Filing, Extras
  <2>4. LinksOf(Target(r)) \subseteq seen'[r].links /\ VariantsOf(Target(r)) \subseteq seen'[r].variants
    <3>1. CASE Makes(r, "load") BY <3>1 DEF Memory
    <3>2. CASE ~Makes(r, "load") BY <3>2, <1>4, <1>10, OwnMade DEF Memory, Quiet, Unlost
    <3> QED BY <3>1, <3>2
  <2> QED BY <2>3, <2>4 DEF LinksOf, VariantsOf
<1>11. ASSUME {"insertCategory", "saveCategory"} \cap todo'[r] # {}, "slug" \notin todo'[r]
       PROVE  \A x \in DOMAIN categories' \ {Target(r)} :
                Text(categories'[x].slug) # Text(entry'[r].slug)
  <2>1. {"insertCategory", "saveCategory"} \cap todo[r] # {} BY <1>6, <1>11
  <2>2. job[r].kind \in {"createCategory", "updateCategory"} BY <2>1, <1>4, KindOf
  <2>3. ~Makes(r, "insertCategory") /\ ~Makes(r, "saveCategory")
    <3>1. "insertCategory" \in todo[r] => job[r].kind = "createCategory" BY <1>4, KindOf
    <3>2. "saveCategory" \in todo[r] => job[r].kind = "updateCategory" BY <1>4, KindOf
    <3> QED BY <3>1, <3>2, <1>6, <1>7, <1>11
  <2>4. \A x \in DOMAIN categories' : x \in DOMAIN categories /\ categories'[x] = categories[x]
    BY <2>3 DEF Shelves
  <2>5. CASE Makes(r, "find")
    <3>1. job[r].kind = "updateCategory"
      BY <2>2, <2>5, <1>4, <1>7, KindOf, RouteFacts
    <3>2. Target(r) \in DOMAIN categories /\ entry'[r] = categories[Target(r)]
      BY <2>5, <3>1, <1>11 DEF Memory
    <3> QED BY <3>2, <2>4 DEF IInv, TypeOK
  <2>6. CASE ~Makes(r, "find")
    <3>1. entry'[r] = entry[r] BY <2>6, <1>11 DEF Memory
    <3>2. CASE "slug" \in todo[r]
      <4>1. ~Taken(entry[r].slug, DOMAIN categories) BY <3>2, <2>6, <1>5, <1>11 DEF Memory
      <4> QED BY <4>1, <3>1, <2>4 DEF Taken
    <3>3. CASE "slug" \notin todo[r]
      <4>1. ~Taken(entry[r].slug, DOMAIN categories \ {Target(r)})
        BY <3>3, <2>1, <1>4 DEF Quiet
      <4> QED BY <4>1, <3>1, <2>4 DEF Taken
    <3> QED BY <3>2, <3>3
  <2> QED BY <2>5, <2>6
<1> QED BY <1>1, <1>3, <1>8, <1>9, <1>10, <1>11
        DEF Quiet, Unlost, LinksOf, VariantsOf, Taken

LEMMA CauseKept ==
  ASSUME IInv, NEW r \in Requests, Step(r), NEW d \in Requests
  PROVE  Cause(d)'
<1> USE DEF Step
<1>1. Alone(d)' = Alone(d) /\ (\A x : Lost(x)' = Lost(x)) /\ job' = job
  BY HistoryKept DEF Control
<1>2. CASE d # r BY <1>1, <1>2 DEF IInv, Cause, Control
<1>3. CASE d = r
  <2>1. SUFFICES ASSUME Refused(r), job[r].profile # "slugless", job[r].variants # "nameless",
                        Alone(r), \A x \in job[r].links : ~Lost(x)
                 PROVE  FALSE
    BY <1>1, <1>3 DEF Cause, Control
  <2>2. Active(r) /\ Begun(r) /\ Quiet(r) /\ Routed(r) BY DEF Control, IInv, Active
  <2>3. \A s : At(r, s) => s \in todo[r] /\ s \in Route(job[r]) /\ job[r].kind \in Kinds
    BY <2>2, KindOf DEF At
  <2>4. ASSUME At(r, "link") \/ At(r, "variants") PROVE Target(r) \in DOMAIN products
    <3>1. {"insert", "save"} \cap todo[r] = {} BY <2>4, Earlier
    <3>2. \/ job[r].kind = "createProduct" /\ Target(r) = r
          \/ job[r].kind = "updateProduct"
      BY <2>2, <2>3, <2>4, KindOf
    <3> QED BY <3>1, <3>2, <2>1, <2>2 DEF Quiet
  <2>5. CASE At(r, "profile") /\ job[r].profile # "slugged"
    <3>1. job[r].profile # None BY <2>3, <2>5, RouteFacts
    <3> QED BY <3>1, <2>1, <2>2, <2>5 DEF Routed
  <2>6. CASE At(r, "link") /\ ~(/\ Target(r) \in DOMAIN products
                                /\ job[r].links \subseteq DOMAIN categories
                                /\ \A l \in LinksOf(Target(r)) : l.category \notin job[r].links)
    <3>1. job[r].links \subseteq DOMAIN categories BY <2>1 DEF IInv, Known
    <3>2. "link" \in todo[r] /\ "unlink" \notin todo[r] BY <2>3, <2>6, Earlier
    <3>3. \A l \in LinksOf(Target(r)) : l.by \in Requests /\ Overlap(l.by, r)
      BY <3>2, <2>2 DEF IInv, Promises, Cleared
    <3>4. \A l \in LinksOf(Target(r)) : FALSE BY <3>3, <2>1 DEF Alone, Overlap
    <3> QED BY <3>1, <3>4, <2>4, <2>6
  <2>7. CASE At(r, "variants") /\ ~(job[r].variants = "named" /\ Target(r) \in DOMAIN products)
    <3>1. job[r].variants # None BY <2>3, <2>7, RouteFacts
    <3> QED BY <3>1, <2>1, <2>2, <2>4, <2>7 DEF Routed
  <2>8. CASE At(r, "save") /\ ~Unlost(r, Target(r))
    <3>1. Loaded(r) BY <2>2, <2>3, <2>8, Earlier DEF Loaded
    <3> QED BY <3>1, <2>1, <2>2, <2>8 DEF Quiet
  <2>9. CASE /\ At(r, "insertCategory") \/ At(r, "saveCategory")
             /\ Taken(entry[r].slug, DOMAIN categories \ {Target(r)})
    <3>1. {"insertCategory", "saveCategory"} \cap todo[r] # {} /\ "slug" \notin todo[r]
      BY <2>3, <2>9, Earlier
    <3> QED BY <3>1, <2>1, <2>2, <2>9 DEF Quiet
  <2> QED BY <2>1, <2>5, <2>6, <2>7, <2>8, <2>9 DEF Refused
<1> QED BY <1>2, <1>3

LEMMA StepKeeps ==
  ASSUME IInv, NEW r \in Requests, Step(r)
  PROVE  IInv'
<1>1. Control(r) BY DEF Step
<1>2. /\ Functions' /\ Timed'
      /\ \A d \in Requests : Routed(d)' /\ Addresses(d)'
  BY <1>1, ControlKept
<1>3. TypeOK' /\ NewRows' /\ Known' /\ LinksAreOfOneRequest'
  BY TypeKept, NewRowsKept, KnownKept, LinksApartKept
<1>4. ASSUME NEW d \in Requests
      PROVE  /\ Whole(d)' /\ Held(d)' /\ SeenHeld(d)' /\ Filed(d)' /\ Cleared(d)'
             /\ Gone(d)' /\ SeenGone(d)' /\ Quiet(d)' /\ Cause(d)'
  BY WholeKept, HeldKept, SeenHeldKept, FiledKept, ClearedKept, GoneKept, SeenGoneKept,
     QuietKept, CauseKept
<1> QED BY <1>2, <1>3, <1>4 DEF IInv, Promises

-----------------------------------------------------------------------------
(* Every action is a step                                                  *)

OthersUntouched(r) ==
  /\ job' = job /\ before' = before /\ DOMAIN seen' = Requests /\ DOMAIN entry' = Requests
  /\ \A d \in Requests \ {r} : seen'[d] = seen[d] /\ entry'[d] = entry[d]

\* A request with a statement to make is served.
LEMMA Served ==
  ASSUME IInv, NEW r \in Requests, todo[r] # {}
  PROVE  Active(r) /\ Begun(r) /\ answer[r] = None
BY DEF IInv, Routed, Active, Ended

LEMMA MemKeptIsUntouched ==
  ASSUME IInv, NEW r, UNCHANGED <<mem, job, before>>
  PROVE  OthersUntouched(r)
BY DEF IInv, Functions, OthersUntouched, mem

LEMMA DoneControls ==
  ASSUME IInv, NEW r \in Requests, NEW s, At(r, s), Done(r, s), OthersUntouched(r)
  PROVE  Control(r) /\ Makes(r, s) /\ (\A t : Makes(r, t) => t = s) /\ todo'[r] = todo[r] \ {s}
<1>1. Active(r) /\ answer[r] = None /\ s \in todo[r] BY Served DEF At
<1>2. /\ DOMAIN job' = Requests /\ DOMAIN seen' = Requests /\ DOMAIN entry' = Requests
      /\ DOMAIN before' = Requests /\ DOMAIN todo = Requests /\ DOMAIN answer = Requests
      /\ answer \in [Requests -> Answers]
  BY DEF IInv, Functions, OthersUntouched, TypeOK, Answers
<1>3. CASE todo[r] = {s}
  <2>1. /\ todo' = [todo EXCEPT ![r] = {}] /\ answer' = [answer EXCEPT ![r] = "ok"]
    BY <1>3 DEF Done, Stop
  <2>2. todo'[r] = {} /\ answer'[r] = "ok" BY <2>1, <1>2
  <2>3. Makes(r, s) /\ (\A t : Makes(r, t) => t = s) BY <2>2, <1>3 DEF Makes, At
  <2>4. Functions' BY <1>2, <2>1 DEF Functions
  <2>5. answer' \in [Requests -> Answers] BY <1>2, <2>1 DEF Answers
  <2>6. \A d \in Requests \ {r} : todo'[d] = todo[d] /\ answer'[d] = answer[d] BY <1>2, <2>1
  <2> QED BY <1>1, <1>3, <2>2, <2>3, <2>4, <2>5, <2>6 DEF Control, OthersUntouched, None
<1>4. CASE todo[r] # {s}
  <2>1. todo' = [todo EXCEPT ![r] = @ \ {s}] /\ answer' = answer BY <1>4 DEF Done
  <2>2. todo'[r] = todo[r] \ {s} /\ answer'[r] = None /\ todo'[r] # {} BY <2>1, <1>1, <1>2, <1>4
  <2>3. Makes(r, s) /\ (\A t : Makes(r, t) => t = s) BY <2>2 DEF Makes, At
  <2>4. Functions' BY <1>2, <2>1 DEF Functions
  <2>5. answer' \in [Requests -> Answers] BY <1>2, <2>1
  <2>6. \A d \in Requests \ {r} : todo'[d] = todo[d] /\ answer'[d] = answer[d] BY <1>2, <2>1
  <2> QED BY <1>1, <2>2, <2>3, <2>4, <2>5, <2>6 DEF Control, OthersUntouched, None
<1> QED BY <1>3, <1>4

LEMMA StopControls ==
  ASSUME IInv, NEW r \in Requests, todo[r] # {}, NEW how \in {"missing", "refused", "failed"},
         Stop(r, how), how = "failed" => Refused(r), OthersUntouched(r)
  PROVE  Control(r) /\ \A t : ~Makes(r, t)
<1>1. Active(r) /\ answer[r] = None BY Served
<1>2. /\ DOMAIN job' = Requests /\ DOMAIN seen' = Requests /\ DOMAIN entry' = Requests
      /\ DOMAIN before' = Requests /\ DOMAIN todo = Requests /\ DOMAIN answer = Requests
      /\ answer \in [Requests -> Answers]
  BY DEF IInv, Functions, OthersUntouched, TypeOK, Answers
<1>3. /\ todo' = [todo EXCEPT ![r] = {}] /\ answer' = [answer EXCEPT ![r] = how] BY DEF Stop
<1>4. todo'[r] = {} /\ answer'[r] = how BY <1>2, <1>3
<1>5. \A t : ~Makes(r, t) BY <1>4 DEF Makes, None
<1>6. Functions' BY <1>2, <1>3 DEF Functions
<1>7. answer' \in [Requests -> Answers] BY <1>2, <1>3 DEF Answers
<1>8. \A d \in Requests \ {r} : todo'[d] = todo[d] /\ answer'[d] = answer[d] BY <1>2, <1>3
<1> QED BY <1>1, <1>4, <1>5, <1>6, <1>7, <1>8 DEF Control, OthersUntouched, None

\* A table that only other statements write is left alone.
LEMMA Untouched ==
  ASSUME NEW r, NEW s, \A t : Makes(r, t) => t = s
  PROVE  /\ products' = products /\ s \notin {"insert", "save", "delete"} => Products(r)
         /\ links' = links /\ s \notin {"link", "unlink", "delete", "deleteCategory"} => Filing(r)
         /\ UNCHANGED <<variants, profiles>> /\ s \notin {"variants", "profile", "delete"} =>
              Extras(r)
         /\ categories' = categories
            /\ s \notin {"insertCategory", "saveCategory", "deleteCategory"} => Shelves(r)
         /\ UNCHANGED mem /\ s \notin {"load", "find", "slug"} => Memory(r)
BY DEF Products, Filing, Extras, Shelves, Memory, mem

\* A statement that the database does not take changes nothing.
LEMMA StopIsStep ==
  ASSUME IInv, NEW r \in Requests, todo[r] # {}, NEW how \in {"missing", "refused", "failed"},
         Stop(r, how), how = "failed" => Refused(r), UNCHANGED <<rows, mem, job, before>>
  PROVE  Step(r)
<1>1. OthersUntouched(r) BY MemKeptIsUntouched
<1>2. Control(r) /\ \A t : ~Makes(r, t) BY <1>1, StopControls
<1>3. \A t : Makes(r, t) => t = "read" BY <1>2
<1>4. UNCHANGED <<products, links, variants, profiles, categories>> BY DEF rows
<1> QED BY <1>2, <1>3, <1>4, Untouched DEF Step

LEMMA InsertProductIsStep ==
  ASSUME IInv, NEW r \in Requests, InsertProduct(r)
  PROVE  Step(r)
<1>1. Control(r) /\ Makes(r, "insert") /\ \A t : Makes(r, t) => t = "insert"
  BY MemKeptIsUntouched, DoneControls DEF InsertProduct
<1>2. Target(r) = r BY <1>1, KindOf DEF Makes, At, Control, Active
<1>3. products' = Put(products, r, [c \in Columns |-> r]) BY DEF InsertProduct
<1>4. Products(r) BY <1>1, <1>2, <1>3 DEF Products, Put
<1> QED BY <1>1, <1>4, Untouched DEF Step, InsertProduct

LEMMA SaveProfileIsStep ==
  ASSUME IInv, NEW r \in Requests, SaveProfile(r)
  PROVE  Step(r)
<1>1. At(r, "profile") /\ UNCHANGED <<mem, job, before>> /\ todo[r] # {}
  BY DEF SaveProfile, At
<1>2. CASE job[r].kind = "updateProduct" /\ ProfilesOf(Target(r)) # {}
  \* No profile has a product to be found by.
  <2>1. Begun(r) BY <1>1, Served
  <2>2. Target(r) \in ProductIds BY <2>1, <1>2 DEF IInv, Addresses, Creates
  <2>3. Target(r) # Nobody BY <2>2, CatalogueAssumption DEF ProductIds
  <2> QED BY <1>2, <2>3 DEF IInv, NewRows, ProfilesOf
<1>3. CASE ~(job[r].kind = "updateProduct" /\ ProfilesOf(Target(r)) # {})
  <2>1. Constrained(r, "profile", job[r].profile = "slugged",
                    /\ profiles' = profiles \cup {ProfileOf(r)}
                    /\ UNCHANGED <<products, links, variants, categories>>)
    BY <1>3 DEF SaveProfile
  <2>2. CASE job[r].profile # "slugged"
    BY <1>1, <2>1, <2>2, StopIsStep DEF Constrained, Refused
  <2>3. CASE job[r].profile = "slugged"
    <3>1. /\ Done(r, "profile") /\ profiles' = profiles \cup {ProfileOf(r)}
          /\ UNCHANGED <<products, links, variants, categories>>
      BY <2>1, <2>3 DEF Constrained
    <3>2. Control(r) /\ \A t : Makes(r, t) => t = "profile"
      BY <1>1, <3>1, MemKeptIsUntouched, DoneControls
    <3>3. ProfileOf(r) \in profiles' /\ ProfileOf(r).by = r /\ ProfileOf(r).product = Nobody
      BY <3>1 DEF ProfileOf
    <3>4. Extras(r) BY <3>1, <3>2, <3>3 DEF Extras
    <3> QED BY <1>1, <3>1, <3>2, <3>4, Untouched DEF Step
  <2> QED BY <2>2, <2>3
<1> QED BY <1>2, <1>3

LEMMA UnlinkCategoriesIsStep ==
  ASSUME IInv, NEW r \in Requests, UnlinkCategories(r)
  PROVE  Step(r)
<1>1. Control(r) /\ Makes(r, "unlink") /\ \A t : Makes(r, t) => t = "unlink"
  BY MemKeptIsUntouched, DoneControls DEF UnlinkCategories
<1>2. links' = links \ LinksOf(Target(r)) BY DEF UnlinkCategories
<1>3. Filing(r) BY <1>1, <1>2 DEF Filing, LinksOf
<1> QED BY <1>1, <1>3, Untouched DEF Step, UnlinkCategories

LEMMA LinkCategoriesIsStep ==
  ASSUME IInv, NEW r \in Requests, LinkCategories(r)
  PROVE  Step(r)
<1> DEFINE new == [product : {Target(r)}, category : job[r].links, by : {r}]
           allowed == /\ Target(r) \in DOMAIN products
                      /\ job[r].links \subseteq DOMAIN categories
                      /\ \A l \in LinksOf(Target(r)) : l.category \notin job[r].links
<1>1. At(r, "link") /\ UNCHANGED <<mem, job, before>> /\ todo[r] # {}
  BY DEF LinkCategories, At
<1>2. Constrained(r, "link", allowed, /\ links' = links \cup new
                                      /\ UNCHANGED <<products, variants, profiles, categories>>)
  BY DEF LinkCategories
<1>3. CASE ~allowed BY <1>1, <1>2, <1>3, StopIsStep DEF Constrained, Refused
<1>4. CASE allowed
  <2>1. /\ Done(r, "link") /\ links' = links \cup new
        /\ UNCHANGED <<products, variants, profiles, categories>>
    BY <1>2, <1>4 DEF Constrained
  <2>2. Control(r) /\ Makes(r, "link") /\ \A t : Makes(r, t) => t = "link"
    BY <1>1, <2>1, MemKeptIsUntouched, DoneControls
  <2>3. Filing(r) BY <2>1, <2>2, <1>4 DEF Filing
  <2> QED BY <1>1, <2>1, <2>2, <2>3, Untouched DEF Step
<1> QED BY <1>3, <1>4

LEMMA InsertVariantsIsStep ==
  ASSUME IInv, NEW r \in Requests, InsertVariants(r)
  PROVE  Step(r)
<1> DEFINE allowed == job[r].variants = "named" /\ Target(r) \in DOMAIN products
<1>1. At(r, "variants") /\ UNCHANGED <<mem, job, before>> /\ todo[r] # {}
  BY DEF InsertVariants, At
<1>2. Constrained(r, "variants", allowed,
                  /\ variants' = variants \cup {<<Target(r), r>>}
                  /\ UNCHANGED <<products, links, profiles, categories>>)
  BY DEF InsertVariants
<1>3. CASE ~allowed BY <1>1, <1>2, <1>3, StopIsStep DEF Constrained, Refused
<1>4. CASE allowed
  <2>1. /\ Done(r, "variants") /\ variants' = variants \cup {<<Target(r), r>>}
        /\ UNCHANGED <<products, links, profiles, categories>>
    BY <1>2, <1>4 DEF Constrained
  <2>2. Control(r) /\ Makes(r, "variants") /\ \A t : Makes(r, t) => t = "variants"
    BY <1>1, <2>1, MemKeptIsUntouched, DoneControls
  <2>3. Extras(r) BY <2>1, <2>2, <1>4 DEF Extras
  <2> QED BY <1>1, <2>1, <2>2, <2>3, Untouched DEF Step
<1> QED BY <1>3, <1>4

LEMMA LoadProductIsStep ==
  ASSUME IInv, NEW r \in Requests, LoadProduct(r)
  PROVE  Step(r)
<1> DEFINE p == Target(r)
           loaded == [row |-> products[p], links |-> LinksOf(p), variants |-> VariantsOf(p)]
<1>1. PICK s \in {"load", "read"} :
        /\ At(r, s)
        /\ IF p \in DOMAIN products
           THEN /\ Done(r, s)
                /\ seen' = IF s = "load" THEN [seen EXCEPT ![r] = loaded] ELSE seen
           ELSE Stop(r, "missing") /\ UNCHANGED seen
  BY DEF LoadProduct
<1>2. UNCHANGED <<rows, entry, job, before>> /\ todo[r] # {} BY <1>1 DEF LoadProduct, At
<1>3. UNCHANGED <<products, links, variants, profiles, categories>> BY <1>2 DEF rows
<1>4. CASE p \notin DOMAIN products
  <2>1. Stop(r, "missing") /\ UNCHANGED mem BY <1>1, <1>2, <1>4 DEF mem
  <2> QED BY <2>1, <1>2, StopIsStep
<1>5. CASE p \in DOMAIN products
  <2>1. Done(r, s) /\ seen' = IF s = "load" THEN [seen EXCEPT ![r] = loaded] ELSE seen
    BY <1>1, <1>5
  <2>2. DOMAIN seen = Requests /\ DOMAIN entry = Requests BY DEF IInv, Functions
  <2>3. OthersUntouched(r) BY <2>1, <2>2, <1>2 DEF OthersUntouched
  <2>4. Control(r) /\ Makes(r, s) /\ \A t : Makes(r, t) => t = s BY <1>1, <2>1, <2>3, DoneControls
  <2>5. seen'[r] = IF s = "load" THEN loaded ELSE seen[r] BY <2>1, <2>2
  <2>6. entry'[r] = entry[r] BY <1>2
  <2>7. Memory(r) BY <1>1, <1>5, <2>4, <2>5, <2>6 DEF Memory
  <2>8. Products(r) /\ Filing(r) /\ Extras(r) /\ Shelves(r) BY <1>3, <2>4, Untouched
  <2> QED BY <2>4, <2>7, <2>8 DEF Step
<1> QED BY <1>4, <1>5

LEMMA SaveProductIsStep ==
  ASSUME IInv, NEW r \in Requests, SaveProduct(r)
  PROVE  Step(r)
<1>1. At(r, "save") /\ UNCHANGED <<mem, job, before>> /\ todo[r] # {}
  BY DEF SaveProduct, At
<1>2. Constrained(r, "save", Unlost(r, Target(r)),
                  /\ products' = Merged(r, Target(r))
                  /\ UNCHANGED <<links, variants, profiles, categories>>)
  BY DEF SaveProduct
<1>3. CASE ~Unlost(r, Target(r)) BY <1>1, <1>2, <1>3, StopIsStep DEF Constrained, Refused
<1>4. CASE Unlost(r, Target(r))
  <2>1. /\ Done(r, "save") /\ products' = Merged(r, Target(r))
        /\ UNCHANGED <<links, variants, profiles, categories>>
    BY <1>2, <1>4 DEF Constrained
  <2>2. Control(r) /\ Makes(r, "save") /\ \A t : Makes(r, t) => t = "save"
    BY <1>1, <2>1, MemKeptIsUntouched, DoneControls
  <2>3. Products(r) BY <2>1, <2>2, <1>4 DEF Products, Merged, Put
  <2> QED BY <1>1, <2>1, <2>2, <2>3, Untouched DEF Step
<1> QED BY <1>3, <1>4

LEMMA DeleteProductIsStep ==
  ASSUME IInv, NEW r \in Requests, DeleteProduct(r)
  PROVE  Step(r)
<1> DEFINE p == Target(r)
<1>1. /\ products' = [q \in DOMAIN products \ {p} |-> products[q]]
      /\ links' = links \ LinksOf(p) /\ variants' = variants \ VariantsOf(p)
      /\ profiles' = profiles \ ProfilesOf(p)
      /\ At(r, "delete") /\ Done(r, "delete") /\ UNCHANGED <<categories, mem, job, before>>
  BY DEF DeleteProduct
<1>2. Control(r) /\ Makes(r, "delete") /\ \A t : Makes(r, t) => t = "delete"
  BY <1>1, MemKeptIsUntouched, DoneControls
<1>3. Begun(r) /\ job[r].kind = "removeProduct" BY <1>2, KindOf DEF Makes, At, Control, Active
<1>4. p \in ProductIds BY <1>3 DEF IInv, Addresses, Creates
<1>5. p # Nobody BY <1>4, CatalogueAssumption DEF ProductIds
<1>6. profiles' = profiles BY <1>1, <1>5 DEF IInv, NewRows, ProfilesOf
<1>7. Products(r) BY <1>1, <1>2 DEF Products
<1>8. Filing(r) BY <1>1, <1>2 DEF Filing, LinksOf
<1>9. Extras(r) BY <1>1, <1>2, <1>6 DEF Extras, VariantsOf
<1> QED BY <1>1, <1>2, <1>7, <1>8, <1>9, Untouched DEF Step

LEMMA PublishProductIsStep ==
  ASSUME IInv, NEW r \in Requests, PublishProduct(r)
  PROVE  Step(r)
<1>1. /\ At(r, "publish") /\ todo[r] # {}
      /\ UNCHANGED <<products, links, variants, categories, mem, job, before>>
  BY DEF PublishProduct, At
<1>2. Begun(r) /\ job[r].kind = "publishProduct" BY <1>1, Served, KindOf, RouteFacts DEF At
<1>3. Target(r) \in ProductIds BY <1>2 DEF IInv, Addresses, Creates
<1>4. Target(r) # Nobody BY <1>3, CatalogueAssumption DEF ProductIds
<1>5. ProfilesOf(Target(r)) = {} BY <1>4 DEF IInv, NewRows, ProfilesOf
<1>6. profiles' = profiles BY <1>5 DEF PublishProduct
<1>7. UNCHANGED rows BY <1>1, <1>6 DEF rows
<1>8. Stop(r, "missing") \/ Stop(r, "refused") BY <1>5 DEF PublishProduct
<1> QED BY <1>1, <1>7, <1>8, StopIsStep

LEMMA FindCategoryIsStep ==
  ASSUME IInv, NEW r \in Requests, FindCategory(r)
  PROVE  Step(r)
<1> DEFINE x == Target(r)
           renamed == job[r].name \notin {None, categories[x].name}
           made == IF renamed THEN {"find"} ELSE {"find", "slug"}
           found == IF renamed THEN [name |-> job[r].name, slug |-> Slug(job[r].name, 0)]
                               ELSE categories[x]
<1>1. At(r, "find") /\ todo[r] # {} /\ "find" \in todo[r] /\ UNCHANGED <<rows, seen, job, before>>
  BY DEF FindCategory, At
<1>2. UNCHANGED <<products, links, variants, profiles, categories>> BY <1>1 DEF rows
<1>3. CASE x \notin DOMAIN categories
  <2>1. Stop(r, "missing") /\ UNCHANGED mem BY <1>1, <1>3 DEF FindCategory, mem
  <2> QED BY <2>1, <1>1, StopIsStep
<1>4. CASE x \in DOMAIN categories
  <2>1. /\ answer' = answer /\ entry' = [entry EXCEPT ![r] = found]
        /\ todo' = [todo EXCEPT ![r] = @ \ made]
    BY <1>4 DEF FindCategory
  <2>2. /\ DOMAIN job = Requests /\ DOMAIN seen = Requests /\ DOMAIN entry = Requests
        /\ DOMAIN before = Requests /\ DOMAIN todo = Requests /\ DOMAIN answer = Requests
        /\ answer \in [Requests -> Answers]
    BY DEF IInv, Functions, TypeOK, Answers
  <2>3. todo'[r] = todo[r] \ made /\ entry'[r] = found /\ answer'[r] = None
    BY <2>1, <2>2, <1>1, Served
  <2>4. todo[r] = Route(job[r]) /\ job[r].kind \in Kinds /\ Active(r) /\ Begun(r)
    BY <1>1, Served DEF IInv, Routed
  <2>5. job[r].kind \in {"updateCategory", "removeCategory"} BY <1>1, <2>4, RouteFacts
  <2>6. todo'[r] # {} BY <2>3, <2>4, <2>5, RouteFacts
  <2>7. Makes(r, "find") /\ \A t : Makes(r, t) => t = "find"
    <3>1. ~At(r, "slug") BY <1>1, Earlier
    <3>2. "find" \notin todo'[r] BY <2>3
    <3>3. \A t : t \notin {"find", "slug"} /\ t \in todo[r] => t \in todo'[r] BY <2>3
    <3>4. \A t : Makes(r, t) => t = "find" BY <3>1, <3>3 DEF Makes, At
    <3>5. Makes(r, "find") BY <1>1, <2>3, <3>2 DEF Makes
    <3> QED BY <3>4, <3>5
  <2>8. Functions' BY <1>1, <2>1, <2>2 DEF Functions
  <2>9. \A d \in Requests \ {r} : /\ todo'[d] = todo[d] /\ answer'[d] = answer[d]
                                  /\ seen'[d] = seen[d] /\ entry'[d] = entry[d]
    BY <1>1, <2>1, <2>2
  <2>10. todo[r] \ todo'[r] \subseteq {"find", "slug"} BY <2>3
  <2>11. Control(r)
    BY <1>1, <2>1, <2>2, <2>3, <2>4, <2>5, <2>6, <2>7, <2>8, <2>9, <2>10 DEF Control, None
  <2>12. Memory(r)
    <3>1. job[r].kind = "updateCategory" => "slug" \in todo[r] BY <2>4, RouteFacts
    <3>2. job[r].kind = "updateCategory" /\ "slug" \notin todo'[r] => entry'[r] = categories[x]
      BY <3>1, <2>3
    <3> QED BY <3>2, <1>1, <1>4, <2>7 DEF Memory
  <2>13. Products(r) /\ Filing(r) /\ Extras(r) /\ Shelves(r) BY <1>2, <2>7, Untouched
  <2> QED BY <2>11, <2>12, <2>13 DEF Step
<1> QED BY <1>3, <1>4

LEMMA ResolveSlugIsStep ==
  ASSUME IInv, NEW r \in Requests, ResolveSlug(r)
  PROVE  Step(r)
<1>1. At(r, "slug") /\ todo[r] # {} /\ "slug" \in todo[r] /\ UNCHANGED <<rows, seen, job, before>>
  BY DEF ResolveSlug, At
<1>2. UNCHANGED <<products, links, variants, profiles, categories>> BY <1>1 DEF rows
<1>3. DOMAIN seen = Requests /\ DOMAIN entry = Requests BY DEF IInv, Functions
<1>4. CASE Taken(entry[r].slug, DOMAIN categories)
  <2>1. /\ entry' = [entry EXCEPT ![r].slug = <<@[1], @[2] + 1>>]
        /\ UNCHANGED <<todo, answer>>
    BY <1>4 DEF ResolveSlug
  <2>2. Active(r) /\ answer[r] = None BY <1>1, Served
  <2>3. \A t : ~Makes(r, t) BY <2>1 DEF Makes, At
  <2>4. Functions' BY <1>1, <2>1 DEF IInv, Functions
  <2>5. answer' \in [Requests -> Answers] BY <2>1 DEF IInv, TypeOK, Answers
  <2>6. \A d \in Requests \ {r} : entry'[d] = entry[d] BY <2>1, <1>3
  <2>7. Control(r) BY <1>1, <2>1, <2>2, <2>4, <2>5, <2>6 DEF Control, None
  <2>8. \A t : Makes(r, t) => t = "read" BY <2>3
  <2>9. Products(r) /\ Filing(r) /\ Extras(r) /\ Shelves(r) BY <1>2, <2>8, Untouched
  <2>10. Memory(r) BY <1>1, <2>1, <2>3 DEF Memory
  <2> QED BY <2>7, <2>9, <2>10 DEF Step
<1>5. CASE ~Taken(entry[r].slug, DOMAIN categories)
  <2>1. Done(r, "slug") /\ UNCHANGED mem BY <1>1, <1>5 DEF ResolveSlug, mem
  <2>2. Control(r) /\ Makes(r, "slug") /\ \A t : Makes(r, t) => t = "slug"
    BY <1>1, <2>1, MemKeptIsUntouched, DoneControls
  <2>3. Products(r) /\ Filing(r) /\ Extras(r) /\ Shelves(r) BY <1>2, <2>2, Untouched
  <2>4. Memory(r) BY <2>1, <2>2, <1>5 DEF Memory, mem
  <2> QED BY <2>2, <2>3, <2>4 DEF Step
<1> QED BY <1>4, <1>5

LEMMA SaveCategoryIsStep ==
  ASSUME IInv, NEW r \in Requests, SaveCategory(r)
  PROVE  Step(r)
<1> DEFINE x == Target(r)
           free == ~Taken(entry[r].slug, DOMAIN categories \ {x})
<1>1. PICK s \in {"insertCategory", "saveCategory"} :
        /\ At(r, s)
        /\ Constrained(r, s, free, /\ categories' = Put(categories, x, entry[r])
                                   /\ UNCHANGED <<products, links, variants, profiles>>)
  BY DEF SaveCategory
<1>2. todo[r] # {} /\ UNCHANGED <<mem, job, before>> BY <1>1 DEF SaveCategory, At
<1>3. CASE ~free BY <1>1, <1>2, <1>3, StopIsStep DEF Constrained, Refused
<1>4. CASE free
  <2>1. /\ Done(r, s) /\ categories' = Put(categories, x, entry[r])
        /\ UNCHANGED <<products, links, variants, profiles>>
    BY <1>1, <1>4 DEF Constrained
  <2>2. Control(r) /\ Makes(r, s) /\ \A t : Makes(r, t) => t = s
    BY <1>1, <1>2, <2>1, MemKeptIsUntouched, DoneControls
  <2>3. Shelves(r) BY <2>1, <2>2, <1>1, <1>4 DEF Shelves, Put
  <2>4. Products(r) /\ Filing(r) /\ Extras(r) BY <2>1, <2>2, <1>1, Untouched
  <2>5. Memory(r) BY <1>1, <1>2, <2>2, Untouched
  <2> QED BY <2>2, <2>3, <2>4, <2>5 DEF Step
<1> QED BY <1>3, <1>4

LEMMA DeleteCategoryIsStep ==
  ASSUME IInv, NEW r \in Requests, DeleteCategory(r)
  PROVE  Step(r)
<1> DEFINE x == Target(r)
<1>1. /\ categories' = [y \in DOMAIN categories \ {x} |-> categories[y]]
      /\ links' = {l \in links : l.category # x}
      /\ At(r, "deleteCategory") /\ Done(r, "deleteCategory")
      /\ UNCHANGED <<products, variants, profiles, mem, job, before>>
  BY DEF DeleteCategory
<1>2. Control(r) /\ Makes(r, "deleteCategory") /\ \A t : Makes(r, t) => t = "deleteCategory"
  BY <1>1, MemKeptIsUntouched, DoneControls
<1>3. Shelves(r) BY <1>1, <1>2 DEF Shelves
<1>4. Filing(r) BY <1>1, <1>2 DEF Filing
<1> QED BY <1>1, <1>2, <1>3, <1>4, Untouched DEF Step

-----------------------------------------------------------------------------
(* A request begins                                                        *)

Asked(r, j, t) ==
  /\ j.links \subseteq Shelved \cup DOMAIN categories
  /\ job' = [job EXCEPT ![r] = [j EXCEPT !.target = t]]
  /\ todo' = [todo EXCEPT ![r] = Route(j)]
  /\ entry' = [entry EXCEPT ![r] = IF j.kind = "createCategory"
                                   THEN [name |-> j.name, slug |-> Slug(j.name, 0)] ELSE NoEntry]

\* What is said of those that had begun stays true of them.
LEMMA HistoryGrows ==
  ASSUME IInv, NEW r \in Requests, Begin(r)
  PROVE  /\ answer[r] = None /\ job[r] = NoJob /\ answer' = answer /\ UNCHANGED <<rows, seen>>
         /\ \A d \in Requests \ {r} :
              /\ job'[d] = job[d] /\ todo'[d] = todo[d] /\ before'[d] = before[d]
              /\ entry'[d] = entry[d] /\ Begun(d)' = Begun(d) /\ Target(d)' = Target(d)
         /\ Begun(r)' /\ Functions' /\ before'[r] = {s \in Requests : Ended(s)}
<1>1. /\ DOMAIN job = Requests /\ DOMAIN todo = Requests /\ DOMAIN entry = Requests
      /\ DOMAIN before = Requests /\ Routed(r)
  BY DEF IInv, Functions
<1>0. PICK j \in Jobs : \E t \in Addressed(j.kind) : Asked(r, j, t) BY DEF Begin, Asked
<1>2. PICK t \in Addressed(j.kind) : Asked(r, j, t) BY <1>0
<1>3. answer[r] = None /\ job[r] = NoJob BY <1>1 DEF Begin, Begun, Routed
<1>4. \A d \in Requests \ {r} :
        job'[d] = job[d] /\ todo'[d] = todo[d] /\ before'[d] = before[d] /\ entry'[d] = entry[d]
  BY <1>1, <1>2 DEF Begin, Asked
<1>5. \A d \in Requests \ {r} : Begun(d)' = Begun(d) /\ Target(d)' = Target(d)
  BY <1>4 DEF Begun, Target
<1>6. job'[r] = [j EXCEPT !.target = t] BY <1>1, <1>2 DEF Asked
<1>7. job'[r].kind = j.kind /\ j.kind \in Kinds BY <1>6, JobsAssumption DEF Kinds
<1>8. Begun(r)' BY <1>7 DEF Begun, NoJob, Kinds, Creates, None
<1>9. Functions' BY <1>1, <1>2 DEF IInv, Functions, Begin, Asked
<1> QED BY <1>1, <1>3, <1>4, <1>5, <1>8, <1>9 DEF Begin

LEMMA PastGrows ==
  ASSUME IInv, NEW r \in Requests, Begin(r)
  PROVE  /\ \A a, b \in Requests : Overlap(a, b) => Overlap(a, b)'
         /\ \A x, k : k # None => On(x, k) \subseteq On(x, k)'
         /\ \A x : (Lost(x) => Lost(x)') /\ (Refiled(x) => Refiled(x)')
         /\ \A d \in Requests \ {r} :
              /\ \A c : Disputed(d, c) => Disputed(d, c)'
              /\ (Undone(d) => Undone(d)') /\ (Alone(d)' => Alone(d))
              /\ \A k : k # None /\ Restored(d, k) => Restored(d, k)'
<1>1. /\ ~Begun(r)
      /\ \A d \in Requests \ {r} :
           job'[d] = job[d] /\ before'[d] = before[d] /\ Begun(d)' = Begun(d) /\ Target(d)' = Target(d)
  BY HistoryGrows DEF Begin
<1>2. job[r].kind = None /\ job[r].relink = FALSE BY HistoryGrows DEF NoJob
<1>3. \A a, b \in Requests : Overlap(a, b) => Overlap(a, b)' BY <1>1 DEF Overlap
<1>4. \A x, k : k # None => On(x, k) \subseteq On(x, k)' BY <1>1, <1>2 DEF On, OfKind
<1>5. \A v \in Requests, d \in Requests \ {r} : NotBefore(v, d) => v # r /\ NotBefore(v, d)'
  BY <1>1 DEF NotBefore
<1>6. \A x : Lost(x) => Lost(x)' BY <1>4 DEF Lost, None
<1>7. \A x : Refiled(x) => Refiled(x)'
  <2> SUFFICES ASSUME NEW x, Refiled(x) PROVE Refiled(x)'
    OBVIOUS
  <2>1. PICK u \in On(x, "updateProduct") : job[u].relink BY DEF Refiled
  <2>2. u \in Requests \ {r} BY <2>1, <1>2 DEF On, OfKind
  <2>3. u \in On(x, "updateProduct")' BY <2>1, <1>4 DEF None
  <2> QED BY <2>1, <2>2, <2>3, <1>1 DEF Refiled
<1>8. ASSUME NEW d \in Requests \ {r}
      PROVE  /\ \A c : Disputed(d, c) => Disputed(d, c)'
             /\ (Undone(d) => Undone(d)') /\ (Alone(d)' => Alone(d))
             /\ \A k : k # None /\ Restored(d, k) => Restored(d, k)'
  <2>1. Target(d)' = Target(d) BY <1>1
  <2>2. ASSUME NEW c, Disputed(d, c) PROVE Disputed(d, c)'
    <3>1. PICK v \in On(Target(d), "updateProduct") :
            NotBefore(v, d) /\ (c \in job[v].sets \/ Overlap(d, v))
      BY <2>2 DEF Disputed
    <3>2. v \in Requests \ {r} /\ NotBefore(v, d)' BY <3>1, <1>5 DEF On, OfKind
    <3>3. v \in OfKind("updateProduct")' /\ Target(v)' = Target(d)'
      BY <3>1, <3>2, <2>1, <1>1 DEF On, OfKind
    <3> QED BY <3>1, <3>2, <3>3, <1>1, <1>3 DEF Disputed, On
  <2>3. ASSUME Undone(d) PROVE Undone(d)'
    <3>1. PICK v \in Requests : NotBefore(v, d) /\ Target(v) = Target(d)
                                /\ (job[v].kind = "removeProduct" \/ job[v].relink)
      BY <2>3 DEF Undone
    <3>2. v \in Requests \ {r} /\ NotBefore(v, d)' BY <3>1, <1>5
    <3> QED BY <3>1, <3>2, <2>1, <1>1 DEF Undone
  <2>4. Alone(d)' => Alone(d) BY <1>3 DEF Alone
  <2>5. ASSUME NEW k, k # None, Restored(d, k) PROVE Restored(d, k)'
    <3>1. PICK u \in On(Target(d), k) : Overlap(d, u) BY <2>5 DEF Restored
    <3>2. u \in Requests \ {r} BY <3>1, <2>5, <1>2 DEF On, OfKind
    <3>3. u \in OfKind(k)' /\ Target(u)' = Target(d)' BY <3>1, <3>2, <2>1, <1>1 DEF On, OfKind
    <3> QED BY <3>1, <3>2, <3>3, <1>3 DEF Restored, On
  <2> QED BY <2>2, <2>3, <2>4, <2>5
<1> QED BY <1>3, <1>4, <1>6, <1>7, <1>8

LEMMA NewJob ==
  ASSUME IInv, NEW r \in Requests, Begin(r)
  PROVE  /\ job'[r].kind \in Kinds /\ todo'[r] = Route(job'[r])
         /\ job'[r].profile \in {None, "slugged", "slugless"}
         /\ job'[r].variants \in {None, "named", "nameless"} /\ job'[r].sets \subseteq Columns
         /\ job'[r].links \subseteq Shelved \cup DOMAIN categories
         /\ job'[r].target \in Addressed(job'[r].kind)
<1>1. DOMAIN job = Requests /\ DOMAIN todo = Requests BY DEF IInv, Functions
<1>2. PICK j \in Jobs : \E t \in Addressed(j.kind) : Asked(r, j, t) BY DEF Begin, Asked
<1>3. PICK t \in Addressed(j.kind) : Asked(r, j, t) BY <1>2
<1>4. job'[r] = [j EXCEPT !.target = t] /\ todo'[r] = Route(j) BY <1>1, <1>3 DEF Asked
<1>5. /\ job'[r].kind = j.kind /\ job'[r].profile = j.profile /\ job'[r].variants = j.variants
      /\ job'[r].sets = j.sets /\ job'[r].links = j.links /\ job'[r].relink = j.relink
      /\ job'[r].target = t
  BY <1>4, JobsAssumption
<1>6. PICK k : k = job'[r] OBVIOUS
<1>7. Route(k) = Route(j) BY <1>5, <1>6 DEF Route
<1>8. /\ j.kind \in Kinds /\ j.profile \in {None, "slugged", "slugless"}
      /\ j.variants \in {None, "named", "nameless"} /\ j.sets \subseteq Columns
  BY JobsAssumption DEF Kinds
<1> QED BY <1>3, <1>4, <1>5, <1>6, <1>7, <1>8 DEF Asked

LEMMA BeginKeeps ==
  ASSUME IInv, NEW r \in Requests, Begin(r)
  PROVE  IInv'
<1> DEFINE Others == Requests \ {r}
<1>1. /\ answer[r] = None /\ job[r] = NoJob /\ answer' = answer /\ ~Begun(r)
      /\ UNCHANGED <<rows, seen>>
      /\ UNCHANGED <<products, links, variants, profiles, categories>>
  BY HistoryGrows DEF Begin, rows
<1>2. \A d \in Others : /\ job'[d] = job[d] /\ todo'[d] = todo[d] /\ before'[d] = before[d]
                        /\ entry'[d] = entry[d] /\ Begun(d)' = Begun(d) /\ Target(d)' = Target(d)
  BY HistoryGrows
<1>3. Begun(r)' /\ Functions' /\ before'[r] = {s \in Requests : Ended(s)} BY HistoryGrows
<1>4. /\ job'[r].kind \in Kinds /\ todo'[r] = Route(job'[r])
      /\ job'[r].profile \in {None, "slugged", "slugless"}
      /\ job'[r].variants \in {None, "named", "nameless"} /\ job'[r].sets \subseteq Columns
      /\ job'[r].links \subseteq Shelved \cup DOMAIN categories
      /\ job'[r].target \in Addressed(job'[r].kind)
  BY NewJob
<1>5. \A a, b \in Requests : Overlap(a, b) => Overlap(a, b)' BY PastGrows
<1>6. \A x : (Lost(x) => Lost(x)') /\ (Refiled(x) => Refiled(x)') BY PastGrows
<1>7. \A d \in Others : /\ \A c : Disputed(d, c) => Disputed(d, c)'
                        /\ (Undone(d) => Undone(d)') /\ (Alone(d)' => Alone(d))
                        /\ \A k : k # None /\ Restored(d, k) => Restored(d, k)'
  BY PastGrows
<1>8. \A d : On(d, "removeProduct") \subseteq On(d, "removeProduct")' BY PastGrows DEF None
<1>9. \A d \in Others : /\ \A s : Made(d, s)' = Made(d, s)
                        /\ Active(d)' = Active(d) /\ Loaded(d)' = Loaded(d) /\ Found(d)' = Found(d)
                        /\ Ended(d)' = Ended(d) /\ Inserted(d)' = Inserted(d)
  BY <1>1, <1>2 DEF Made, Active, Loaded, Found, Ended, Inserted
\* The request itself has made nothing.
<1>10. \A s : ~Made(r, s)' BY <1>4 DEF Made
<1>11. \A s \in {"insert", "load", "save", "unlink", "link", "find", "slug", "insertCategory",
                 "saveCategory"} : s \in todo'[r] <=> s \in Route(job'[r])
  BY <1>4
<1>12. PICK j : j = job'[r] OBVIOUS
<1>13. j.kind \in Kinds /\ todo'[r] = Route(j) BY <1>4, <1>12
<1>14. ~Loaded(r)' /\ ~Found(r)' BY <1>13, RouteFacts DEF Loaded, Found
<1>15. ~Inserted(r) BY <1>1 DEF Inserted, NoJob, Creates, None
<1>16. ~Ended(r) BY <1>1 DEF Ended
<1> HIDE DEF Others
<1>20. TypeOK'
  <2>1. before' \in [Requests -> SUBSET Requests]
    <3>1. DOMAIN before' = Requests BY <1>3 DEF Functions
    <3>2. before' = [d \in Requests |-> before'[d]]
      BY <3>1 DEF Begin, IInv, TypeOK
    <3>3. \A d \in Requests : before'[d] \subseteq Requests
      BY <1>2, <1>3 DEF IInv, TypeOK, Others
    <3> QED BY <3>2, <3>3
  <2> QED BY <2>1, <1>1 DEF IInv, TypeOK
<1>21. Timed'
  <2>1. \A d \in Requests : Ended(d)' = Ended(d) BY <1>1 DEF Ended
  <2>2. \A d \in Requests : before'[d] \subseteq {s \in Requests : Ended(s)} \/ before'[d] = before[d]
    BY <1>2, <1>3 DEF Others
  <2> QED BY <2>1, <2>2 DEF IInv, Timed
<1>22. NewRows'
  <2>1. \A p \in DOMAIN products \cap Requests : Inserted(p)'
    BY <1>9, <1>15 DEF IInv, NewRows, Others
  <2>2. \A x \in DOMAIN categories \cap Requests : Inserted(x)'
    BY <1>9, <1>15 DEF IInv, NewRows, Others
  <2>3. \A d \in Requests : Loaded(d)' => seen'[d].row \in [Columns -> Requests \cup {Nobody}]
    BY <1>1, <1>9, <1>14 DEF IInv, NewRows, Others
  <2> QED BY <1>1, <2>1, <2>2, <2>3 DEF IInv, NewRows
<1>23. Known'
  <2>1. \A x \in Shelved : x \in DOMAIN categories \/ Lost(x) BY DEF IInv, Known
  <2>2. \A x \in job'[r].links : x \in DOMAIN categories \/ Lost(x) BY <1>4, <2>1
  <2>3. \A d \in Requests : \A x \in job'[d].links : x \in DOMAIN categories \/ Lost(x)
    BY <1>2, <2>2 DEF IInv, Known, Others
  <2> QED BY <1>1, <1>6, <2>1, <2>3 DEF Known
<1>24. LinksAreOfOneRequest'
  <2>1. \A l \in links : l.by = Nobody \/ l.by \in Requests BY DEF IInv, NewRows
  <2> QED BY <1>1, <1>5, <2>1 DEF IInv, LinksAreOfOneRequest
<1>25. ASSUME NEW d \in Requests PROVE Routed(d)'
  <2>1. CASE d # r BY <1>1, <1>2, <1>9, <2>1 DEF IInv, Routed, Others
  <2>2. CASE d = r
    <3>1. todo'[r] # {} BY <1>13, RouteFacts
    <3>2. ~Ended(r)' BY <1>1 DEF Ended
    <3> QED BY <1>3, <1>4, <2>2, <3>1, <3>2 DEF Routed
  <2> QED BY <2>1, <2>2
<1>26. ASSUME NEW d \in Requests PROVE Addresses(d)'
  <2>1. CASE d # r
    <3>1. Target(d) \in Requests /\ Inserted(Target(d)) =>
            /\ Inserted(Target(d)) /\ Target(d) \in Others
            /\ before'[Target(d)] = before[Target(d)] /\ job'[Target(d)] = job[Target(d)]
            /\ todo'[Target(d)] = todo[Target(d)]
      BY <1>2, <1>15 DEF Others
    <3>2. d \in Others /\ Target(d)' = Target(d) /\ job'[d] = job[d] /\ Begun(d)' = Begun(d)
      BY <1>2, <2>1 DEF Others
    <3> QED BY <3>1, <3>2 DEF IInv, Addresses, Inserted
  <2>2. CASE d = r
    <3> SUFFICES ASSUME job'[r].kind \notin Creates PROVE Addresses(r)'
      BY <2>2 DEF Addresses
    <3>0. PICK t : t = job'[r].target OBVIOUS
    <3>1. Target(r)' = t BY <3>0 DEF Target
    <3>2. /\ job'[r].kind \in {"updateProduct", "removeProduct", "publishProduct"} =>
               t \in Stored \cup DOMAIN products
          /\ job'[r].kind \in {"updateCategory", "removeCategory"} =>
               t \in Shelved \cup DOMAIN categories
          /\ job'[r].kind \in {"updateProduct", "removeProduct", "publishProduct",
                               "updateCategory", "removeCategory"}
      BY <1>4, <3>0 DEF Addressed, Kinds
    <3>3. t \in Requests => t \in DOMAIN products \/ t \in DOMAIN categories
      BY <3>2, CatalogueAssumption
    <3>4. t \in Requests => Inserted(t) BY <3>3 DEF IInv, NewRows
    <3>5. t \in Requests => t \in Others BY <3>4, <1>15 DEF Others
    <3>6. t \in Requests => Inserted(t)' /\ r \notin before'[t]
      <4> SUFFICES ASSUME t \in Requests PROVE Inserted(t)' /\ r \notin before'[t]
        OBVIOUS
      <4>1. job'[t] = job[t] /\ todo'[t] = todo[t] /\ before'[t] = before[t] BY <1>2, <3>5
      <4>2. r \notin before[t] BY <1>16, <3>5 DEF IInv, Timed, Others
      <4> QED BY <4>1, <4>2, <3>4 DEF Inserted
    <3>7. t \in ProductIds \/ ~(job'[r].kind \in {"updateProduct", "removeProduct", "publishProduct"})
      BY <3>2 DEF IInv, TypeOK, ProductIds
    <3>8. t \in CategoryIds \/ ~(job'[r].kind \in {"updateCategory", "removeCategory"})
      BY <3>2 DEF IInv, TypeOK, CategoryIds
    <3>9. t \in Requests => Inserted(t)' /\ r \notin before'[t] BY <3>6
    <3> QED BY <2>2, <3>1, <3>7, <3>8, <3>9 DEF Addresses, Inserted
  <2> QED BY <2>1, <2>2
<1>30. \A d \in Requests : \A s : Made(d, s)' => d \in Others /\ Made(d, s)
  BY <1>9, <1>10 DEF Others
<1>31. \A d \in Requests : Loaded(d)' => d \in Others /\ Loaded(d) BY <1>9, <1>14 DEF Others
<1>32. \A d \in Requests : Found(d)' => d \in Others /\ Found(d) BY <1>9, <1>14 DEF Others
<1>33. ASSUME NEW d \in Requests PROVE Whole(d)'
  <2> SUFFICES ASSUME Made(d, "insert")', On(d, "removeProduct")' = {} PROVE Whole(d)'
    BY DEF Whole
  <2>1. d \in Others /\ Made(d, "insert") /\ Whole(d) /\ On(d, "removeProduct") = {}
    BY <1>8, <1>30 DEF IInv, Promises
  <2>2. job'[d] = job[d] /\ \A s : Made(d, s)' = Made(d, s) BY <1>2, <1>9, <2>1
  <2> QED BY <1>1, <1>6, <2>1, <2>2 DEF Whole, LinksOf
<1>34. ASSUME NEW d \in Requests PROVE Held(d)'
  BY <1>1, <1>2, <1>7, <1>30 DEF IInv, Promises, Held
<1>35. ASSUME NEW d \in Requests PROVE SeenHeld(d)'
  <2> SUFFICES ASSUME Loaded(d)', NEW u \in Requests, Made(u, "save")', Target(u)' = Target(d)',
                      NEW c \in job'[u].sets
               PROVE  seen'[d].row[c] = u \/ Disputed(u, c)'
    BY DEF SeenHeld
  <2>1. d \in Others /\ u \in Others /\ Loaded(d) /\ Made(u, "save") BY <1>30, <1>31
  <2>2. Target(u) = Target(d) /\ job'[u] = job[u] BY <1>2, <2>1
  <2>3. seen[d].row[c] = u \/ Disputed(u, c) BY <2>1, <2>2 DEF IInv, Promises, SeenHeld
  <2> QED BY <1>1, <1>7, <2>1, <2>3
<1>36. ASSUME NEW d \in Requests PROVE Filed(d)'
  <2> SUFFICES ASSUME Made(d, "link")', job'[d].kind = "updateProduct", NEW x \in job'[d].links,
                      ~Lost(x)', ~Undone(d)'
               PROVE  \E l \in LinksOf(Target(d))' : l.category = x
    BY DEF Filed
  <2>1. d \in Others /\ Made(d, "link") BY <1>30
  <2>2. job'[d] = job[d] /\ Target(d)' = Target(d) /\ ~Undone(d) /\ ~Lost(x)
    BY <1>2, <1>6, <1>7, <2>1
  <2>3. \E l \in LinksOf(Target(d)) : l.category = x BY <2>1, <2>2 DEF IInv, Promises, Filed
  <2> QED BY <1>1, <2>2, <2>3 DEF LinksOf
<1>37. ASSUME NEW d \in Requests PROVE Cleared(d)'
  <2>1. CASE d # r
    <3>1. /\ d \in Others /\ Target(d)' = Target(d) /\ todo'[d] = todo[d] /\ Active(d)' = Active(d)
          /\ Cleared(d)
      BY <1>2, <1>9, <2>1 DEF IInv, Promises, Others
    <3> QED BY <1>1, <1>5, <3>1 DEF Cleared, LinksOf
  <2>2. CASE d = r
    <3> SUFFICES ASSUME "link" \in todo'[r], "unlink" \notin todo'[r], NEW l \in links,
                        l.product = Target(r)'
                 PROVE  FALSE
      BY <1>1, <2>2 DEF Cleared, LinksOf
    <3>1. job'[r].kind = "createProduct" BY <1>12, <1>13, RouteFacts
    <3>2. Target(r)' = r BY <3>1 DEF Target, Creates
    <3>3. r \in DOMAIN products BY <3>2 DEF IInv, TypeOK
    <3> QED BY <3>3, <1>15 DEF IInv, NewRows
  <2> QED BY <2>1, <2>2
<1>38. ASSUME NEW d \in Requests PROVE Gone(d)'
  <2>1. ASSUME Made(d, "delete")'
        PROVE  /\ Target(d)' \in DOMAIN products' => Restored(d, "updateProduct")'
               /\ \A v \in VariantsOf(Target(d))' : v[2] \in Requests /\ Overlap(v[2], d)'
    <3>1. d \in Others /\ Made(d, "delete") BY <1>30, <2>1
    <3>2. Target(d)' = Target(d) BY <1>2, <3>1
    <3>3. Restored(d, "updateProduct") => Restored(d, "updateProduct")' BY <1>7, <3>1 DEF None
    <3> QED BY <1>1, <1>5, <3>1, <3>2, <3>3 DEF IInv, Promises, Gone, VariantsOf
  <2>2. ASSUME Made(d, "deleteCategory")', Target(d)' \in DOMAIN categories'
        PROVE  Restored(d, "updateCategory")'
    <3>1. d \in Others /\ Made(d, "deleteCategory") BY <1>30, <2>2
    <3>2. Target(d)' = Target(d) BY <1>2, <3>1
    <3>3. Restored(d, "updateCategory") => Restored(d, "updateCategory")' BY <1>7, <3>1 DEF None
    <3> QED BY <1>1, <2>2, <3>1, <3>2, <3>3 DEF IInv, Promises, Gone
  <2> QED BY <2>1, <2>2 DEF Gone
<1>39. ASSUME NEW e \in Requests PROVE SeenGone(e)'
  <2>1. ASSUME Loaded(e)', NEW d \in Requests, Made(d, "delete")', Target(d)' = Target(e)'
        PROVE  Restored(d, "updateProduct")'
    <3>1. e \in Others /\ d \in Others /\ Loaded(e) /\ Made(d, "delete") BY <1>30, <1>31, <2>1
    <3>2. Target(d) = Target(e) BY <1>2, <2>1, <3>1
    <3>3. Restored(d, "updateProduct") BY <3>1, <3>2 DEF IInv, Promises, SeenGone
    <3> QED BY <1>7, <3>1, <3>3 DEF None
  <2>2. ASSUME Found(e)', NEW d \in Requests, Made(d, "deleteCategory")', Target(d)' = Target(e)'
        PROVE  Restored(d, "updateCategory")'
    <3>1. e \in Others /\ d \in Others /\ Found(e) /\ Made(d, "deleteCategory")
      BY <1>30, <1>32, <2>2
    <3>2. Target(d) = Target(e) BY <1>2, <2>2, <3>1
    <3>3. Restored(d, "updateCategory") BY <3>1, <3>2 DEF IInv, Promises, SeenGone
    <3> QED BY <1>7, <3>1, <3>3 DEF None
  <2> QED BY <2>1, <2>2 DEF SeenGone
<1>40. ASSUME NEW d \in Requests PROVE Quiet(d)'
  <2>1. CASE d # r
    <3>1. /\ d \in Others /\ Target(d)' = Target(d) /\ todo'[d] = todo[d] /\ job'[d] = job[d]
          /\ Active(d)' = Active(d) /\ Loaded(d)' = Loaded(d) /\ entry'[d] = entry[d]
          /\ Quiet(d)
      BY <1>2, <1>9, <2>1 DEF IInv, Others
    <3>2. Alone(d)' => Alone(d) BY <1>7, <3>1
    <3> QED BY <1>1, <3>1, <3>2 DEF Quiet, Unlost, Taken, LinksOf, VariantsOf
  <2>2. CASE d = r
    <3>1. /\ job'[r].kind = "createProduct" => "insert" \in todo'[r]
          /\ job'[r].kind = "updateProduct" => "save" \in todo'[r]
          /\ {"insertCategory", "saveCategory"} \cap todo'[r] # {} => "slug" \in todo'[r]
      BY <1>12, <1>13, RouteFacts
    <3> QED BY <2>2, <3>1, <1>14 DEF Quiet
  <2> QED BY <2>1, <2>2
<1>41. ASSUME NEW d \in Requests PROVE Cause(d)'
  <2> SUFFICES ASSUME answer'[d] = "failed" PROVE Cause(d)'
    BY DEF Cause
  <2>1. d # r BY <1>1 DEF None
  <2>2. d \in Others /\ job'[d] = job[d] /\ Cause(d) BY <1>2, <2>1 DEF IInv, Others
  <2>3. Alone(d)' => Alone(d) BY <1>7, <2>2
  <2> QED BY <1>1, <1>6, <2>2, <2>3 DEF Cause
<1> QED
  BY <1>3, <1>20, <1>21, <1>22, <1>23, <1>24, <1>25, <1>26, <1>33, <1>34, <1>35, <1>36, <1>37,
     <1>38, <1>39, <1>40, <1>41
  DEF IInv, Promises

-----------------------------------------------------------------------------
(* The invariant                                                           *)

LEMMA InitHolds ==
  ASSUME Init
  PROVE  IInv
<1>1. /\ \A r \in Requests : /\ job[r] = NoJob /\ todo[r] = {} /\ answer[r] = None /\ before[r] = {}
                             /\ ~Begun(r)
      /\ Functions
  BY DEF Init, Begun, Functions
<1>2. /\ products = [p \in Stored |-> [c \in Columns |-> Nobody]] /\ profiles = {}
      /\ links = {[product |-> p, category |-> x, by |-> Nobody] : p \in Stored, x \in Shelved}
      /\ variants = Stored \X {Nobody}
      /\ categories = [x \in Shelved |-> [name |-> FirstName[x], slug |-> Slug(FirstName[x], 0)]]
      /\ answer = [r \in Requests |-> None] /\ before = [r \in Requests |-> {}]
  BY DEF Init
<1>3. \A r \in Requests : /\ \A s : ~Made(r, s)
                          /\ ~Active(r) /\ ~Loaded(r) /\ ~Found(r)
  BY <1>1 DEF Made, Active, Loaded, Found
<1>4. TypeOK
  <2>1. DOMAIN products \subseteq ProductIds /\ DOMAIN categories \subseteq CategoryIds
    BY <1>2 DEF ProductIds, CategoryIds
  <2>2. \A p \in DOMAIN products : products[p] \in [Columns -> Requests \cup {Nobody}] BY <1>2
  <2>3. \A l \in links : l.product \in DOMAIN products /\ l.category \in DOMAIN categories BY <1>2
  <2>4. \A k, l \in links : k.product = l.product /\ k.category = l.category => k = l BY <1>2
  <2>5. \A v \in variants : v[1] \in DOMAIN products BY <1>2
  <2>6. \A x, y \in DOMAIN categories : Text(categories[x].slug) = Text(categories[y].slug) => x = y
    <3>1. \A x \in DOMAIN categories : x \in Shelved /\ categories[x].slug = <<Base[FirstName[x]], 0>>
      BY <1>2 DEF Slug
    <3>2. \A x \in DOMAIN categories : Text(categories[x].slug) = Base[FirstName[x]]
      BY <3>1 DEF Text
    <3> QED BY <3>1, <3>2, CatalogueAssumption
  <2>7. /\ answer \in [Requests -> {None, "ok", "missing", "refused", "failed"}]
        /\ before \in [Requests -> SUBSET Requests]
    BY <1>2
  <2> QED BY <2>1, <2>2, <2>3, <2>4, <2>5, <2>6, <2>7 DEF TypeOK
<1>5. Timed BY <1>1 DEF Timed
<1>6. NewRows
  <2>1. DOMAIN products \cap Requests = {} /\ DOMAIN categories \cap Requests = {}
    BY <1>2, CatalogueAssumption
  <2>2. \A l \in links : l.by = Nobody BY <1>2
  <2> QED BY <1>2, <1>3, <2>1, <2>2 DEF NewRows
<1>7. Known BY <1>1, <1>2 DEF Known, NoJob
<1>8. LinksAreOfOneRequest BY <1>2 DEF LinksAreOfOneRequest
<1>9. ASSUME NEW r \in Requests
      PROVE  Routed(r) /\ Addresses(r) /\ Promises(r) /\ Quiet(r) /\ Cause(r)
  <2>1. Routed(r) /\ Addresses(r) BY <1>1 DEF Routed, Addresses
  <2>2. Quiet(r) /\ Cause(r) BY <1>1, <1>3 DEF Quiet, Cause, None
  <2>3. Whole(r) /\ Held(r) /\ SeenHeld(r) /\ Filed(r) BY <1>3 DEF Whole, Held, SeenHeld, Filed
  <2>4. Cleared(r) /\ Gone(r) /\ SeenGone(r) BY <1>3 DEF Cleared, Gone, SeenGone
  <2> QED BY <2>1, <2>2, <2>3, <2>4 DEF Promises
<1> QED BY <1>1, <1>4, <1>5, <1>6, <1>7, <1>8, <1>9 DEF IInv

LEMMA StuttersKeep ==
  ASSUME IInv, UNCHANGED vars
  PROVE  IInv'
<1>1. /\ products' = products /\ links' = links /\ variants' = variants /\ profiles' = profiles
      /\ categories' = categories /\ job' = job /\ todo' = todo /\ seen' = seen /\ entry' = entry
      /\ answer' = answer /\ before' = before
  BY DEF vars, rows, mem
<1>2. /\ \A a : Begun(a)' = Begun(a) /\ Target(a)' = Target(a) /\ Undone(a)' = Undone(a)
                /\ Alone(a)' = Alone(a) /\ Lost(a)' = Lost(a) /\ Refiled(a)' = Refiled(a)
      /\ \A a, b : Overlap(a, b)' = Overlap(a, b) /\ On(a, b)' = On(a, b)
                   /\ Disputed(a, b)' = Disputed(a, b) /\ Restored(a, b)' = Restored(a, b)
  BY <1>1, HistoryKept
<1>3. \A d : /\ Active(d)' = Active(d) /\ Loaded(d)' = Loaded(d) /\ Found(d)' = Found(d)
             /\ Ended(d)' = Ended(d) /\ Inserted(d)' = Inserted(d)
  BY <1>1, <1>2 DEF Active, Loaded, Found, Ended, Inserted
<1>4. \A d, s : Made(d, s)' = Made(d, s) BY <1>1, <1>2 DEF Made
<1>5. TypeOK' /\ Functions' BY <1>1 DEF IInv, TypeOK, Functions
<1>6. Timed' /\ NewRows' BY <1>1, <1>3 DEF IInv, Timed, NewRows
<1>7. Known' /\ LinksAreOfOneRequest' BY <1>1, <1>2 DEF IInv, Known, LinksAreOfOneRequest
<1>8. ASSUME NEW d \in Requests
      PROVE  (Routed(d) /\ Addresses(d) /\ Promises(d) /\ Quiet(d) /\ Cause(d))'
  <2>1. Routed(d) /\ Addresses(d) /\ Quiet(d) /\ Cause(d) /\ Promises(d) BY DEF IInv
  <2>2. Routed(d)' /\ Addresses(d)' BY <1>1, <1>2, <1>3, <2>1 DEF Routed, Addresses, Inserted
  <2>3. Quiet(d)' BY <1>1, <1>2, <1>3, <2>1 DEF Quiet, Unlost, Taken, LinksOf, VariantsOf
  <2>4. Cause(d)' BY <1>1, <1>2, <2>1 DEF Cause
  <2>5. Whole(d)' BY <1>1, <1>2, <1>4, <2>1 DEF Promises, Whole, LinksOf
  <2>6. Held(d)' /\ SeenHeld(d)' BY <1>1, <1>2, <1>3, <1>4, <2>1 DEF Promises, Held, SeenHeld
  <2>7. Filed(d)' BY <1>1, <1>2, <1>4, <2>1 DEF Promises, Filed, LinksOf
  <2>8. Cleared(d)' BY <1>1, <1>2, <1>3, <2>1 DEF Promises, Cleared, LinksOf
  <2>9. Gone(d)' BY <1>1, <1>2, <1>4, <2>1 DEF Promises, Gone, VariantsOf
  <2>10. SeenGone(d)' BY <1>1, <1>2, <1>3, <1>4, <2>1 DEF Promises, SeenGone
  <2> QED BY <2>2, <2>3, <2>4, <2>5, <2>6, <2>7, <2>8, <2>9, <2>10 DEF Promises
<1> QED BY <1>5, <1>6, <1>7, <1>8 DEF IInv

LEMMA NextKeeps ==
  ASSUME IInv, Next
  PROVE  IInv'
<1>1. PICK r \in Requests :
        \/ Begin(r)
        \/ InsertProduct(r) \/ SaveProfile(r) \/ UnlinkCategories(r) \/ LinkCategories(r)
        \/ InsertVariants(r) \/ LoadProduct(r) \/ SaveProduct(r) \/ DeleteProduct(r)
        \/ PublishProduct(r)
        \/ FindCategory(r) \/ ResolveSlug(r) \/ SaveCategory(r) \/ DeleteCategory(r)
  BY DEF Next
<1>2. CASE Begin(r) BY <1>2, BeginKeeps
<1>3. CASE InsertProduct(r) BY <1>3, InsertProductIsStep, StepKeeps
<1>4. CASE SaveProfile(r) BY <1>4, SaveProfileIsStep, StepKeeps
<1>5. CASE UnlinkCategories(r) BY <1>5, UnlinkCategoriesIsStep, StepKeeps
<1>6. CASE LinkCategories(r) BY <1>6, LinkCategoriesIsStep, StepKeeps
<1>7. CASE InsertVariants(r) BY <1>7, InsertVariantsIsStep, StepKeeps
<1>8. CASE LoadProduct(r) BY <1>8, LoadProductIsStep, StepKeeps
<1>9. CASE SaveProduct(r) BY <1>9, SaveProductIsStep, StepKeeps
<1>10. CASE DeleteProduct(r) BY <1>10, DeleteProductIsStep, StepKeeps
<1>11. CASE PublishProduct(r) BY <1>11, PublishProductIsStep, StepKeeps
<1>12. CASE FindCategory(r) BY <1>12, FindCategoryIsStep, StepKeeps
<1>13. CASE ResolveSlug(r) BY <1>13, ResolveSlugIsStep, StepKeeps
<1>14. CASE SaveCategory(r) BY <1>14, SaveCategoryIsStep, StepKeeps
<1>15. CASE DeleteCategory(r) BY <1>15, DeleteCategoryIsStep, StepKeeps
<1> QED BY <1>1, <1>2, <1>3, <1>4, <1>5, <1>6, <1>7, <1>8, <1>9, <1>10, <1>11, <1>12, <1>13,
           <1>14, <1>15

LEMMA InvariantHolds == Spec => []IInv
<1>1. Init => IInv BY InitHolds
<1>2. IInv /\ [Next]_vars => IInv' BY NextKeeps, StuttersKeep
<1> QED BY <1>1, <1>2, PTL DEF Spec

-----------------------------------------------------------------------------
(* What the invariant says of those that were answered                     *)

LEMMA AnsweredMadeAll ==
  ASSUME IInv, NEW r \in Requests, job[r].kind \in Kinds, answer[r] = "ok"
  PROVE  \A s \in Route(job[r]) : Made(r, s)
BY DEF IInv, Routed, Ended, Begun, NoJob, Made, Kinds, Creates, None

(* Rows are well formed and refer to rows, and no two categories share a   *)
(* slug: the keys of the schema hold, whatever the handlers interleave.    *)
THEOREM TypeCorrect == Spec => []TypeOK
<1>1. IInv => TypeOK BY DEF IInv
<1> QED BY <1>1, InvariantHolds, PTL

(* A product whose creation was answered has its variants, its profile and *)
(* its places in categories, but for what somebody removed or filed        *)
(* elsewhere since.                                                        *)
THEOREM CreatesAreWhole == Spec => []AnsweredCreatesAreWhole
<1>1. ASSUME IInv, NEW r \in OfKind("createProduct"), answer[r] = "ok",
             On(r, "removeProduct") = {}
      PROVE  /\ r \in DOMAIN products
             /\ job[r].variants # None => <<r, r>> \in variants
             /\ job[r].profile # None => \E q \in profiles : q.by = r
             /\ \A x \in job[r].links :
                  (\E l \in LinksOf(r) : l.category = x) \/ Lost(x) \/ Refiled(r)
  <2>1. r \in Requests /\ job[r].kind = "createProduct" /\ job[r].kind \in Kinds
    BY DEF OfKind, Kinds, Creates
  <2>2. \A s \in Route(job[r]) : Made(r, s) BY <1>1, <2>1, AnsweredMadeAll
  <2>3. Whole(r) BY <1>1, <2>1 DEF IInv, Promises
  <2> QED BY <1>1, <2>1, <2>2, <2>3, RouteFacts DEF Whole
<1>2. IInv => AnsweredCreatesAreWhole
  BY <1>1 DEF AnsweredCreatesAreWhole, Lost, Refiled
<1> QED BY <1>2, InvariantHolds, PTL

(* What an answered update set, and where it filed the product, stays      *)
(* unless a request that did not end before it began changes it.           *)
THEOREM UpdatesHold == Spec => []AnsweredUpdatesHold
<1>1. ASSUME IInv, NEW u \in OfKind("updateProduct"), answer[u] = "ok",
             Target(u) \in DOMAIN products
      PROVE  /\ \A c \in job[u].sets : products[Target(u)][c] = u \/ Disputed(u, c)
             /\ job[u].relink => \A x \in job[u].links :
                  (\E l \in LinksOf(Target(u)) : l.category = x) \/ Lost(x) \/ Undone(u)
  <2>1. u \in Requests /\ job[u].kind = "updateProduct" /\ job[u].kind \in Kinds
    BY DEF OfKind, Kinds, Creates
  <2>2. \A s \in Route(job[u]) : Made(u, s) BY <1>1, <2>1, AnsweredMadeAll
  <2>3. Held(u) /\ Filed(u) BY <1>1, <2>1 DEF IInv, Promises
  <2> QED BY <1>1, <2>1, <2>2, <2>3, RouteFacts DEF Held, Filed
<1>2. IInv => AnsweredUpdatesHold
  BY <1>1 DEF AnsweredUpdatesHold, Disputed, Lost, Undone
<1> QED BY <1>2, InvariantHolds, PTL

(* The categories of a product are those of one request, unless requests   *)
(* overlapped.                                                             *)
THEOREM LinksStayApart == Spec => []LinksAreOfOneRequest
<1>1. IInv => LinksAreOfOneRequest BY DEF IInv
<1> QED BY <1>1, InvariantHolds, PTL

(* What was removed is back only when an update had loaded it before.      *)
THEOREM RemovalsLast == Spec => []RemovedRowsStayRemoved
<1>1. ASSUME IInv, NEW r \in OfKind("removeProduct"), answer[r] = "ok",
             Target(r) \in DOMAIN products
      PROVE  Restored(r, "updateProduct") /\ \A v \in VariantsOf(Target(r)) : Overlap(v[2], r)
  <2>1. r \in Requests /\ job[r].kind = "removeProduct" /\ job[r].kind \in Kinds
    BY DEF OfKind, Kinds
  <2>2. Made(r, "delete") BY <1>1, <2>1, AnsweredMadeAll, RouteFacts
  <2> QED BY <1>1, <2>1, <2>2 DEF IInv, Promises, Gone
<1>2. ASSUME IInv, NEW r \in OfKind("removeCategory"), answer[r] = "ok",
             Target(r) \in DOMAIN categories
      PROVE  Restored(r, "updateCategory")
  <2>1. r \in Requests /\ job[r].kind = "removeCategory" /\ job[r].kind \in Kinds
    BY DEF OfKind, Kinds
  <2>2. Made(r, "deleteCategory") BY <1>2, <2>1, AnsweredMadeAll, RouteFacts
  <2> QED BY <1>2, <2>1, <2>2 DEF IInv, Promises, Gone
<1>3. IInv => RemovedRowsStayRemoved BY <1>1, <1>2 DEF RemovedRowsStayRemoved, Restored
<1> QED BY <1>3, InvariantHolds, PTL

(* A request that overlaps nobody, and gives all that is needed, fails     *)
(* only for a category that somebody removed.                              *)
THEOREM FailuresAreExplained == Spec => []FailuresHaveACause
<1>1. IInv => FailuresHaveACause
  BY DEF IInv, Cause, Alone, Lost, FailuresHaveACause
<1> QED BY <1>1, InvariantHolds, PTL

===============================================================================
