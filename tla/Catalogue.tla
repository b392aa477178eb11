------------------------------ MODULE Catalogue ------------------------------
(***************************************************************************)
(* What a company sells and how it files it: ProductService                *)
(* (product.service.ts) and CategoryService (category.service.ts).         *)
(*                                                                         *)
(* Neither opens a transaction.  A product, its storefront profile, its    *)
(* places in categories and its variants are written one after the other,  *)
(* and each save writes the difference between what the handler loaded and *)
(* what the database holds by then.  A request is the sequence of the      *)
(* statements it has still to make; those of others run in between, and a  *)
(* statement the database refuses ends it where it is.                     *)
(***************************************************************************)
EXTENDS Naturals, Sequences, TLC

CONSTANTS
  Requests,     (* Requests; what one creates bears its name.              *)
  Nobody,       (* No request: who made what there is at first.            *)
  Stored,       (* Products there are at first,                            *)
  Shelved,      (* and categories.                                         *)
  Columns,      (* Columns of a product that a client may set.             *)
  Names,        (* Names of categories,                                    *)
  Base,         (* the slug each makes: slugify, several names to one, as  *)
                (* the parts that its hyphens separate,                    *)
  FirstName,    (* and the name of each category there is at first.        *)
  Jobs          (* What may be asked.                                      *)

None   == "none"
NoJob  == [kind |-> None, target |-> Nobody, sets |-> {}, profile |-> None,
           relink |-> FALSE, links |-> {}, variants |-> None, name |-> None]

ASSUME CatalogueAssumption ==
  /\ None \notin Names /\ DOMAIN Base = Names
  /\ FirstName \in [Shelved -> Names]
  /\ \A x, y \in Shelved : Base[FirstName[x]] = Base[FirstName[y]] => x = y
  /\ Nobody \notin Requests \cup Stored \cup Shelved
  /\ Requests \cap (Stored \cup Shelved) = {} /\ Stored \cap Shelved = {}

VARIABLES
  products,     (* Rows of product: who wrote each column last,            *)
  links,        (* of product_category, with the request that put it in,   *)
  variants,     (* of product_variant: <<product, request>>,               *)
  profiles,     (* of product_ecommerce_profiles,                          *)
  categories,   (* of category: name and slug.                             *)
  job, todo,    (* What a request is for, and the statements it has left.  *)
  seen,         (* What it loaded: a row, its links and variants.          *)
  entry,        (* The category it is about to save.                       *)
  answer,       (* How it ended.                                           *)
  before        (* History: the requests that had ended when it began.     *)

rows == <<products, links, variants, profiles, categories>>
mem  == <<seen, entry>>
vars == <<rows, mem, job, todo, answer, before>>

ProductIds  == Stored \cup Requests
CategoryIds == Shelved \cup Requests
Creates == {"createProduct", "createCategory"}
Target(r) == IF job[r].kind \in Creates THEN r ELSE job[r].target

LinksOf(p)    == {l \in links : l.product = p}
VariantsOf(p) == {v \in variants : v[1] = p}
ProfilesOf(p) == {q \in profiles : q.product = p}

\* A slug is a base and a number: the base alone has 0, base-1 has 1, and so on.  As texts
\* the first slug of "Sale 1" and the second of "Sale" are the same.
Slug(name, n) == <<Base[name], n>>
Text(slug) == IF slug[2] = 0 THEN slug[1] ELSE Append(slug[1], slug[2])
Taken(slug, others) == \E x \in others : Text(categories[x].slug) = Text(slug)

Unloaded == [row |-> <<>>, links |-> {}, variants |-> {}]
NoEntry  == [name |-> None, slug |-> <<<<>>, 0>>]

Begun(r) == job[r] # NoJob
Ended(r) == answer[r] # None
\* Requests of which neither had ended when the other began.
Overlap(r, s) == r # s /\ Begun(r) /\ Begun(s) /\ r \notin before[s] /\ s \notin before[r]
-----------------------------------------------------------------------------
Init ==
  /\ products = [p \in Stored |-> [c \in Columns |-> Nobody]]
  /\ links = {[product |-> p, category |-> x, by |-> Nobody] : p \in Stored, x \in Shelved}
  /\ variants = Stored \X {Nobody} /\ profiles = {}
  /\ categories = [x \in Shelved |-> [name |-> FirstName[x], slug |-> Slug(FirstName[x], 0)]]
  /\ job = [r \in Requests |-> NoJob] /\ todo = [r \in Requests |-> {}]
  /\ seen = [r \in Requests |-> Unloaded] /\ entry = [r \in Requests |-> NoEntry]
  /\ answer = [r \in Requests |-> None] /\ before = [r \in Requests |-> {}]

If(c, statement) == IF c THEN {statement} ELSE {}

\* The statements of each handler,
Route(j) ==
  CASE j.kind = "createProduct" ->
         {"insert", "read"} \cup If(j.profile # None, "profile") \cup If(j.links # {}, "link")
           \cup If(j.variants # None, "variants")
    [] j.kind = "updateProduct" ->
         {"load", "save", "read"} \cup If(j.profile # None, "profile") \cup If(j.relink, "unlink")
           \cup If(j.relink /\ j.links # {}, "link")
    [] j.kind = "removeProduct"  -> {"load", "delete"}
    [] j.kind = "publishProduct" -> {"publish"}
    [] j.kind = "createCategory" -> {"slug", "insertCategory"}
    [] j.kind = "updateCategory" -> {"find", "slug", "saveCategory"}
    [] j.kind = "removeCategory" -> {"find", "deleteCategory"}

\* and the order of its awaits, which is the same in all of them.
Rank ==
  [insert |-> 1, load |-> 1, save |-> 2, delete |-> 2, publish |-> 2, profile |-> 3, unlink |-> 4,
   link |-> 5, variants |-> 6, read |-> 7,
   find |-> 1, slug |-> 2, insertCategory |-> 3, saveCategory |-> 3, deleteCategory |-> 3]

\* What a handler is given; who makes a category names it.
ASSUME JobsAssumption ==
  \A j \in Jobs :
    /\ j \in [kind : Creates \cup {"updateProduct", "removeProduct", "publishProduct",
                                 "updateCategory", "removeCategory"},
              target : {Nobody}, sets : SUBSET Columns, profile : {None, "slugged", "slugless"},
              relink : BOOLEAN, links : SUBSET CategoryIds,
              variants : {None, "named", "nameless"}, name : Names \cup {None}]
    /\ j.kind = "createCategory" => j.name \in Names

\* Clients know the ids of what there is or was at first.
Addressed(kind) ==
  CASE kind \in {"updateProduct", "removeProduct", "publishProduct"} -> Stored \cup DOMAIN products
    [] kind \in {"updateCategory", "removeCategory"} -> Shelved \cup DOMAIN categories
    [] OTHER -> {Nobody}

Begin(r) ==
  /\ ~Begun(r)
  /\ \E j \in Jobs : \E t \in Addressed(j.kind) :
       /\ j.links \subseteq Shelved \cup DOMAIN categories
       /\ job' = [job EXCEPT ![r] = [j EXCEPT !.target = t]]
       /\ todo' = [todo EXCEPT ![r] = Route(j)]
       /\ entry' = [entry EXCEPT ![r] = IF j.kind = "createCategory"
                                        THEN [name |-> j.name, slug |-> Slug(j.name, 0)] ELSE NoEntry]
  /\ before' = [before EXCEPT ![r] = {s \in Requests : Ended(s)}]
  /\ UNCHANGED <<rows, seen, answer>>

At(r, s) == s \in todo[r] /\ \A t \in todo[r] : Rank[s] <= Rank[t]
Stop(r, how) ==
  /\ todo' = [todo EXCEPT ![r] = {}]
  /\ answer' = [answer EXCEPT ![r] = how]
Done(r, s) ==
  IF todo[r] = {s} THEN Stop(r, "ok")
  ELSE todo' = [todo EXCEPT ![r] = @ \ {s}] /\ UNCHANGED answer

\* A statement that the database takes only when the constraints allow it.
Constrained(r, s, allowed, Change) ==
  IF allowed THEN Done(r, s) /\ Change ELSE Stop(r, "failed") /\ UNCHANGED rows
-----------------------------------------------------------------------------
(* Products                                                                *)

\* A table with the row x, whether it was there or not.
Put(table, x, row) == [y \in DOMAIN table \cup {x} |-> IF y = x THEN row ELSE table[y]]

InsertProduct(r) ==
  /\ At(r, "insert")
  /\ products' = Put(products, r, [c \in Columns |-> r])
  /\ Done(r, "insert")
  /\ UNCHANGED <<links, variants, profiles, categories, mem, job, before>>

\* The entity has no column productId, so that create drops it: the row's product_id is NULL.
ProfileOf(r) == [by |-> r, product |-> Nobody, status |-> "DRAFT"]

\* A slip, or a remedy: the profile belongs to the product it was saved for.
LinkedProfileOf(r) == [by |-> r, product |-> Target(r), status |-> "DRAFT"]

\* A profile needs a slug, which the client may leave out; one that is loaded is merged.
SaveProfile(r) ==
  /\ At(r, "profile")
  /\ IF job[r].kind = "updateProduct" /\ ProfilesOf(Target(r)) # {}
     THEN Done(r, "profile") /\ UNCHANGED rows
     ELSE Constrained(r, "profile", job[r].profile = "slugged",
            /\ profiles' = profiles \cup {ProfileOf(r)}
            /\ UNCHANGED <<products, links, variants, categories>>)
  /\ UNCHANGED <<mem, job, before>>

\* A slip: only the links that are about to be added are removed.
UnlinkNamed(r) ==
  /\ At(r, "unlink")
  /\ links' = {l \in links : l.product # Target(r) \/ l.category \notin job[r].links}
  /\ Done(r, "unlink")
  /\ UNCHANGED <<products, variants, profiles, categories, mem, job, before>>

\* delete({ productId }): a statement and a commit of its own.
UnlinkCategories(r) ==
  /\ At(r, "unlink")
  /\ links' = links \ LinksOf(Target(r))
  /\ Done(r, "unlink")
  /\ UNCHANGED <<products, variants, profiles, categories, mem, job, before>>

\* One insert of all of them: each needs its product and category, and no link of the two.
LinkCategories(r) ==
  LET new == [product : {Target(r)}, category : job[r].links, by : {r}]
  IN  /\ At(r, "link")
      /\ Constrained(r, "link", /\ Target(r) \in DOMAIN products
                        /\ job[r].links \subseteq DOMAIN categories
                        /\ \A l \in LinksOf(Target(r)) : l.category \notin job[r].links,
           /\ links' = links \cup new
           /\ UNCHANGED <<products, variants, profiles, categories>>)
      /\ UNCHANGED <<mem, job, before>>

\* A slip: the variants are not awaited, and their refusal is nobody's.
InsertVariantsUnawaited(r) ==
  /\ At(r, "variants")
  /\ variants' = variants \cup {v \in {<<Target(r), r>>} :
                     job[r].variants = "named" /\ Target(r) \in DOMAIN products}
  /\ Done(r, "variants")
  /\ UNCHANGED <<products, links, profiles, categories, mem, job, before>>

InsertVariants(r) ==
  /\ At(r, "variants")
  /\ Constrained(r, "variants", job[r].variants = "named" /\ Target(r) \in DOMAIN products,
       /\ variants' = variants \cup {<<Target(r), r>>}
       /\ UNCHANGED <<products, links, profiles, categories>>)
  /\ UNCHANGED <<mem, job, before>>

\* findOne: with the links and the variants, or a 404.
LoadProduct(r) ==
  LET p == Target(r)
  IN  /\ \E s \in {"load", "read"} :
           /\ At(r, s)
           /\ IF p \in DOMAIN products
              THEN /\ Done(r, s)
                   /\ seen' = IF s = "load"
                              THEN [seen EXCEPT ![r] = [row |-> products[p], links |-> LinksOf(p),
                                                        variants |-> VariantsOf(p)]] ELSE seen
              ELSE Stop(r, "missing") /\ UNCHANGED seen
      /\ UNCHANGED <<rows, entry, job, before>>

\* A save sets the product of links and variants that it did not load to NULL, which their
\* column refuses.
Unlost(r, p) == LinksOf(p) \subseteq seen[r].links /\ VariantsOf(p) \subseteq seen[r].variants

\* A slip: columns the client does not mention are reset.
Replaced(r, p) == Put(products, p, [c \in Columns |-> IF c \in job[r].sets THEN r ELSE Nobody])

\* Every column that differs, or the whole row when it is gone.
Merged(r, p) ==
  Put(products, p, [c \in Columns |-> IF c \in job[r].sets THEN r ELSE seen[r].row[c]])

SaveProduct(r) ==
  /\ At(r, "save")
  /\ Constrained(r, "save", Unlost(r, Target(r)),
       /\ products' = Merged(r, Target(r))
       /\ UNCHANGED <<links, variants, profiles, categories>>)
  /\ UNCHANGED <<mem, job, before>>

\* A slip: what hangs on the product is removed, the product is not.
EmptyProduct(r) ==
  LET p == Target(r)
  IN  /\ At(r, "delete")
      /\ links' = links \ LinksOf(p)
      /\ variants' = variants \ VariantsOf(p)
      /\ Done(r, "delete")
      /\ UNCHANGED <<products, profiles, categories, mem, job, before>>

\* The foreign keys cascade; a row that is gone already is no error.
DeleteProduct(r) ==
  LET p == Target(r)
  IN  /\ At(r, "delete")
      /\ products' = [q \in DOMAIN products \ {p} |-> products[q]]
      /\ links' = links \ LinksOf(p)
      /\ variants' = variants \ VariantsOf(p)
      /\ profiles' = profiles \ ProfilesOf(p)
      /\ Done(r, "delete")
      /\ UNCHANGED <<categories, mem, job, before>>

\* Its read and its save are one step: no profile has a product, the save is never reached.
PublishProduct(r) ==
  LET mine == ProfilesOf(Target(r))
  IN  /\ At(r, "publish")
      /\ Stop(r, IF Target(r) \notin DOMAIN products THEN "missing"
                 ELSE IF mine = {} THEN "refused" ELSE "ok")
      /\ profiles' = (profiles \ mine) \cup {[q EXCEPT !.status = "PUBLISHED"] : q \in mine}
      /\ UNCHANGED <<products, links, variants, categories, mem, job, before>>
-----------------------------------------------------------------------------
(* Categories                                                              *)

\* findOne; a new name brings a new slug, which is looked for from its base on.
FindCategory(r) ==
  LET x == Target(r)
      c == categories[x]
      renamed == job[r].name \notin {None, c.name}
  IN  /\ At(r, "find")
      /\ IF x \notin DOMAIN categories
         THEN Stop(r, "missing") /\ UNCHANGED entry
         ELSE /\ UNCHANGED answer
              /\ entry' = [entry EXCEPT ![r] =
                   IF renamed THEN [name |-> job[r].name, slug |-> Slug(job[r].name, 0)] ELSE c]
              /\ todo' = [todo EXCEPT ![r] =
                   @ \ IF renamed THEN {"find"} ELSE {"find", "slug"}]
      /\ UNCHANGED <<rows, seen, job, before>>

\* A slip: the number behind a taken slug is not looked for.
GuessSlug(r) ==
  /\ At(r, "slug")
  /\ entry' = [entry EXCEPT ![r].slug[2] = IF Taken(entry[r].slug, DOMAIN categories) THEN 1 ELSE @]
  /\ Done(r, "slug")
  /\ UNCHANGED <<rows, seen, job, before>>

\* resolveUniqueSlug, one read for each number; the category's own slug counts as taken.
ResolveSlug(r) ==
  /\ At(r, "slug")
  /\ IF Taken(entry[r].slug, DOMAIN categories)
     THEN /\ entry' = [entry EXCEPT ![r].slug = <<@[1], @[2] + 1>>]
          /\ UNCHANGED <<todo, answer>>
     ELSE Done(r, "slug") /\ UNCHANGED entry
  /\ UNCHANGED <<rows, seen, job, before>>

\* The name and the slug as loaded or made, put back when the row is gone; (tenant, slug)
\* is unique.
SaveCategory(r) ==
  LET x == Target(r)
  IN  /\ \E s \in {"insertCategory", "saveCategory"} :
           /\ At(r, s)
           /\ Constrained(r, s, ~Taken(entry[r].slug, DOMAIN categories \ {x}),
                /\ categories' = Put(categories, x, entry[r])
                /\ UNCHANGED <<products, links, variants, profiles>>)
      /\ UNCHANGED <<mem, job, before>>

DeleteCategory(r) ==
  LET x == Target(r)
  IN  /\ At(r, "deleteCategory")
      /\ categories' = [y \in DOMAIN categories \ {x} |-> categories[y]]
      /\ links' = {l \in links : l.category # x}
      /\ Done(r, "deleteCategory")
      /\ UNCHANGED <<products, variants, profiles, mem, job, before>>

Next ==
  \E r \in Requests :
    \/ Begin(r)
    \/ InsertProduct(r) \/ SaveProfile(r) \/ UnlinkCategories(r) \/ LinkCategories(r)
    \/ InsertVariants(r) \/ LoadProduct(r) \/ SaveProduct(r) \/ DeleteProduct(r)
    \/ PublishProduct(r)
    \/ FindCategory(r) \/ ResolveSlug(r) \/ SaveCategory(r) \/ DeleteCategory(r)

Spec == Init /\ [][Next]_vars
-----------------------------------------------------------------------------
OfKind(kind) == {r \in Requests : job[r].kind = kind}
On(x, kind) == {r \in OfKind(kind) : Target(r) = x}
\* Requests that ran, or may have run, after what r wrote.
NotBefore(s, r) == s # r /\ Begun(s) /\ s \notin before[r]

(* Rows are well formed and refer to rows: the keys of the schema hold.    *)
TypeOK ==
  /\ DOMAIN products \subseteq ProductIds /\ DOMAIN categories \subseteq CategoryIds
  /\ \A p \in DOMAIN products : products[p] \in [Columns -> Requests \cup {Nobody}]
  /\ \A l \in links : l.product \in DOMAIN products /\ l.category \in DOMAIN categories
  /\ \A k, l \in links : k.product = l.product /\ k.category = l.category => k = l
  /\ \A v \in variants : v[1] \in DOMAIN products
  /\ \A x, y \in DOMAIN categories : Text(categories[x].slug) = Text(categories[y].slug) => x = y
  /\ answer \in [Requests -> {None, "ok", "missing", "refused", "failed"}]
  /\ before \in [Requests -> SUBSET Requests]

(* A product whose creation was answered has all that it was created with, *)
(* as long as nobody removed it, filed it elsewhere or removed the         *)
(* category: create writes four tables, and answers only when each is      *)
(* written.                                                                *)
AnsweredCreatesAreWhole ==
  \A r \in OfKind("createProduct") : answer[r] = "ok" =>
    \/ On(r, "removeProduct") # {}
    \/ /\ r \in DOMAIN products
       /\ job[r].variants # None => <<r, r>> \in variants
       /\ job[r].profile # None => \E q \in profiles : q.by = r
       /\ \A x \in job[r].links :
            \/ \E l \in LinksOf(r) : l.category = x
            \/ On(x, "removeCategory") # {}
            \/ \E u \in On(r, "updateProduct") : job[u].relink

(* What an answered update set stays set until a later or an overlapping   *)
(* update changes it: an update writes back only columns that it loaded    *)
(* before.                                                                 *)
AnsweredUpdatesHold ==
  \A u \in OfKind("updateProduct") : answer[u] = "ok" /\ Target(u) \in DOMAIN products =>
    /\ \A c \in job[u].sets :
         \/ products[Target(u)][c] = u
         \/ \E v \in On(Target(u), "updateProduct") :
              NotBefore(v, u) /\ (c \in job[v].sets \/ Overlap(u, v))
    /\ job[u].relink => \A x \in job[u].links :
         \/ \E l \in LinksOf(Target(u)) : l.category = x
         \/ On(x, "removeCategory") # {}
         \/ \E v \in Requests :
              /\ NotBefore(v, u) /\ Target(v) = Target(u)
              /\ job[v].kind = "removeProduct" \/ job[v].relink

(* The categories of a product are those of one request, unless requests   *)
(* overlapped: update removes the old links and adds the new ones in two   *)
(* statements, and of two updates both may remove before either adds.      *)
LinksAreOfOneRequest ==
  \A k, l \in links : k.product = l.product =>
    k.by = l.by \/ (Nobody \notin {k.by, l.by} /\ Overlap(k.by, l.by))

(* A product or a category that was removed is back only when an update    *)
(* overlapped its removal: the save of an entity whose row is gone inserts *)
(* it again.  The product is then without variants, and what its creation  *)
(* filed it under is lost with it.                                         *)
RemovedRowsStayRemoved ==
  /\ \A r \in OfKind("removeProduct") : answer[r] = "ok" /\ Target(r) \in DOMAIN products =>
       /\ \E u \in On(Target(r), "updateProduct") : Overlap(r, u)
       /\ \A v \in VariantsOf(Target(r)) : Overlap(v[2], r)
  /\ \A r \in OfKind("removeCategory") : answer[r] = "ok" /\ Target(r) \in DOMAIN categories =>
       \E u \in On(Target(r), "updateCategory") : Overlap(r, u)

(* The database refuses a request for what the client left out, or when    *)
(* another ran at the same time: alone, a request finds a free slug for    *)
(* its category and saves a product as it loaded it.                       *)
FailuresHaveACause ==
  \A r \in Requests : answer[r] = "failed" =>
    \/ job[r].profile = "slugless" \/ job[r].variants = "nameless"
    \/ \E s \in Requests : Overlap(r, s)
    \/ \E x \in job[r].links : x \notin DOMAIN categories \/ On(x, "removeCategory") # {}

(* A product whose storefront profile was saved and answered can be        *)
(* published: 'Cannot publish product without ecommerce profile'           *)
(* (product.service.ts:227) is for products that have none.                *)
ProfiledProductsCanBePublished ==
  \A r \in OfKind("publishProduct") : answer[r] = "refused" =>
    ~ \E s \in Requests : s \in before[r] /\ answer[s] = "ok" /\ Target(s) = Target(r)
                          /\ job[s].profile = "slugged"

=============================================================================
