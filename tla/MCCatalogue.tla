---------------------------- MODULE MCCatalogue -----------------------------
(* Three requests on a shop with one product in two categories.          *)
EXTENDS Catalogue

CONSTANTS drinks, sweets

Symmetry == Permutations(Requests)
MCBase == ("Bebidas" :> <<"bebidas">>) @@ ("BEBIDAS" :> <<"bebidas">>)
          @@ ("Bebidas 1" :> <<"bebidas", 1>>) @@ ("Doces" :> <<"doces">>)
MCFirstName == drinks :> "Bebidas" @@ sweets :> "Doces"

Change(sets, profile) ==
  [NoJob EXCEPT !.kind = "updateProduct", !.sets = sets, !.profile = profile]
New(profile, x, variant) ==
  [NoJob EXCEPT !.kind = "createProduct", !.profile = profile, !.links = x, !.variants = variant]
Of(kind, name) == [NoJob EXCEPT !.kind = kind, !.name = name]

MCJobs ==
  {New("slugged", Shelved, "named"), New("slugless", {}, None), New(None, Shelved, "nameless")}
  \cup {Change({"price"}, None), Change({"name"}, "slugged")}
  \cup {[Change({}, None) EXCEPT !.relink = TRUE, !.links = x] : x \in {{}, {drinks}, {sweets}}}
  \cup {Of(k, None) : k \in {"removeProduct", "publishProduct", "updateCategory", "removeCategory"}}
  \cup {Of("createCategory", "BEBIDAS")}
  \cup {Of("updateCategory", n) : n \in {"BEBIDAS", "Bebidas 1"}}

=============================================================================
