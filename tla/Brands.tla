-------------------------------- MODULE Brands --------------------------------
(***************************************************************************)
(* Clients, the names they go by and the competitors tracked beside them   *)
(* (app/routers/clients.py): what the analysis skills look for in answers. *)
(* A name is unique among its siblings whatever its case.  Industry,       *)
(* vision, notes, domains and limits are left out.                         *)
(***************************************************************************)
EXTENDS Site

\* A deleted row takes the rows below it along, in the database and in the ORM: a client
\* its aliases and its competitors, a competitor the names it goes by.
NamesOf(d, entities) == {b \in d.brands : b.kind = "entity_alias" /\ b.owner \in entities}
BrandTree(d, client) ==
  LET own == {b \in d.brands : b.kind # "entity_alias" /\ b.owner = client}
  IN own \cup NamesOf(d, {b.id : b \in own})

-----------------------------------------------------------------------------
\* unique_slugify: the name, or the name and the first number that is free.
FreeSlug(d, name) ==
  <<name, CHOOSE n \in 1..Cardinality(d.clients) + 1 :
            /\ \A c \in d.clients : c.slug # <<name, n>>
            /\ \A m \in 1..n - 1 : \E c \in d.clients : c.slug = <<name, m>>>>

CreateClient(s) ==
  /\ Serving(s, "create_client")
  /\ Commit(s, TRUE, [db EXCEPT !.last = @ + 1, !.clients = @ \cup
       {[id |-> Fresh(db), slug |-> FreeSlug(Seen(s), Form(s).name)]}])

\* The check before the insertion serves the message; the index has the last word.
CanCreateBrand(f) ==
  /\ Has(OwnerTable(db, f.kind), f.id)
  /\ \A b \in Siblings(db, f.kind, f.id) : Folded[b.name] # Folded[f.name]

CreateBrand(s) ==
  /\ Serving(s, "create_brand")
  /\ Commit(s, TRUE, [db EXCEPT !.last = @ + 1, !.brands = @ \cup
       {[id |-> Fresh(db), kind |-> Form(s).kind, owner |-> Form(s).id, name |-> Form(s).name]}])

\* With the names of a competitor.
DeleteBrand(s) ==
  /\ Serving(s, "delete_brand")
  /\ Commit(s, TRUE, [db EXCEPT !.brands = Without(@ \ NamesOf(db, {Form(s).id}), {Form(s).id})])
=============================================================================
