------------------------------ MODULE Catalogue ------------------------------
(***************************************************************************)
(* The catalogue a person searches: its entries, which of them can be      *)
(* installed, and a page of what matches                                   *)
(* (src/src/catalog.rs, catalog_index.rs, catalog_schema.rs).              *)
(*                                                                         *)
(* A name, an alias and what is typed are sequences of words.              *)
(***************************************************************************)
EXTENDS Naturals, Sequences, FiniteSets, SequencesExt, FiniteSetsExt

CONSTANTS CatalogueNames,   \* ids of lower case letters, digits and dashes
          LargestPage       \* 48

Entries(index) == {index[i] : i \in DOMAIN index}

\* Catalog::validate, of the snapshot the build takes in.
ValidCatalogue(index) ==
  /\ index # <<>> /\ IsInjective([i \in DOMAIN index |-> index[i].id])
  /\ \A e \in Entries(index) :
       /\ e.id \in CatalogueNames /\ e.name # <<>> /\ e.described
       /\ e.sources # {} /\ \A s \in e.sources : s.pinned
       /\ \A icon \in e.icon : icon.local

\* The first entry that is known by a name.
KnownAs(e, value) == <<e.id>> = value \/ e.name = value \/ value \in e.aliases
catalog_id(index, value) ==
  {index[i].id : i \in {SelectInSeq(index, LAMBDA e : KnownAs(e, value))} \ {0}}

\* What is on offer, by the entry it is listed as.  Of two offers of one entry the
\* later is meant.
installable_ids(index, offers) ==
  FoldLeft(LAMBDA ids, offer : [id \in catalog_id(index, offer.name) |-> offer.id] @@ ids, <<>>, offers)
recipe_id(index, offers, e) ==
  {ids[e.id] : ids \in {known \in {installable_ids(index, offers)} : e.id \in DOMAIN known}}

capability(index, offers, e) ==
  IF recipe_id(index, offers, e) # {} THEN "preview_install" ELSE IF e.webUi THEN "connect" ELSE "discover"

\* A filter that was not set is {}.
Matches(index, offers, query, filters, e) ==
  /\ \A i \in DOMAIN query : query[i] \in e.words
  /\ \A c \in filters.capability : capability(index, offers, e) = c \/ (c = "connect" /\ e.webUi)
  /\ filters.license \subseteq e.licenses /\ filters.architecture \subseteq e.architectures
  /\ filters.hideWarnings => ~e.warning
  /\ filters.collection \subseteq e.collections

\* Faulty: as they are in the index.
Unranked(query, matching) == matching

\* An exact name first, then a name that begins with what was typed.
Rank(query, e) ==
  CASE query = <<>> -> 0
    [] query # <<>> /\ (e.name = query \/ query \in e.aliases) -> 0
    [] query # <<>> /\ e.name # query /\ query \notin e.aliases /\ IsPrefix(query, e.name) -> 1
    [] OTHER -> 2
InOrder(query, matching) ==
  LET Of(rank) == SelectSeq(matching, LAMBDA e : Rank(query, e) = rank) IN Of(0) \o Of(1) \o Of(2)

\* `size` entries of those that were found, from an offset on.
PageOf(index, offers, found, offset, size) ==
  [i \in 1..Min({size, IF offset < Len(found) THEN Len(found) - offset ELSE 0}) |->
     [of |-> found[offset + i], capability |-> capability(index, offers, found[offset + i]),
      recipe |-> recipe_id(index, offers, found[offset + i])]]

\* `all` match but for the category, `found` match.
Answered(index, offers, all, found, offset, size) ==
  [entries |-> PageOf(index, offers, found, offset, size), total |-> Len(found), limit |-> size,
   counts |-> [c \in {e.category : e \in Entries(all)} |-> Len(SelectSeq(all, LAMBDA e : e.category = c))]]

search(index, offers, query, category, offset, limit, filters) ==
  LET all == SelectSeq(index, LAMBDA e : Matches(index, offers, query, filters, e))
  IN Answered(index, offers, all, InOrder(query, SelectSeq(all, LAMBDA e : category \subseteq {e.category})),
              offset, Max({1, Min({limit, LargestPage})}))

-----------------------------------------------------------------------------
(***************************************************************************)
(* The pages of a search are the search: no entry twice, none left out, an *)
(* entry of that very name before any that only mentions it, and the count *)
(* beside a category is what choosing the category shows.                  *)
(***************************************************************************)
SearchIsWhole(index, offers, query, filters, limit) ==
  LET Page(category, offset) == search(index, offers, query, category, offset, limit, filters)
  IN ValidCatalogue(index) => \E first \in {Page({}, 0)} :
       \E pages \in {FlattenSeq([n \in 1..first.total + 1 |-> Page({}, (n - 1) * first.limit).entries])} :
         LET At(e) == CHOOSE i \in DOMAIN pages : pages[i].of = e
             found == {pages[i].of : i \in DOMAIN pages}
         IN /\ Len(pages) = first.total /\ IsInjective(pages)
            /\ found = {e \in Entries(index) : Matches(index, offers, query, filters, e)}
            /\ \A e, d \in found : (e.name = query /\ d.name # query /\ query \notin d.aliases /\ query # <<>>) => At(e) < At(d)
            /\ \A c \in DOMAIN first.counts : \E one \in {Page({c}, 0)} :
                 one.total = first.counts[c] /\ one.counts = first.counts
            /\ \A e \in found : e.category \in DOMAIN first.counts

\* Being listed installs nothing: an entry installs what was offered under its name.
ListedIsOffered(index, offers) ==
  ValidCatalogue(index) =>
    /\ \A e \in Entries(index) : \A id \in recipe_id(index, offers, e) :
         \E i \in DOMAIN offers : offers[i].id = id /\ KnownAs(e, offers[i].name)
    /\ \A i \in DOMAIN offers : catalog_id(index, offers[i].name) # {} =>
         \E e \in Entries(index) : KnownAs(e, offers[i].name) /\ capability(index, offers, e) = "preview_install"

=============================================================================
