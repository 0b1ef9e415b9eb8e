----------------------------- MODULE FormFields -----------------------------
(***************************************************************************)
(* The fields of a login form as form_login puts them together             *)
(* (crates/oxidarr-indexer/src/login.rs): pairs of a name and a value, in  *)
(* the order they are posted in.                                           *)
(***************************************************************************)
EXTENDS Integers, Sequences

\* The slip of adding a name that is there already a second time.
UpsertAppending(pairs, name, value) == Append(pairs, <<name, value>>)

\* A name keeps the place it had first.
Upsert(pairs, name, value) ==
    IF \E i \in DOMAIN pairs : pairs[i][1] = name
    THEN [i \in DOMAIN pairs |-> IF pairs[i][1] = name THEN <<name, value>> ELSE pairs[i]]
    ELSE Append(pairs, <<name, value>>)

UpsertAll(pairs, more) ==
    LET at[n \in 0..Len(more)] == IF n = 0 THEN pairs ELSE Upsert(at[n - 1], more[n][1], more[n][2])
    IN at[Len(more)]

----------------------------------------------------------------------------

NamesIn(pairs) == {pairs[i][1] : i \in DOMAIN pairs}

\* The first place of a name, and what is last said of it.
PlaceOf(pairs, name) ==
    CHOOSE i \in DOMAIN pairs : pairs[i][1] = name /\ \A k \in DOMAIN pairs : pairs[k][1] = name => i <= k
LastSaid(pairs, name) ==
    pairs[CHOOSE i \in DOMAIN pairs : pairs[i][1] = name /\ \A k \in DOMAIN pairs : pairs[k][1] = name => k <= i][2]

\* A login form comes back filled in: every field the page has is posted once and
\* in the page's order, before anything that is added; a field the definition
\* names holds what it was told to, a rendered credential before a scraped value
\* whatever the page says; every other one holds the last value the page gave it.
FilledIn(posted, page, scraped, rendered) ==
    /\ NamesIn(posted) = NamesIn(page) \cup NamesIn(scraped) \cup NamesIn(rendered)
    /\ \A i, k \in DOMAIN posted : posted[i][1] = posted[k][1] => i = k
    /\ \A i, k \in DOMAIN posted :
          i < k /\ posted[k][1] \in NamesIn(page) =>
              posted[i][1] \in NamesIn(page) /\ PlaceOf(page, posted[i][1]) < PlaceOf(page, posted[k][1])
    /\ \A i \in DOMAIN posted :
          LET name == posted[i][1]
          IN posted[i][2] = IF name \in NamesIn(rendered) THEN LastSaid(rendered, name)
                            ELSE IF name \in NamesIn(scraped) THEN LastSaid(scraped, name)
                            ELSE LastSaid(page, name)
=============================================================================
