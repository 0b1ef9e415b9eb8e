----------------------------- MODULE Categories -----------------------------
(***************************************************************************)
(* The standard Newznab categories (crates/oxidarr-cardigann/src/          *)
(* categories.rs) and a definition's mapping of its tracker's categories   *)
(* onto them (catmap.rs).                                                  *)
(***************************************************************************)
EXTENDS Integers, Sequences, SequencesExt, Ordered

\* A row of the table; a block has no parent.
NewznabCategory(id, name, parent) == [id |-> id, name |-> name, parent |-> parent]
NoParent == 0
Block(id, name, subs) ==
    <<NewznabCategory(id, name, NoParent)>> \o [i \in DOMAIN subs |-> NewznabCategory(subs[i][1], subs[i][2], id)]

ConsoleBlock == Block(1000, "Console",
    <<<<1010, "Console/NDS">>, <<1020, "Console/PSP">>, <<1030, "Console/Wii">>,
      <<1040, "Console/XBox">>, <<1050, "Console/XBox 360">>, <<1060, "Console/Wiiware">>,
      <<1070, "Console/XBox 360 DLC">>, <<1080, "Console/PS3">>, <<1090, "Console/Other">>,
      <<1110, "Console/3DS">>, <<1120, "Console/PS Vita">>, <<1130, "Console/WiiU">>,
      <<1140, "Console/XBox One">>, <<1180, "Console/PS4">>>>)
MoviesBlock == Block(2000, "Movies",
    <<<<2010, "Movies/Foreign">>, <<2020, "Movies/Other">>, <<2030, "Movies/SD">>,
      <<2040, "Movies/HD">>, <<2045, "Movies/UHD">>, <<2050, "Movies/BluRay">>,
      <<2060, "Movies/3D">>, <<2070, "Movies/DVD">>, <<2080, "Movies/WEB-DL">>>>)
AudioBlock == Block(3000, "Audio",
    <<<<3010, "Audio/MP3">>, <<3020, "Audio/Video">>, <<3030, "Audio/Audiobook">>,
      <<3040, "Audio/Lossless">>, <<3050, "Audio/Other">>, <<3060, "Audio/Foreign">>>>)
PCBlock == Block(4000, "PC",
    <<<<4010, "PC/0day">>, <<4020, "PC/ISO">>, <<4030, "PC/Mac">>, <<4040, "PC/Mobile-Other">>,
      <<4050, "PC/Games">>, <<4060, "PC/Mobile-iOS">>, <<4070, "PC/Mobile-Android">>>>)
TVBlock == Block(5000, "TV",
    <<<<5010, "TV/WEB-DL">>, <<5020, "TV/Foreign">>, <<5030, "TV/SD">>, <<5040, "TV/HD">>,
      <<5045, "TV/UHD">>, <<5050, "TV/Other">>, <<5060, "TV/Sport">>, <<5070, "TV/Anime">>,
      <<5080, "TV/Documentary">>>>)
AdultBlock == Block(6000, "XXX",
    <<<<6010, "XXX/DVD">>, <<6020, "XXX/WMV">>, <<6030, "XXX/XviD">>, <<6040, "XXX/x264">>,
      <<6045, "XXX/UHD">>, <<6050, "XXX/Pack">>, <<6060, "XXX/ImageSet">>, <<6070, "XXX/Other">>,
      <<6080, "XXX/SD">>, <<6090, "XXX/WEB-DL">>>>)
BooksBlock == Block(7000, "Books",
    <<<<7010, "Books/Mags">>, <<7020, "Books/EBook">>, <<7030, "Books/Comics">>,
      <<7040, "Books/Technical">>, <<7050, "Books/Other">>, <<7060, "Books/Foreign">>>>)
OtherBlock == Block(8000, "Other",
    <<<<8010, "Other/Misc">>, <<8020, "Other/Hashed">>>>)

Table ==
    ConsoleBlock \o MoviesBlock \o AudioBlock \o PCBlock
        \o TVBlock \o AdultBlock \o BooksBlock \o OtherBlock

\* slice::binary_search_by_key: where the id stands, 0 when it is not there.
ById(id) ==
    LET find[lo \in 1..(Len(Table) + 1), hi \in 0..Len(Table)] ==
            LET mid == (lo + hi) \div 2
            IN IF lo > hi THEN 0
               ELSE IF Table[mid].id = id THEN mid
               ELSE IF Table[mid].id < id THEN find[mid + 1, hi] ELSE find[lo, mid - 1]
    IN find[1, Len(Table)]

\* A block is its own parent; an id outside the table has none.
ParentAt(place, id) ==
    IF place = 0 THEN NoParent ELSE IF Table[place].parent = NoParent THEN id ELSE Table[place].parent
ParentOf(id) == ParentAt(ById(id), id)

----------------------------------------------------------------------------
(* CategoryMap: a definition maps tracker ids to category names, row by    *)
(* row; a row may be one of the defaults.                                  *)

Mapping(id, cat, default) == [id |-> id, cat |-> cat, default |-> default]

NamedRow(name) == {i \in DOMAIN Table : Table[i].name = name}

\* The rows of one of the names of the table, mapped.
Entries(mappings) ==
    LET known == Picked(mappings, {i \in DOMAIN mappings : NamedRow(mappings[i].cat) /= {}})
    IN [i \in DOMAIN known |->
            [tracker |-> known[i].id, newznab |-> Table[CHOOSE r \in NamedRow(known[i].cat) : TRUE].id]]

Flagged(mappings) ==
    LET flagged == Picked(mappings, {i \in DOMAIN mappings : mappings[i].default})
    IN Distinct([i \in DOMAIN flagged |-> flagged[i].id])

\* MUTANT: skipping a row whose name is unknown altogether.
FromKnownOnly(mappings) ==
    [entries |-> Entries(mappings), defaults |-> Flagged(SelectSeq(mappings, LAMBDA m : NamedRow(m.cat) /= {}))]

\* from_definition: an unknown name maps to nothing, its default still counts.
FromDefinition(mappings) == [entries |-> Entries(mappings), defaults |-> Flagged(mappings)]

ToNewznab(map, tracker) ==
    LET own == Picked(map.entries, {i \in DOMAIN map.entries : map.entries[i].tracker = tracker})
    IN Distinct([i \in DOMAIN own |-> own[i].newznab])

\* A category that was asked for, or a child of a block that was.
Matches(entry, wanted) == \E w \in wanted : w = entry.newznab \/ ParentOf(entry.newznab) = w

ToTracker(map, wanted) ==
    LET hits == Picked(map.entries, {i \in DOMAIN map.entries : Matches(map.entries[i], wanted)})
    IN Distinct([i \in DOMAIN hits |-> hits[i].tracker])

NewznabIds(map) == Ascending({map.entries[i].newznab : i \in DOMAIN map.entries})

\* The block an id is listed in; a block, and an id outside the table, is its own.
BlockOf(id) == IF ParentOf(id) = NoParent THEN id ELSE ParentOf(id)

\* write_categories of torznab.rs: the ids below their block, the block for itself.
CategoryGroups(map) ==
    LET ids == ToSet(NewznabIds(map))
    IN [b \in {BlockOf(id) : id \in ids} |-> {id \in ids : BlockOf(id) = b /\ id /= b}]

----------------------------------------------------------------------------

\* Two ids are of one block when they agree in the thousands.
SameBlock(a, b) == a \div 1000 = b \div 1000
IsBlock(id) == id % 1000 = 0

\* A search by category and the categories of what it finds agree: a tracker
\* category is asked for exactly when one of the ids its releases will carry
\* was wanted, or the block of one; a subcategory never brings in a tracker
\* that is mapped to the bare block.  What no row of the definition says is
\* never asked for, a row that is flagged is a default once, whether or not
\* its name is known, and what the definition advertises is what it maps.
MappingAgrees(mappings, wanted) ==
    LET map == FromDefinition(mappings)
        ids == {mappings[i].id : i \in DOMAIN mappings}
        asked == ToSet(ToTracker(map, wanted))
    IN /\ \A t \in ids : t \in asked <=>
            \E n \in ToSet(ToNewznab(map, t)) : \E w \in wanted : n = w \/ (IsBlock(w) /\ SameBlock(n, w))
       /\ asked \subseteq ids
       /\ ToSet(map.defaults) = {mappings[i].id : i \in {k \in DOMAIN mappings : mappings[k].default}}
       /\ Len(map.defaults) = Cardinality(ToSet(map.defaults))
       /\ ToSet(NewznabIds(map)) = UNION {ToSet(ToNewznab(map, t)) : t \in ids}
       /\ \A n \in ToSet(NewznabIds(map)) : ToTracker(map, {n}) /= <<>>

\* A category that is advertised is one the definition maps or the block of
\* one, and each that is mapped is advertised, below its own block.
GroupsHoldTheMapped(groups, map) ==
    LET ids == ToSet(NewznabIds(map))
    IN /\ ids = (UNION {groups[b] : b \in DOMAIN groups}) \cup (ids \cap DOMAIN groups)
       /\ \A b \in DOMAIN groups :
            /\ ParentOf(b) = b
            /\ b \in ids \/ groups[b] /= {}
            /\ \A id \in groups[b] : ParentOf(id) = b
            /\ ToTracker(map, {b}) /= <<>>

\* Each name is in the table once, every id is found where it stands, an id and
\* its parent agree in the thousands, and the parent is in the table.
TableIsSearchable ==
    \A i \in DOMAIN Table :
        /\ NamedRow(Table[i].name) = {i}
        /\ ById(Table[i].id) = i
        /\ {Table[i].id, ParentOf(Table[i].id)} \subseteq Nat \ {NoParent}
        /\ SameBlock(ParentOf(Table[i].id), Table[i].id) /\ IsBlock(ParentOf(Table[i].id))
        /\ \E k \in DOMAIN Table : Table[k].id = ParentOf(Table[i].id)
=============================================================================
