--------------------------------- MODULE Rows ---------------------------------
(***************************************************************************)
(* The repositories of crates/oxidarr-db over their three tables: what a   *)
(* statement does to the tables, what it gives back, and the columns a row *)
(* is written to and read from.  A statement that fails changes nothing,   *)
(* but for an id past the width of an IndexerId, which is noticed after    *)
(* the INSERT.  The timestamp `added`, which nothing reads, is left out.   *)
(***************************************************************************)
EXTENDS Integers, Sequences, SequencesExt, Ordered

MaxRowId == 2147483647
NoRows == [id \in {} |-> id]

\* A table with a row written, and without some of its rows.
With(rows, k, row) == [x \in DOMAIN rows \cup {k} |-> IF x = k THEN row ELSE rows[x]]
Without(rows, gone) == [x \in DOMAIN rows \ gone |-> rows[x]]

\* Db::open on a new file: the tables of the migrations.
EmptyDb ==
    [indexers |-> NoRows, applications |-> NoRows, map |-> NoRows,
     next |-> [indexers |-> 1, applications |-> 1]]

\* The tables after a statement, and its DbError or what it gives.
Fails(db, error) == [db |-> db, error |-> error, gives |-> <<>>]
Does(db, gives) == [db |-> db, error |-> "", gives |-> gives]

----------------------------------------------------------------------------
(* Columns *)

\* as_str and from_stored of the three enumerations.
IndexerKindAsStr == [Cardigann |-> "cardigann", Newznab |-> "newznab", Torznab |-> "torznab"]
IndexerKindFromStored == [cardigann |-> "Cardigann", newznab |-> "Newznab", torznab |-> "Torznab"]
AppKindAsStr == [Sonarr |-> "sonarr", Radarr |-> "radarr"]
AppKindFromStored == [sonarr |-> "Sonarr", radarr |-> "Radarr"]
SyncLevelAsStr == [Disabled |-> "disabled", AddOnly |-> "addOnly", FullSync |-> "fullSync"]
SyncLevelFromStored == [disabled |-> "Disabled", addOnly |-> "AddOnly", fullSync |-> "FullSync"]

\* The settings as JSON text, and read from it: the members of an object, in no order.
EncodeSettings(settings) == {[name |-> n, value |-> settings[n]] : n \in DOMAIN settings}
DecodeSettings(text) == [n \in {m.name : m \in text} |-> (CHOOSE m \in text : m.name = n).value]

NewIndexer(name, definition_id, kind, enabled, settings, priority) ==
    [name |-> name, definition_id |-> definition_id, kind |-> kind, enabled |-> enabled,
     settings |-> settings, priority |-> priority]
IndexerColumns(row) ==
    [row EXCEPT !.kind = IndexerKindAsStr[@], !.enabled = IF @ THEN 1 ELSE 0, !.settings = EncodeSettings(@)]
RowToIndexer(columns) ==
    [columns EXCEPT !.kind = IndexerKindFromStored[@], !.enabled = @ /= 0, !.settings = DecodeSettings(@)]

NewApplication(name, kind, base_url, api_key, sync_level) ==
    [name |-> name, kind |-> kind, base_url |-> base_url, api_key |-> api_key, sync_level |-> sync_level]
ApplicationColumns(row) == [row EXCEPT !.kind = AppKindAsStr[@], !.sync_level = SyncLevelAsStr[@]]
RowToApplication(columns) == [columns EXCEPT !.kind = AppKindFromStored[@], !.sync_level = SyncLevelFromStored[@]]

Columns(table, row) == IF table = "indexers" THEN IndexerColumns(row) ELSE ApplicationColumns(row)
Row(table, columns) == IF table = "indexers" THEN RowToIndexer(columns) ELSE RowToApplication(columns)

----------------------------------------------------------------------------
(* IndexerRepo, ApplicationRepo *)

\* name is UNIQUE.
Taken(rows, name, id) == \E k \in DOMAIN rows \ {id} : rows[k].name = name

\* RETURNING id of an AUTOINCREMENT key.
Insert(db, table, row) ==
    LET id == db.next[table]
        written == [db EXCEPT ![table] = With(@, id, Columns(table, row)), !.next = With(@, table, id + 1)]
    IN IF Taken(db[table], row.name, id) THEN Fails(db, "sqlx")
       ELSE IF id > MaxRowId THEN Fails(written, "corrupt")
       ELSE Does(written, <<id>>)

Update(db, table, id, row) ==
    IF id \notin DOMAIN db[table] THEN Fails(db, "not found")
    ELSE IF Taken(db[table], row.name, id) THEN Fails(db, "sqlx")
    ELSE Does([db EXCEPT ![table] = With(@, id, Columns(table, row))], <<>>)

\* The mappings of the row go with it, ON DELETE CASCADE.
Delete(db, table, id) ==
    LET names(pair) == id = IF table = "applications" THEN pair[1] ELSE pair[2]
    IN IF id \notin DOMAIN db[table] THEN Fails(db, "not found")
       ELSE Does([db EXCEPT ![table] = Without(@, {id}), !.map = Without(@, {pair \in DOMAIN @ : names(pair)})], <<>>)

Get(db, table, id) ==
    IF id \notin DOMAIN db[table] THEN Fails(db, "not found") ELSE Does(db, <<Row(table, db[table][id])>>)

\* ORDER BY id.
List(db, table) ==
    LET ids == Ascending(DOMAIN db[table])
    IN [i \in DOMAIN ids |-> [id |-> ids[i], row |-> Row(table, db[table][ids[i]])]]

----------------------------------------------------------------------------
(* MappingRepo *)

\* An upsert; both rows must be there.
SetMapping(db, app, indexer, remote) ==
    IF app \notin DOMAIN db.applications \/ indexer \notin DOMAIN db.indexers THEN Fails(db, "sqlx")
    ELSE Does([db EXCEPT !.map = With(@, <<app, indexer>>, remote)], <<>>)

GetMapping(db, app, indexer) ==
    IF <<app, indexer>> \in DOMAIN db.map THEN <<db.map[<<app, indexer>>]>> ELSE <<>>

MappingRow(db, app, indexer) == [app_id |-> app, indexer_id |-> indexer, remote |-> db.map[<<app, indexer>>]]
ForApp(db, app) ==
    LET ids == Ascending({pair[2] : pair \in {p \in DOMAIN db.map : p[1] = app}})
    IN [i \in DOMAIN ids |-> MappingRow(db, app, ids[i])]
ForIndexer(db, indexer) ==
    LET ids == Ascending({pair[1] : pair \in {p \in DOMAIN db.map : p[2] = indexer}})
    IN [i \in DOMAIN ids |-> MappingRow(db, ids[i], indexer)]

\* Idempotent, unlike the deletes of rows.
DeleteMapping(db, app, indexer) ==
    Does([db EXCEPT !.map = Without(@, {<<app, indexer>>})], <<>>)

----------------------------------------------------------------------------
(* A history of statements, and what the tables should hold after it *)

Do(db, s) ==
    CASE s.does = "insert" -> Insert(db, s.table, s.row)
      [] s.does = "update" -> Update(db, s.table, s.id, s.row)
      [] s.does = "delete" -> Delete(db, s.table, s.id)
      [] s.does = "map"    -> SetMapping(db, s.app, s.indexer, s.remote)
      [] s.does = "unmap"  -> DeleteMapping(db, s.app, s.indexer)

\* The tables after the first i statements, run one after the other, and the
\* outcome of each.
Tables(history) ==
    LET db[i \in 0..Len(history)] == IF i = 0 THEN EmptyDb ELSE Do(db[i - 1], history[i]).db IN db
Outcomes(history) == LET db == Tables(history) IN [i \in DOMAIN history |-> Do(db[i - 1], history[i])]

\* What statement i says of row `id` of a table, and of a pair of ids.
Writes(history, done, i, table, id) ==
    /\ done[i].error = "" /\ history[i].does \in {"insert", "update"} /\ history[i].table = table
    /\ id = IF history[i].does = "insert" THEN done[i].gives[1] ELSE history[i].id
Removes(history, done, i, table, id) ==
    done[i].error = "" /\ history[i].does = "delete" /\ history[i].table = table /\ history[i].id = id
Maps(history, done, i, app, indexer) ==
    done[i].error = "" /\ history[i].does = "map" /\ history[i].app = app /\ history[i].indexer = indexer
Unmaps(history, done, i, app, indexer) ==
    \/ history[i].does = "unmap" /\ history[i].app = app /\ history[i].indexer = indexer
    \/ Removes(history, done, i, "applications", app) \/ Removes(history, done, i, "indexers", indexer)

\* The last statement that says something, unless a later one takes it back.
Stands(said, takenBack) == {i \in said : \A k \in said \cup takenBack : k <= i}

RowsSaid(history, done, table, id) ==
    {history[i].row : i \in Stands({i \in DOMAIN history : Writes(history, done, i, table, id)},
                                   {i \in DOMAIN history : Removes(history, done, i, table, id)})}
RemotesSaid(history, done, app, indexer) ==
    {history[i].remote : i \in Stands({i \in DOMAIN history : Maps(history, done, i, app, indexer)},
                                      {i \in DOMAIN history : Unmaps(history, done, i, app, indexer)})}
MappingsSaid(history, done) ==
    UNION {{[app_id |-> a, indexer_id |-> x, remote |-> r] : r \in RemotesSaid(history, done, a, x)} :
           a, x \in 1..Len(history)}

\* A row reads back as the last statement that wrote it said, unless it was
\* deleted since; a table is listed in the order of the ids, no name twice.
RowsReadBack(history, done, db, table) ==
    LET listed == List(db, table)
    IN /\ ToSet(listed) =
            UNION {{[id |-> id, row |-> r] : r \in RowsSaid(history, done, table, id)} : id \in 1..Len(history)}
       /\ \A i, k \in DOMAIN listed : i < k => listed[i].id < listed[k].id /\ listed[i].row.name /= listed[k].row.name
       /\ \A id \in 1..Len(history) : ToSet(Get(db, table, id).gives) = RowsSaid(history, done, table, id)

\* An id is never handed out twice, deleted or not.
IdsGrow(history, done, table) ==
    LET inserts == {i \in DOMAIN history : history[i].does = "insert" /\ history[i].table = table /\ done[i].error = ""}
    IN \A i, k \in inserts : i < k => done[i].gives[1] < done[k].gives[1]

\* A mapping stands as long as both its rows do and nothing replaces it.
MappingsReadBack(history, done, db) ==
    \A id \in 1..Len(history) :
        /\ ToSet(ForApp(db, id)) = {m \in MappingsSaid(history, done) : m.app_id = id}
        /\ ToSet(ForIndexer(db, id)) = {m \in MappingsSaid(history, done) : m.indexer_id = id}
        /\ \A other \in 1..Len(history) : ToSet(GetMapping(db, id, other)) = RemotesSaid(history, done, id, other)

\* Whatever statements come before, the tables hold what the statements that
\* succeeded said, and one that fails leaves them alone (indexer.rs,
\* application.rs, mapping.rs).
TablesKeepWhatIsWritten(history) ==
    LET done == Outcomes(history)
        db == Tables(history)
    IN /\ \A table \in {"indexers", "applications"} :
            RowsReadBack(history, done, db[Len(history)], table) /\ IdsGrow(history, done, table)
       /\ MappingsReadBack(history, done, db[Len(history)])
       /\ \A i \in DOMAIN history : done[i].error /= "" => db[i] = db[i - 1]
=============================================================================
