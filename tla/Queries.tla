------------------------------- MODULE Queries -------------------------------
(***************************************************************************)
(* What is asked of an instance and what is shown of the answer: the       *)
(* search form of crates/oxidarr-ui (screens/search.rs, SearchParams of    *)
(* dto.rs), the query of GET /api/v1/search (api/search.rs, api/dto.rs),   *)
(* and the Torznab route of crates/oxidarr-prowl/src/server.rs.  A text is *)
(* a sequence of characters, a percent escape or a name one of them; an    *)
(* Option is a sequence of at most one.                                    *)
(***************************************************************************)
EXTENDS Integers, Sequences, FiniteSets, SequencesExt, Text

CONSTANTS
    MaxCount,    \* the largest id that parses
    Kilo         \* 1024

R == INSTANCE Requests WITH KeyOrder <- <<>>
X == INSTANCE Feeds

None == <<>>
OrEmpty(text) == IF text = None THEN <<>> ELSE text[1]

----------------------------------------------------------------------------
(* screens/search.rs, dto.rs of the UI *)

\* What is no number is dropped.
ParseCategoryIds(input) ==
    LET parts == SplitOn(input, <<",">>)
    IN FlattenSeq([i \in DOMAIN parts |-> X!Parsed(Trim(parts[i]))])

SearchParams(query, indexer_ids, categories) ==
    [query |-> query, indexer_ids |-> indexer_ids, categories |-> categories]

BuildSearchParams(query, indexer_ids, categories_input) ==
    SearchParams(IF Trim(query) = <<>> THEN None ELSE <<Trim(query)>>, indexer_ids, ParseCategoryIds(categories_input))

\* A checkbox: out if it is in, in its place if it is not.
OnIndexerToggle(ids, id) ==
    IF id \in ToSet(ids) THEN SelectSeq(ids, LAMBDA i : i /= id) ELSE SetToSortSeq(ToSet(ids) \cup {id}, <)

Reserved == [c \in {" ", "&", "=", "+", "%", ","} |-> IF c = " " THEN "%20" ELSE R!Escapes[c]]

\* MUTANT: a plus goes as it is.
PercentEncodeButPlus(value) ==
    [i \in DOMAIN value |-> IF value[i] \in DOMAIN Reserved \ {"+"} THEN Reserved[value[i]] ELSE value[i]]

PercentEncode(value) ==
    [i \in DOMAIN value |-> IF value[i] \in DOMAIN Reserved THEN Reserved[value[i]] ELSE value[i]]

Joined(ids) == JoinWith([i \in DOMAIN ids |-> X!Decimal(ids[i])], <<",">>)

ToQueryString(params) ==
    LET part(name, values) == IF values = None THEN <<>> ELSE <<<<name, "=">> \o values[1]>>
        list(ids) == IF ids = <<>> THEN None ELSE <<Joined(ids)>>
        query == IF params.query = None THEN None ELSE <<PercentEncode(params.query[1])>>
    IN JoinWith(part("query", query) \o part("indexerIds", list(params.indexer_ids))
                    \o part("categories", list(params.categories)), <<"&">>)

----------------------------------------------------------------------------
(* api/search.rs *)

\* These may be negative, and then name no row.
ParseIndexerIds(input) ==
    LET parts == SplitOn(input, <<",">>)
        id(s) == IF IsNumber(s) /\ Number(s) \in (-MaxCount - 1)..MaxCount THEN <<Number(s)>> ELSE <<>>
    IN FlattenSeq([i \in DOMAIN parts |-> id(Trim(parts[i]))])

\* The first query; the ids of every occurrence.
ParseSearchParams(raw) ==
    LET pairs == R!PairsRead(raw)
        of(name) == SelectSeq(pairs, LAMBDA p : p[1] = <<name>>)
        ids(name, Parse(_)) == FlattenSeq([i \in DOMAIN of(name) |-> Parse(of(name)[i][2])])
    IN SearchParams(IF of("query") = <<>> THEN None ELSE <<of("query")[1][2]>>,
                    ids("indexerIds", ParseIndexerIds), ids("categories", ParseCategoryIds))

BuildSearchQuery(params) == R!SearchQuery(params.query, params.categories)

IsSelected(row, indexer_ids) == row.enabled /\ (indexer_ids = <<>> \/ row.id \in ToSet(indexer_ids))

----------------------------------------------------------------------------
(* server.rs *)

ParseCategories(raw) == ParseCategoryIds(OrEmpty(raw))

ParamNames == {"apikey", "t", "q", "imdbid", "season", "ep", "cat"}

\* axum's Query refuses a name that comes twice and ignores others.
ApiParams(pairs) ==
    LET of(name) == SelectSeq(pairs, LAMBDA p : p[1] = <<name>>)
    IN IF \E name \in ParamNames : Len(of(name)) > 1 THEN [ok |-> FALSE]
       ELSE [ok |-> TRUE, given |-> [name \in ParamNames |-> [i \in DOMAIN of(name) |-> of(name)[i][2]]]]

XmlResponse(status, error) == [status |-> status, error |-> error, does |-> "nothing"]
SearchResponse(row, query) == [status |-> 200, error |-> 0, does |-> "search", row |-> row.id, query |-> query]
CapsResponse(row) == [status |-> 200, error |-> 0, does |-> "caps", row |-> row.id]

\* What a mode reads of the parameters.
ModeQuery(mode, given) ==
    LET number(text) == IF text = None THEN None ELSE X!Parsed(text[1])
        query == R!SearchQuery(given["q"], ParseCategories(given["cat"]))
    IN CASE mode = "tvsearch" -> [query EXCEPT !.season = number(given["season"]), !.episode = number(given["ep"])]
         [] mode = "movie"    -> [query EXCEPT !.imdb_id = given["imdbid"]]
         [] mode = "search"   -> query

\* instance: its key, or none when the database is away, and its rows.
HandleApi(instance, id, pairs) ==
    LET params == ApiParams(pairs)
        given == params.given
        row == CHOOSE r \in instance.rows : r.id = id
        mode == given["t"][1]
    IN IF ~params.ok THEN XmlResponse(400, 0)
       ELSE IF instance.key = None THEN XmlResponse(500, 900)
       ELSE IF OrEmpty(given["apikey"]) /= instance.key[1] THEN XmlResponse(401, 100)
       ELSE IF ~\E r \in instance.rows : r.id = id /\ r.enabled THEN XmlResponse(200, 201)
       ELSE IF given["t"] = None THEN XmlResponse(200, 200)
       ELSE IF mode = <<"caps">> THEN CapsResponse(row)
       ELSE IF mode \in {<<"search">>, <<"tvsearch">>, <<"movie">>} THEN SearchResponse(row, ModeQuery(mode[1], given))
       ELSE XmlResponse(200, 202)

----------------------------------------------------------------------------
(* The counts of a result row *)

\* A unit and how many of it, in tenths but for bytes; the last unit has no end.
Units == <<"KiB", "MiB", "GiB", "TiB">>
Rounded(n, d) ==
    LET twice == 2 * (n % d)
    IN n \div d + (IF twice > d \/ (twice = d /\ (n \div d) % 2 = 1) THEN 1 ELSE 0)
HumanizeSize(bytes) ==
    LET fits == {k \in DOMAIN Units : bytes >= Kilo^k}
        k == CHOOSE i \in fits : \A j \in fits : j <= i
    IN IF bytes < Kilo THEN [count |-> bytes, unit |-> "B"]
       ELSE [count |-> Rounded(10 * bytes, Kilo^k), unit |-> Units[k]]

AgeUnits == <<[unit |-> "minute", is |-> 60], [unit |-> "hour", is |-> 3600], [unit |-> "day", is |-> 86400],
              [unit |-> "month", is |-> 30 * 86400], [unit |-> "year", is |-> 365 * 86400]>>
\* The age in seconds, below zero when the clocks disagree.
HumanizeAge(age) ==
    LET past == {k \in DOMAIN AgeUnits : age >= AgeUnits[k].is}
        k == CHOOSE i \in past : \A j \in past : j <= i
    IN IF past = {} THEN [count |-> 0, unit |-> "just now"] ELSE [count |-> age \div AgeUnits[k].is, unit |-> AgeUnits[k].unit]

----------------------------------------------------------------------------

\* What is typed is what is searched, blanks around it aside, whatever it is made
\* of; the ids typed are read as the server would read them where they stand; the
\* rows searched are those checked and enabled, all if none is (screens/search.rs,
\* api/search.rs).
FormSearchesWhatIsTyped(query, toggles, categories, rows) ==
    LET ids == FoldLeft(OnIndexerToggle, <<>>, toggles)
        heard == ParseSearchParams(ToQueryString(BuildSearchParams(query, ids, categories)))
        checked == {id \in ToSet(toggles) : Len(SelectSeq(toggles, LAMBDA t : t = id)) % 2 = 1}
        straight == ParseSearchParams(<<"categories", "=">> \o PercentEncode(categories))
    IN /\ BuildSearchQuery(heard) = R!SearchQuery(IF Trim(query) = <<>> THEN None ELSE <<Trim(query)>>, straight.categories)
       /\ {r \in rows : IsSelected(r, heard.indexer_ids)}
            = {r \in rows : r.enabled /\ (checked = {} \/ r.id \in checked)}

\* An instance that is an indexer of another is asked at the route of its row, with
\* a slash or an api at the end of its address or without, and searches what the other one was
\* asked, an imdb id aside, which no mode of a search carries over; without the
\* key, or of a row that is off, nothing is searched (indexer.rs, server.rs).
InstanceHandsOn(instance, id, query, key) ==
    LET base(path) == X!BuildUrl([host |-> "host", path |-> path], query, key)
        pairs == base(<<"id">>).pairs
        sent == R!PairsRead(R!PairsMade([i \in DOMAIN pairs |-> <<<<pairs[i][1]>>, pairs[i][2]>>]))
        reply == HandleApi(instance, id, sent)
        allowed == instance.key /= None /\ key = instance.key /\ \E r \in instance.rows : r.id = id /\ r.enabled
        numbers(q) == [q EXCEPT !.season = IF @ = None THEN None ELSE X!Parsed(@[1]),
                                !.episode = IF @ = None THEN None ELSE X!Parsed(@[1])]
    IN /\ \A path \in {<<"id">>, <<"id", "">>, <<"id", "api">>} : base(path).url = [host |-> "host", path |-> <<"id", "api">>]
       /\ reply.does = "search" <=> allowed
       /\ allowed => reply.row = id /\ reply.query = numbers([query EXCEPT !.imdb_id = None])

\* A parameter is read whatever comes before and after it, and one that comes
\* twice is refused rather than read once (server.rs).
ParametersStandAlone(instance, id, pairs) ==
    LET reply == HandleApi(instance, id, pairs)
    IN /\ HandleApi(instance, id, Reverse(pairs)) = reply
       /\ \A i \in DOMAIN pairs :
            LET twice == HandleApi(instance, id, Append(pairs, pairs[i]))
            IN IF Cardinality({name \in ParamNames : pairs[i][1] = <<name>>}) = 1 THEN twice.does = "nothing" ELSE twice = reply

\* A count is cut to what it is at least, a size rounded to the tenth, and nothing
\* older or larger is shown as younger or smaller (screens/search.rs).
AgesAndSizesAreInOrder(a, b) ==
    LET seconds(n) ==
            LET shown == HumanizeAge(n)
            IN IF shown.unit = "just now" THEN 0
               ELSE shown.count * AgeUnits[CHOOSE i \in DOMAIN AgeUnits : AgeUnits[i].unit = shown.unit].is
        power(n) == IF HumanizeSize(n).unit = "B" THEN 0 ELSE CHOOSE k \in DOMAIN Units : Units[k] = HumanizeSize(n).unit
        tenths(n) == IF power(n) = 0 THEN 10 * n ELSE HumanizeSize(n).count * Kilo^power(n)
    IN /\ a < b => seconds(a) <= seconds(b) /\ tenths(a) <= tenths(b)
       /\ seconds(a) <= a
       /\ 2 * (tenths(a) - 10 * a) \in -(Kilo^power(a))..(Kilo^power(a))
=============================================================================
