----------------------------- MODULE MCPipeline -----------------------------
(***************************************************************************)
(* The path of one search, for TLC: the language of a definition, the      *)
(* requests it asks, the redirects they meet, the page that comes back,    *)
(* the feed that is served.                                                *)
(*                                                                         *)
(* A sample is an input of one stage, grown atom by atom over a small      *)
(* alphabet up to a length, so that every input of that length is a state; *)
(* what the stage promises is an invariant of the samples of its kind.  A  *)
(* "call" is one execute of the client, which steps as Redirects does.     *)
(***************************************************************************)
EXTENDS Redirects, SequencesExt

VARIABLE sample    \* [of |-> kind, is |-> atoms]

vars == <<sample, asked, current, hops, outcome>>

T == INSTANCE Template
F == INSTANCE Filters
D == INSTANCE DateFilters WITH MaxTime <- 2000000, MaxDuration <- 2100000
C == INSTANCE Categories
S == INSTANCE Selectors
E == INSTANCE Engine WITH MaxSize <- 255, Kilo <- 2, MaxPlaces <- 1
R == INSTANCE Requests WITH KeyOrder <- <<"$raw", "q", "r">>
X == INSTANCE Feeds WITH MaxCount <- 9999
L == INSTANCE LoginForm WITH KeyOrder <- <<"input", "p", "q">>
W == INSTANCE Rows
V == INSTANCE Resources WITH KeyOrder <- <<"apiKey", "baseUrl", "gone", "u", "v">>, Urls <- {"http://a"}
Q == INSTANCE Queries WITH MaxCount <- 9999, Kilo <- 32
I == INSTANCE Instance WITH Addresses <- {"0.0.0.0:9696", "a"}, Urls <- {"http://0.0.0.0:9696", "http://a", "u"}
M == INSTANCE Migrations WITH Versions <- <<1, 2, 3>>

----------------------------------------------------------------------------
(* Templates *)

Cfg(n) == T!Ident(T!Path("Config", n))
Scopes ==
    {[keywords |-> <<"k">>, config |-> [a |-> <<"A">>, b |-> <<>>], result |-> <<>>, query |-> <<>>,
      categories |-> c] : c \in {<<>>, <<<<"1">>, <<"2">>>>}}
Pieces ==
    {T!Plain(<<"x">>), T!Act("path", <<T!Ident(T!Item)>>), T!Act("if", <<Cfg("a")>>), T!Act("if", <<Cfg("b")>>),
     T!Act("range", <<T!Ident(T!CategoriesPath)>>), T!Act("else", <<>>), T!Act("end", <<>>),
     T!Act("re_replace", <<T!Ident(T!Item), T!Str(<<"1">>), Cfg("b")>>),
     T!Act("re_replace", <<Cfg("a"), T!Str(<<"(">>), Cfg("b")>>),
     T!Act("join", <<T!Ident(T!CategoriesPath), T!Str(<<",">>)>>), T!Act("or", <<Cfg("b"), Cfg("a")>>)}
CondTokens == {T!Tok("("), T!Tok(")"), Cfg("a"), Cfg("b"), T!Word("and"), T!Word("eq"), T!Str(<<>>)}

----------------------------------------------------------------------------
(* Filters *)

Lexemes ==
    <<D!Wd("yesterday"), D!Wd("at"), D!Wd("ago"), D!Wd("dec"), D!Wd("days"), D!Wd("and"), D!Num(3), D!Num(31),
      D!Num(1500), D!Clock24(5), D!Clock12(12, 0, FALSE), D!Offset(480), D!Offset(-90), D!Char(",")>>
\* Next to New Year, and in June.
Nows == {D!Midnight(1, 1, 1) - 30, D!Midnight(1, 1, 1), D!Midnight(1, 6, 1) + 1200}
DateParts == {"yyyy", "MM", "dd", "HH", "mm", "zzz", "K", "fff", "-", " ", "."}
Moment == [Y |-> 1, m |-> 2, d |-> 5, H |-> 23, M |-> 10, z |-> 480]

Titles == {<<>>, <<"x", "T", "x">>, <<"t", "e", "x">>, <<"x", " ", "t", "h", "e">>, <<"T", "H">>}
Whitelists == {<<"a">>, <<"X", "/", "x", ",", "a", "a">>}

----------------------------------------------------------------------------
(* Categories, selectors, pages *)

Modes == [m \in {"search"} |-> <<<<"q">>>>]
MappingRows == {C!Mapping(t, c, d) : t \in {"1", "2"}, c \in {"TV", "TV/HD", "Movies/SD", "Odd"}, d \in BOOLEAN}

\* Each atom group with its length.
SelectorParts ==
    {<<"td">>, <<" ">>, <<":contains(", "x", ")">>, <<":contains(", "'", ")", "'", ")">>, <<":has(">>, <<":not(">>,
     <<")">>, <<",">>, <<"[", "k", "=", "0", "]">>, <<"[", "k", "!=", "v", "]">>}
Table ==
    [parent |-> <<0, 1, 2, 2, 4, 1>>, tag |-> <<"root", "td", "a", "td", "a", "td">>,
     text |-> <<<<>>, <<>>, <<"x">>, <<>>, <<")">>, <<"x">>>>,
     attrs |-> <<<<>>, [k |-> <<"0">>], <<>>, [k |-> <<"v">>], <<>>, <<>>>>]
\* A part stands where the grammar has one, and no bracket closes that is not open.
Open(s) == Len(SelectSeq(s, LAMBDA c : c \in {":has(", ":not("})) - Len(SelectSeq(s, LAMBDA c : c = ")"))
            + Len(SelectSeq(s, LAMBDA c : c = ":contains(")) + Len(SelectSeq(s, LAMBDA c : c = "'")) \div 2
StandsAfter(s, part) ==
    LET starts == IF s = <<>> THEN TRUE ELSE Last(s) \in {" ", ",", ":has(", ":not("}
    IN CASE part \in {<<" ">>, <<",">>} -> ~starts
         [] part = <<")">> -> Open(s) > 0 /\ Last(s) \notin {" ", ","}
         [] part = <<"td">> -> starts
         [] OTHER -> TRUE

Result(n) == E!Repeats(n)
Chosen(selector) == [E!Field EXCEPT !.selector = <<selector>>]
Values ==
    {[Chosen(<<"a">>) EXCEPT !.attribute = <<"k">>, !.default = <<<<"d">>>>],
     [Chosen(<<"*">>) EXCEPT !.remove = <<<<"b">>>>],
     Result("title"), Result("size"),
     [E!Field EXCEPT !.text = <<<<T!Act("if", <<>>)>>>>],
     [Chosen(<<"a">>) EXCEPT !.filters = <<E!FilterSpec("andmatch", <<>>)>>],
     [Chosen(<<"a">>) EXCEPT !.filters = <<E!FilterSpec("nope", <<>>)>>],
     [Chosen(<<"b">>) EXCEPT !.remove = <<<<"(">>>>],
     [E!Field EXCEPT !.case = <<<<E!CaseEntry(<<"b">>, <<T!Plain(<<"1">>)>>),
                                  E!CaseEntry(<<"*">>, <<T!Plain(<<"2">>)>>)>>>>]}
Listing ==
    [url |-> <<"host">>, parent |-> <<0, 1, 2, 1, 4, 1, 6, 6>>, tag |-> <<"html", "tr", "a", "tr", "a", "tr", "a", "b">>,
     text |-> <<<<>>, <<>>, <<"x", "x">>, <<>>, <<"T">>, <<>>, <<"x", "x">>, <<"a">>>>,
     attrs |-> <<<<>>, <<>>, [k |-> <<"v">>], <<>>, <<>>, <<>>, <<>>, <<>>>>]
TrackerOf(fields, after) == E!Definition(<<>>, E!Rows(<<"tr">>, after), fields, <<C!Mapping(<<"1">>, "TV", FALSE)>>)

----------------------------------------------------------------------------
(* Requests *)

Query(n) == T!Act("path", <<T!Ident(T!Path(n, ""))>>)
InputSets ==
    {R!NoInputs, [q |-> <<Query("Keywords")>>], [r |-> <<T!Plain(<<"x">>)>>, q |-> <<T!Plain(<<"y", "%">>)>>],
     [n \in {R!Raw} |-> <<T!Act("range", <<T!Ident(T!CategoriesPath)>>), T!Plain(<<"c", "=">>), T!Act("path", <<T!Ident(T!Item)>>),
                          T!Plain(<<"&">>), T!Act("end", <<>>)>>]}
Paths ==
    {R!SearchPath(<<T!Plain(p)>>, "", i, c, <<>>) :
        p \in {<<"p">>, <<"p", "?", "z", "=", "1">>}, i \in InputSets, c \in {<<>>, <<<<"1">>>>}}
MappingSets ==
    {<<>>, <<C!Mapping(<<"1">>, "TV/HD", FALSE), C!Mapping(<<"2">>, "Movies", TRUE)>>,
     <<C!Mapping(<<"1">>, "TV/HD", FALSE), C!Mapping(<<"2">>, "Movies", FALSE)>>}
Asks == {R!SearchQuery(q, c) : q \in {<<>>, <<<<"a", " ", "&", "=">>>>}, c \in {{}, {5000}, {2000}, {5030}}}
Site(paths, mappings, inputs, allow) ==
    [links |-> <<<<"host">>>>, settings |-> <<>>, mappings |-> mappings,
     search |-> [paths |-> paths, path |-> <<<<T!Plain(<<"s">>)>>>>, inputs |-> inputs, headers |-> R!NoInputs,
                 allow_empty |-> allow]]

----------------------------------------------------------------------------
(* Login forms *)

Input(attrs) == [tag |-> "input", attrs |-> attrs]
FormParts ==
    {Input([name |-> <<"p">>, value |-> <<"v">>]), Input([name |-> <<"q">>, value |-> <<"w">>]), Input([name |-> <<"p">>]),
     Input([value |-> <<"w">>]), [tag |-> "q", attrs |-> [name |-> <<"p">>, value |-> <<"t">>]]}
\* Inputs are in the form, anything else is beside it.
LoginPage(parts) ==
    [url |-> <<"host", "/", "d", "/", "login">>,
     parent |-> <<0, 1>> \o [i \in DOMAIN parts |-> IF parts[i].tag = "input" THEN 2 ELSE 1],
     tag |-> <<"html", "form">> \o [i \in DOMAIN parts |-> parts[i].tag],
     text |-> <<<<>>, <<>>>> \o [i \in DOMAIN parts |-> <<" ", "x">>],
     attrs |-> <<<<>>, [action |-> <<"go">>]>> \o [i \in DOMAIN parts |-> parts[i].attrs]]
Typed ==
    {R!NoInputs, [n \in {"q"} |-> <<T!Act("path", <<Cfg("user")>>)>>], [n \in {"q", "p"} |-> <<T!Plain(<<"c">>)>>],
     [n \in {"input"} |-> <<T!Plain(<<"i", "&">>)>>]}
Scraping ==
    {R!NoInputs,
     [n \in {"q"} |-> [L!Field EXCEPT !.selector = <<<<"q">>>>, !.attribute = <<"value">>, !.default = <<<<"d">>>>]],
     [n \in {"p", "q"} |-> [L!Field EXCEPT !.selector = <<<<"input">>>>, !.attribute = <<"name">>]],
     [n \in {"p"} |-> [L!Field EXCEPT !.selector = <<<<"(">>>>]]}
Logins ==
    {[L!Login EXCEPT !.path = <<<<T!Plain(<<"l">>)>>>>, !.inputs = i, !.selectorinputs = s, !.selectors = by] :
        i \in Typed, s \in Scraping, by \in BOOLEAN}
Rules ==
    {L!ErrorRule(s, m) : s \in {<<"q">>, <<"input">>, <<"(">>},
                         m \in {<<>>, <<[L!Field EXCEPT !.text = <<<<"no">>>>]>>, <<[L!Field EXCEPT !.selector = <<<<"q">>>>]>>}}
Member == [links |-> <<<<"host">>>>, settings |-> <<[name |-> "user", default |-> <<>>]>>]

----------------------------------------------------------------------------
(* Feeds *)

Opt(v) == {X!None, <<v>>}
Http == <<"http:", "x">>
Magnet == <<"magnet:", "x">>
Releases ==
    {[X!Release EXCEPT !.title = t, !.size = z, !.seeders = s, !.leechers = l, !.download_url = u, !.magnet_url = m,
                       !.categories = c, !.publish_date = p] :
        t \in {<<"a", "&", " ", "b">>, <<"<">>}, z \in Opt(12), s \in Opt(3), l \in Opt(9997) \cup Opt(250),
        u \in {X!None, <<Http>>, <<Magnet>>}, m \in Opt(Magnet), c \in {<<>>, <<5000, 5040>>}, p \in Opt(<<"date0">>)}
Children ==
    <<X!Element("title", <<"t">>), X!Element("guid", Http), X!Element("comments", <<"c">>), X!Element("link", Magnet),
      X!Element("link", Http), <<X!Empty(<<"enclosure">>, [url |-> Http, length |-> X!Decimal(7)])>>,
      X!Element("size", X!Decimal(9)), X!Attr("seeders", X!Decimal(3)), X!Attr("peers", X!Decimal(5)),
      X!Attr("magneturl", Magnet), X!Element("wat", <<"t">>)>>
\* A child at most once, and one of the two links.
Fits(s, i) == ~Contains(s, i) /\ (i \in {4, 5} => \A k \in {4, 5} : ~Contains(s, k))
Picked(s, from) == [k \in DOMAIN s |-> from[s[k]]]

----------------------------------------------------------------------------
(* Rows and resources *)

Configured(name, kind, settings) == W!NewIndexer(name, "d", kind, FALSE, settings, 25)
Inserted(name) == [does |-> "insert", table |-> "indexers", row |-> Configured(name, "Torznab", [v |-> "1", u |-> "2"])]
Linked(kind) == W!NewApplication("n", kind, "b", "k", IF kind = "Radarr" THEN "AddOnly" ELSE "FullSync")
Statements ==
    {Inserted("m"), [does |-> "unmap", app |-> 1, indexer |-> 1],
     [does |-> "update", table |-> "applications", id |-> 1, row |-> Linked("Sonarr")]}
    \cup {[does |-> "update", table |-> "indexers", id |-> i, row |-> Configured("m", "Newznab", [v |-> "3"])] : i \in 1..2}
    \cup {[does |-> "delete", table |-> t, id |-> 1] : t \in {"indexers", "applications"}}
    \cup {[does |-> "map", app |-> 1, indexer |-> i, remote |-> r] : i \in 1..2, r \in 7..8}

Options == <<[key |-> "a", name |-> "A"], [key |-> "d", name |-> "d"]>>
DefinitionSettings ==
    {V!Setting("u", k, d, <<>>) : k \in {"text", "password"}, d \in {<<>>, <<"d">>}}
        \cup {V!Setting("u", "checkbox", d, <<>>) : d \in {<<>>, <<"d">>, <<"true">>}} \cup {V!Setting("u", "info", <<>>, <<>>)}
        \cup {V!Setting("v", "select", <<"d">>, Options)} \cup {V!Setting("v", k, <<"d">>, <<>>) : k \in {"text", "password", "checkbox"}}
\* What is stored of a setting, or nothing.
Stored == {<<>>, <<V!Str("")>>, <<V!Str("true")>>, <<V!Bool(TRUE)>>, <<V!Bool(FALSE)>>, <<V!Num("5")>>}
Saved(kind, stored) ==
    [ok |-> TRUE, id |-> 7, name |-> "n", definition_id |-> <<"d">>, kind |-> kind, enabled |-> TRUE, priority |-> 3,
     settings |-> [n \in {k \in DOMAIN stored : stored[k] /= <<>>} |-> stored[n][1]]]
\* Each setting left alone, or given what its control may give.
TypedInto(settings) ==
    LET gives == [n \in {settings[i].name : i \in DOMAIN settings} |->
                    LET own == CHOOSE i \in DOMAIN settings : settings[i].name = n
                    IN V!RenderField(V!FromSetting(settings[own]), "", {"", "t"}).gives]
    IN UNION {{t \in [touched -> UNION {gives[n] : n \in touched}] : \A n \in touched : t[n] \in gives[n]} :
                touched \in SUBSET DOMAIN gives}
Drafts ==
    {[ok |-> TRUE, id |-> 0, name |-> n, kind |-> k, base_url |-> b, api_key |-> key, sync_level |-> l] :
        n \in {"", "n"}, k \in {"Sonarr", "Radarr"}, b \in {"", "http://a", "a"}, key \in {"", "k"},
        l \in {"Disabled", "AddOnly", "FullSync"}}
App(key) == [id |-> 3, name |-> "m", kind |-> "Radarr", base_url |-> "http://a", api_key |-> key, sync_level |-> "AddOnly"]

----------------------------------------------------------------------------
(* An instance: what it is asked, and what it starts from *)

RowSets == {{[id |-> i, enabled |-> i \in on] : i \in 1..3} : on \in {{1, 2, 3}, {2, 3}}}
Instances == {[key |-> k, rows |-> r] : k \in {<<>>, <<<<"k">>>>}, r \in RowSets}
Parameters ==
    {<<<<"t">>, <<m>>>> : m \in {"search", "tvsearch", "movie", "caps", "x"}}
        \cup {<<<<"apikey">>, <<k>>>> : k \in {"k", "x"}} \cup {<<<<"season">>, <<"x">>>>, <<<<"ep">>, <<"4">>>>,
              <<<<"cat">>, <<"5", ",", "x">>>>, <<<<"imdbid">>, <<"t">>>>, <<<<"other">>, <<>>>>}
Wanted ==
    {[q |-> q, imdb_id |-> i, season |-> s, episode |-> e, categories |-> c] :
        q \in {<<>>, <<<<"a", "&", " ", "+">>>>}, i \in {<<>>, <<<<"t", "t", "1">>>>}, s \in {<<>>, <<<<"1", "0">>>>},
        e \in {<<>>, <<<<"3">>>>}, c \in {<<>>, <<5000, 2040>>}}
Ages == {1, 29, 30, 3540, 82800, 2592000 - 86400, 31536000 - 2592000}

NoEnv == I!FileConfig
Said(place, option, value) == [place |-> place, option |-> option, value |-> value]
Sayings ==
    <<Said("env", "bind", "a"), Said("env", "bind", "bad"), Said("file", "bind", "a"), Said("file", "bind", "bad"),
      Said("env", "external_url", "u"), Said("env", "external_url", "bad"), Said("file", "external_url", "bad"),
      Said("env", "definitions_auto_update", "no"), Said("env", "definitions_auto_update", "maybe"), Said("file", "definitions_auto_update", FALSE),
      Said("env", "definitions_interval", <<"0">>), Said("env", "definitions_interval", <<"7">>), Said("env", "definitions_interval", <<"x">>), Said("env", "definitions_interval", <<"-", "5">>),
      Said("file", "definitions_interval", 0), Said("file", "definitions_interval", 5),
      Said("env", "data_dir", "d"), Said("file", "data_dir", "f"), Said("file", "proxy", "p"), Said("env", "proxy", "p")>>
At(place, said) ==
    [option \in I!Options |->
        LET values == SelectSeq(said, LAMBDA x : x.place = place /\ x.option = option)
        IN [i \in DOMAIN values |-> values[i].value]]
Segments ==
    {I!Blank, I!Segment("api", ""), I!Segment("1", ""), I!Segment("assets", ""), I!Segment("app", "css"), I!Segment("app", "js"),
     I!Segment("index", "html"), I!Segment("search", "")}
Bundle == {I!IndexHtml, <<I!Segment("app", "css")>>, <<I!Segment("assets", ""), I!Segment("app", "js")>>}

----------------------------------------------------------------------------

Kinds ==
    [pieces |-> 4, condition |-> 4, literal |-> 4,
     escaped |-> 4, entities |-> 4, keywords |-> 4, split |-> 4, params |-> 3, validate |-> 4, fuzzy |-> 3, layout |-> 3, date |-> 8,
     mappings |-> 3, selector |-> 9, fields |-> 3, size |-> 3, paths |-> 2, form |-> 3,
     release |-> 1, item |-> 4, cdata |-> 4,
     statements |-> 5, settings |-> 2, application |-> 1,
     query |-> 3, categories |-> 4, toggles |-> 4, parameters |-> 3, age |-> 3,
     options |-> 4, arguments |-> 4, database |-> 3, path |-> 4]

Alphabet(kind) ==
    CASE kind = "pieces" -> Pieces [] kind = "condition" -> CondTokens
      [] kind = "literal" -> {" ", "(", "\"", "\\", "a", "."}
      [] kind = "escaped" -> {"a", "%", "+", "2", "b", " "} [] kind = "entities" -> {"&", "<", "amp", ";", "x"}
      [] kind = "keywords" -> {"t", "h", "e", "x", " "} [] kind = "split" -> {"a", ",", "x"}
      [] kind = "params" -> {<<"q">>, <<"q", "q">>, <<"r">>} \X {<<>>, <<"1">>, <<"q", "=">>}
      [] kind = "validate" -> {"a", "x", ",", "X"} [] kind = "fuzzy" -> DOMAIN Lexemes
      [] kind \in {"layout", "date"} -> DateParts
      [] kind = "mappings" -> MappingRows [] kind = "selector" -> SelectorParts
      [] kind = "fields" -> {E!Named(n, v) : n \in {"title", "size"}, v \in Values}
      [] kind = "size" -> {"0", "1", "9", "2"} [] kind = "paths" -> Paths [] kind = "form" -> FormParts
      [] kind = "release" -> Releases [] kind = "item" -> DOMAIN Children
      [] kind = "cdata" -> {"a", " ", "&", ";"} [] kind = "statements" -> Statements
      [] kind = "settings" -> DefinitionSettings [] kind = "application" -> Drafts
      [] kind = "query" -> {"a", " ", "+", "%", ",", "&", "="} [] kind = "categories" -> {"5", "0", ",", "+", "-", " ", "x"}
      [] kind = "toggles" -> 1..3 [] kind = "parameters" -> Parameters [] kind = "age" -> Ages
      [] kind = "options" -> DOMAIN Sayings [] kind = "arguments" -> {"--config", "p", "x"} [] kind = "database" -> 1..4
      [] kind = "path" -> Segments

Grown(s, kind, a) == IF kind = "selector" THEN s \o a ELSE Append(s, a)
MayGrow(s, kind, a) ==
    /\ Len(Grown(s, kind, a)) <= Kinds[kind]
    /\ kind = "selector" => StandsAfter(s, a) /\ Open(s \o a) <= Kinds[kind] - Len(s \o a)
    /\ kind = "item" => Fits(s, a)
    /\ kind = "settings" => \A i \in DOMAIN s : s[i].name /= a.name
    /\ kind = "options" => \A i \in DOMAIN s : s[i] < a /\ (Sayings[s[i]].option /= Sayings[a].option \/ Sayings[s[i]].place /= Sayings[a].place)
    /\ kind = "database" => a \notin ToSet(s)
    /\ kind = "paths" /\ s /= <<>> => s[1].inputs = R!NoInputs

Start ==
    [kind \in DOMAIN Kinds |->
        CASE kind = "date" -> <<"yyyy", "-", "MM", "-", "dd">>
          [] kind = "statements" -> <<Inserted("n"), [does |-> "insert", table |-> "applications", row |-> Linked("Radarr")]>>
          [] OTHER -> <<>>]

Idle == Execute([method |-> "GET", url |-> CHOOSE u \in Urls : TRUE, body |-> NoBody, follow |-> FALSE])

Init ==
    \/ sample \in {[of |-> kind, is |-> Start[kind]] : kind \in DOMAIN Kinds} /\ Idle
    \/ sample = [of |-> "call", is |-> <<>>] /\ InitRedirects

Grow ==
    /\ sample.of /= "call"
    /\ \E a \in Alphabet(sample.of) :
        /\ MayGrow(sample.is, sample.of, a)
        /\ sample' = [sample EXCEPT !.is = Grown(@, sample.of, a)]
    /\ UNCHANGED redirectVars

Call == sample.of = "call" /\ NextRedirect /\ UNCHANGED sample

Next == Grow \/ Call

Spec == Init /\ [][Next]_vars

----------------------------------------------------------------------------

\* A template renders what its blocks say, wherever an else or an end is left
\* out or is one too many, a condition is what and, or, eq and ne make of its
\* operands, and a quoted text is read back whole (template.rs).
TemplatesMeanTheirBlocks ==
    CASE sample.of = "pieces" -> \A scope \in Scopes : T!MeansItsBlocks(sample.is, scope)
      [] sample.of = "condition" -> \A scope \in Scopes : T!MeansItsCondition(sample.is, scope)
      [] sample.of = "literal" -> T!LiteralsReadBack(sample.is)
      [] OTHER -> TRUE

\* A filter takes away what the site put in and not more: escapes come undone
\* once, keywords only narrow, every part of a split is reached from both ends,
\* a parameter is found by its whole name,
\* a whitelist intersects, and a date is the day it is where it was written
\* (filters.rs, fuzzydate.rs, netlayout.rs).
FiltersKeepTheirWord ==
    CASE sample.of \in {"escaped", "entities"} -> F!EscapesComeUndone(sample.is)
      [] sample.of = "keywords" -> \A title \in Titles : F!KeywordsOnlyNarrow(title, F!Words(sample.is))
      [] sample.of = "split" -> \A sep \in {<<",">>, <<>>, <<"a", "x">>} : F!SplitReachesEveryPart(sample.is, sep)
      [] sample.of = "params" -> F!ParamIsTheFirst(sample.is, <<"q">>)
      [] sample.of = "validate" -> \A list \in Whitelists : F!ValidateIntersects(sample.is, list)
      [] sample.of = "fuzzy" -> \A now \in Nows : D!FuzzyIsLocal(Picked(sample.is, Lexemes), now)
      [] sample.of \in {"layout", "date"} -> D!DatesReadBack(sample.is, Moment, D!Midnight(1, 6, 1))
      [] OTHER -> TRUE

\* A category is found by the ids its releases are listed under, and by their
\* parents, whatever rows the definition maps and in which order, and caps
\* advertise those and no others (catmap.rs, torznab.rs).
CategoriesAgree ==
    sample.of = "mappings" =>
        /\ C!TableIsSearchable
        /\ \A wanted \in SUBSET {5000, 5040, 2000, 5030} : C!MappingAgrees(sample.is, wanted)
        /\ X!CapsAdvertiseTheMapped(Modes, C!FromDefinition(sample.is))

\* A well-formed selector compiles, and what it selects then is what it says,
\* however :contains, :has and :not are nested, with brackets in quotes (selector.rs).
SelectorsKeepTheirMeaning == sample.of = "selector" => S!LiftingKeepsMeaning(Table, sample.is, 1)

\* Rows do not see each other, fields see those before them, and a size is
\* exact to the byte (engine.rs).
RowsStandAlone ==
    CASE sample.of = "fields" ->
            \A after \in 0..1 : E!RowsStandAlone(TrackerOf(sample.is, after), Listing, E!NoTexts, <<<<"x", "x">>>>)
      [] sample.of = "size" /\ sample.is /= <<>> ->
            \A unit \in {"KB", "TIB", "GB", "MB", "?"}, tenths \in {<<>>, <<"0">>, <<"5">>, <<"9">>} :
                E!SizeIsExact(sample.is, tenths, unit)
      [] OTHER -> TRUE

\* What validate lets through does not fail at search time (lib.rs, engine.rs).
ValidatedExtracts ==
    sample.of = "fields" =>
        \A after \in 0..1 : E!ValidatedExtracts(TrackerOf(sample.is, after), Listing, E!NoTexts, <<<<"x", "x">>>>)

\* A search says the same by GET and by POST, and asks the paths that could
\* list what is wanted (builder.rs, query.rs).
RequestsCarryTheSearch ==
    sample.of = "paths" =>
        \A mappings \in MappingSets, inputs \in InputSets, allow \in BOOLEAN, query \in Asks :
            LET site == Site(sample.is, mappings, inputs, allow)
            IN R!SaysTheSameEitherWay(site, query, R!NoInputs) /\ R!AsksWhereTheReleasesAre(site, query, R!NoInputs)

\* A login form comes back filled in, whatever fields it has twice, and the
\* first rule that matches an answer says why it was refused (login.rs).
LoginsSayWhatTheyKnow ==
    sample.of = "form" =>
        /\ \A login \in Logins :
              /\ L!FormComesBackFilled(Member, login, LoginPage(sample.is), [user |-> <<"u">>])
              /\ L!SubmitsEitherWay(Member, login, [user |-> <<"u">>])
        /\ \A one, other \in Rules : L!FirstRuleDecides(<<one, other>>, LoginPage(sample.is))

\* A feed that is served reads back as the releases it was made of, an item
\* in any order of its children, and a text whole (torznab.rs, rss.rs).
FeedsReadBack ==
    CASE sample.of = "release" ->
            X!FeedReadsBack(sample.is, <<"t">>) /\ X!FeedReadsBack(sample.is \o sample.is, <<"&">>)
      [] sample.of = "item" ->
            X!ItemIsUnordered(Picked(sample.is, Children), Picked(SetToSortSeq(ToSet(sample.is), <), Children))
      [] sample.of = "cdata" -> \A cut \in 0..Len(sample.is) : X!TextIsWhole(sample.is, cut, "nbsp")
      [] OTHER -> TRUE

\* What is configured is what was said: tables, resources and forms hand a row
\* on without losing or mixing up any of it (oxidarr-db, api, screens).
RowsSayWhatWasSaid ==
    CASE sample.of = "statements" -> W!TablesKeepWhatIsWritten(sample.is)
      [] sample.of = "settings" ->
            \A u \in Stored, v \in {<<>>, <<V!Str("true")>>, <<V!Bool(FALSE)>>} :
                LET row == Saved("Cardigann", [u |-> u, v |-> v, gone |-> <<V!Str("t")>>])
                    definition == [name |-> "n", description |-> "", language |-> "", settings |-> sample.is,
                                   mappings |-> <<V!C!Mapping("1", "TV/HD", TRUE), V!C!Mapping("2", "Unknown", FALSE)>>]
                IN /\ \A typed \in TypedInto(sample.is) : V!FormSavesWhatItSays(<<"d">>, definition, row, typed)
                   /\ V!ListActsOnTheRow(row, {<<"d">>}) /\ V!ListActsOnTheRow(row, {})
      [] sample.of = "application" ->
            /\ sample.is /= <<>> => V!ApplicationFormAgrees(App("s"), sample.is[1])
            /\ \A kind \in {"Newznab", "Torznab"}, base \in {<<>>, <<V!Str("http://a")>>, <<V!Str("a")>>}, key \in Stored :
                  V!ListActsOnTheRow(Saved(kind, [baseUrl |-> base, apiKey |-> key]), {})
      [] OTHER -> TRUE

\* An instance answers what it is asked and starts from what it was told: a form's
\* search and another instance's arrive as they were meant, a page shows what was
\* found in its order, options, files and migrations are found where they are, and
\* the pages of the UI keep out of the routes' way (search.rs, server.rs, config.rs,
\* main.rs, oxidarr-migrate, ui.rs).
InstanceDoesAsTold ==
    CASE sample.of \in {"query", "categories", "toggles"} ->
            LET of(kind, others) == IF sample.of = kind THEN {sample.is} ELSE others
            IN \A rows \in RowSets, q \in of("query", {<<>>, <<"a">>}), c \in of("categories", {<<"5">>}), t \in of("toggles", {<<1, 2>>}) :
                  Q!FormSearchesWhatIsTyped(q, t, c, rows)
      [] sample.of = "parameters" ->
            \A instance \in Instances :
                /\ Q!ParametersStandAlone(instance, 1, sample.is)
                /\ sample.is = <<>> => \A id \in 1..4, wanted \in Wanted, key \in {<<>>, <<<<"k">>>>, <<<<"x">>>>} :
                                          Q!InstanceHandsOn(instance, id, wanted, key)
      [] sample.of = "age" ->
            LET age == FoldLeft(LAMBDA a, b : a + b, 0, sample.is) IN \A more \in {0, 1} : Q!AgesAndSizesAreInOrder(age, age + more)
      [] sample.of = "options" -> I!OptionsAreLayered(At("file", Picked(sample.is, Sayings)), At("env", Picked(sample.is, Sayings)))
      [] sample.of = "arguments" ->
            \A said \in {<<>>, <<Said("env", "data_dir", "d")>>, <<Said("file", "data_dir", "d")>>} :
                \A file \in {I!Holding(At("file", said)), [is |-> "unreadable"], [is |-> "garbled"]} :
                    I!ConfigIsFound(sample.is, file, At("env", said))
      [] sample.of = "database" ->
            \A breaks \in SUBSET (1..3) : M!MigrationsCatchUp(ToSet(sample.is), breaks)
      [] sample.of = "path" /\ sample.is /= <<>> ->
            \A dir \in {Bundle, Bundle \ {I!IndexHtml}} :
                I!BundleAnswersForItself(dir, sample.is, {<<I!Blank>>, <<I!Segment("search", "")>>, <<I!Segment("search", ""), I!Segment("1", "")>>})
      [] OTHER -> TRUE
=============================================================================
