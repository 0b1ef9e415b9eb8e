------------------------------- MODULE Requests -------------------------------
(***************************************************************************)
(* The requests of one search: build_search_requests of                    *)
(* crates/oxidarr-indexer/src/builder.rs and the query, the settings and   *)
(* the template scope of src/query.rs.  A percent escape is one atom; an   *)
(* optional value is a sequence of at most one; a BTreeMap is a function,  *)
(* walked in the order of its keys.                                        *)
(***************************************************************************)
EXTENDS Integers, Sequences, FiniteSets, SequencesExt, Text

CONSTANT KeyOrder    \* the names of inputs and headers, in the order of a BTreeMap

T == INSTANCE Template
C == INSTANCE Categories

Raw == "$raw"
Fails == [ok |-> FALSE]

----------------------------------------------------------------------------
(* query.rs *)

SearchQuery(q, categories) ==
    [q |-> q, imdb_id |-> <<>>, season |-> <<>>, episode |-> <<>>, categories |-> categories]

\* SearchQuery::keywords: what andmatch is given.
Keywords(query) == Words(Lower(Glue(query.q)))

\* Settings::resolved: only what the definition declares, the user's value
\* before the default, the default before nothing.
Resolved(user, settings) ==
    [name \in {settings[i].name : i \in DOMAIN settings} |->
        LET own == CHOOSE i \in DOMAIN settings :
                       settings[i].name = name /\ \A k \in DOMAIN settings : settings[k].name = name => k <= i
        IN IF name \in DOMAIN user THEN user[name] ELSE Glue(settings[own].default)]

ScopeFor(def, query, user, mapped) ==
    [config |-> Resolved(user, def.settings),
     keywords |-> Glue(query.q),
     query |-> [n \in {"Keywords", "Q", "IMDBID", "Season", "Ep"} |->
                  CASE n \in {"Keywords", "Q"} -> Glue(query.q) [] n = "IMDBID" -> Glue(query.imdb_id)
                    [] n = "Season" -> Glue(query.season) [] OTHER -> Glue(query.episode)],
     result |-> [n \in {} |-> <<>>],
     categories |-> mapped]

----------------------------------------------------------------------------
(* What of a definition is read *)

SearchPath(path, method, inputs, categories, followredirect) ==
    [path |-> path, method |-> method, inputs |-> inputs, categories |-> categories,
     followredirect |-> followredirect]

\* The defaults come in when nothing that was asked for is mapped, too.
MappedBy(map, query) ==
    LET mapped == C!ToTracker(map, query.categories) IN IF mapped = <<>> THEN map.defaults ELSE mapped
MappedCategories(def, query) == MappedBy(C!FromDefinition(def.mappings), query)

NoInputs == [n \in {} |-> <<>>]
EffectivePaths(search) ==
    IF search.paths /= <<>> THEN search.paths
    ELSE [i \in DOMAIN search.path |-> SearchPath(search.path[i], "", NoInputs, <<>>, <<>>)]

\* The first link, with one slash at its end; a link that is no URL is "bad".
ResolveBaseUrl(def) ==
    IF def.links = <<>> \/ def.links[1] = <<"bad">> THEN Fails
    ELSE [ok |-> TRUE, url |-> IF Last(def.links[1]) = "/" THEN def.links[1] ELSE Append(def.links[1], "/")]

IsReachable(path, mapped) ==
    path.categories = <<>> \/ mapped = <<>> \/ ToSet(mapped) \cap ToSet(path.categories) /= {}

MergedInputs(search, path) ==
    [n \in DOMAIN search.inputs \cup DOMAIN path.inputs |->
        IF n \in DOMAIN path.inputs THEN path.inputs[n] ELSE search.inputs[n]]

----------------------------------------------------------------------------
(* url: joining, and a query string of its pairs *)

Schemes == {"http:"}
Escapes == [c \in {" ", "&", "=", "+", "%", ","} |->
    CASE c = " " -> "+" [] c = "&" -> "%26" [] c = "=" -> "%3D" [] c = "+" -> "%2B" [] c = "%" -> "%25" [] c = "," -> "%2C"]
Escaped(s) == [i \in DOMAIN s |-> IF s[i] \in DOMAIN Escapes THEN Escapes[s[i]] ELSE s[i]]
Unescaped(s) ==
    [i \in DOMAIN s |-> IF \E c \in DOMAIN Escapes : Escapes[c] = s[i]
                        THEN CHOOSE c \in DOMAIN Escapes : Escapes[c] = s[i] ELSE IF s[i] = "%20" THEN " " ELSE s[i]]

PairsMade(pairs) == JoinWith([i \in DOMAIN pairs |-> Escaped(pairs[i][1]) \o <<"=">> \o Escaped(pairs[i][2])], <<"&">>)

\* form_urlencoded::parse: parts between ampersands, cut at their first "=".
PairsRead(query) ==
    LET parts == SelectSeq(SplitOn(query, <<"&">>), LAMBDA p : p /= <<>>)
        eq(p) == FindFrom(p, <<"=">>, 1)
    IN [i \in DOMAIN parts |->
          IF eq(parts[i]) = 0 THEN <<Unescaped(parts[i]), <<>>>>
          ELSE <<Unescaped(SubSeq(parts[i], 1, eq(parts[i]) - 1)), Unescaped(From(parts[i], eq(parts[i]) + 1))>>]

At(base, bare) == IF bare /= <<>> /\ bare[1] \in Schemes THEN bare ELSE base \o bare
JoinAt(base, path, mark) ==
    IF mark = 0 THEN [ok |-> TRUE, at |-> At(base, path), query |-> <<>>]
    ELSE [ok |-> TRUE, at |-> At(base, SubSeq(path, 1, mark - 1)), query |-> From(path, mark + 1)]
Join(base, path) == IF path = <<"bad">> THEN Fails ELSE JoinAt(base, path, FindFrom(path, <<"?">>, 1))

Also(query, more) == IF query = <<>> THEN more ELSE query \o <<"&">> \o more

----------------------------------------------------------------------------
(* One request *)

Pair(name, value) == [in |-> "pair", pair |-> <<<<name>>, value>>]
RawInput(value) == [in |-> "raw", value |-> value]
Empty == [in |-> "empty"]

\* A blank value goes unless the definition allows it; blanks in $raw count.
InputSaying(name, out, allowEmpty) ==
    CASE ~out.ok -> [in |-> "failed"]
      [] out.ok /\ name = Raw -> IF out.s = <<>> THEN Empty ELSE RawInput(out.s)
      [] out.ok /\ name /= Raw -> IF Trim(out.s) = <<>> /\ ~allowEmpty THEN Empty ELSE Pair(name, out.s)
RenderInput(name, pieces, scope, allowEmpty) == InputSaying(name, T!Render(pieces, scope), allowEmpty)

InOrder(names) == SelectSeq(KeyOrder, LAMBDA n : n \in names)

\* MUTANT: one form field that holds the whole fragment.
PairsOfWhole(input, method) ==
    CASE input.in = "pair" -> <<input.pair>>
      [] input.in = "raw" /\ method = "POST" -> <<<<<<Raw>>, input.value>>>>
      [] OTHER -> <<>>

\* A $raw fragment goes into the query of a GET as it is; in the form of a
\* POST it is the pairs it spells.
PairsOf(input, method) ==
    CASE input.in = "pair" -> <<input.pair>>
      [] input.in = "raw" /\ method = "POST" -> SelectSeq(PairsRead(input.value), LAMBDA p : p[1] /= <<>>)
      [] OTHER -> <<>>

JoinRendered(base, rendered) == IF rendered.ok THEN Join(base, rendered.s) ELSE Fails
WithPairs(query, pairs) == IF pairs = <<>> THEN query ELSE Also(query, PairsMade(pairs))
WithRaws(query, inputs) == FoldLeft(LAMBDA all, input : IF input.in = "raw" THEN Also(all, input.value) ELSE all, query, inputs)
Sent(method, url, inputs, pairs, headers, follow) ==
    [ok |-> TRUE, method |-> method, at |-> url.at,
     query |-> IF method = "GET" THEN WithRaws(WithPairs(url.query, pairs), inputs) ELSE url.query,
     form |-> IF method = "POST" THEN <<pairs>> ELSE <<>>,
     headers |-> [i \in DOMAIN headers |-> <<headers[i].name, headers[i].out.s>>],
     follow |-> follow]
RequestTo(url, method, inputs, headers, follow) ==
    IF ~url.ok \/ (\E i \in DOMAIN inputs : inputs[i].in = "failed") \/ \E i \in DOMAIN headers : ~headers[i].out.ok THEN Fails
    ELSE Sent(method, url, inputs, Glue([i \in DOMAIN inputs |-> PairsOf(inputs[i], method)]), headers, follow)

\* inputs is a function of names, or headers: in the order of their names.
RenderedInputs(inputs, names, scope, allowEmpty) ==
    [i \in DOMAIN names |-> RenderInput(names[i], inputs[names[i]], scope, allowEmpty)]
InputsOf(inputs, scope, allowEmpty) == RenderedInputs(inputs, InOrder(DOMAIN inputs), scope, allowEmpty)
HeadersNamed(headers, names, scope) ==
    [i \in DOMAIN names |-> [name |-> names[i], out |-> T!Render(headers[names[i]][1], scope)]]
HeadersOf(headers, scope) == HeadersNamed(headers, InOrder({n \in DOMAIN headers : headers[n] /= <<>>}), scope)

BuildRequest(search, path, base, scope) ==
    RequestTo(JoinRendered(base, T!Render(path.path, scope)), IF path.method = "post" THEN "POST" ELSE "GET",
              InputsOf(MergedInputs(search, path), scope, search.allow_empty), HeadersOf(search.headers, scope),
              path.followredirect /= <<FALSE>>)

ReachablePaths(search, mapped) == SelectSeq(EffectivePaths(search), LAMBDA p : IsReachable(p, mapped))
AllOf(requests) ==
    IF \A i \in DOMAIN requests : requests[i].ok THEN [ok |-> TRUE, requests |-> requests] ELSE Fails
BuildEach(search, paths, base, scope) ==
    IF base.ok THEN AllOf([i \in DOMAIN paths |-> BuildRequest(search, paths[i], base.url, scope)]) ELSE Fails
BuildFor(def, query, user, mapped) ==
    BuildEach(def.search, ReachablePaths(def.search, mapped), ResolveBaseUrl(def), ScopeFor(def, query, user, mapped))
BuildSearchRequests(def, query, user) == BuildFor(def, query, user, MappedCategories(def, query))

----------------------------------------------------------------------------

\* What a request says, whichever way it says it.
SaidBy(request) ==
    {p \in ToSet(PairsRead(request.query)) \cup (IF request.form = <<>> THEN {} ELSE ToSet(request.form[1])) : p[1] /= <<>>}

Flipped(path) == [path EXCEPT !.method = IF @ = "post" THEN "get" ELSE "post"]

\* A definition may ask the same by GET or by POST: the tracker reads the same
\* pairs, whatever the text of the query holds, and no input of the definition
\* is changed, lost or said twice on the way.
SaysAllInputs(said, inputs, scope, allowEmpty) ==
    \A n \in DOMAIN inputs \ {Raw} : \A value \in {T!Render(inputs[n], scope).s} :
        Trim(value) /= <<>> \/ allowEmpty => <<<<n>>, value>> \in said
FlippedIn(def) == [def EXCEPT !.search.paths = [i \in DOMAIN @ |-> Flipped(@[i])]]
SaysTheSameEitherWay(def, query, user) ==
    \A one \in {BuildSearchRequests(def, query, user)}, other \in {BuildSearchRequests(FlippedIn(def), query, user)},
       mapped \in {MappedCategories(def, query)} :
        one.ok =>
            /\ other.ok
            /\ \A asked \in {ReachablePaths(def.search, mapped)} :
                /\ Len(one.requests) = Len(asked)
                /\ \A i \in DOMAIN asked : \A said \in {SaidBy(one.requests[i])} :
                    /\ def.search.paths /= <<>> => said = SaidBy(other.requests[i])
                    /\ SaysAllInputs(said, MergedInputs(def.search, asked[i]), ScopeFor(def, query, user, mapped), def.search.allow_empty)

\* A search that wants a category asks every path that could list a release of
\* it: one that is open to all, or that is for a tracker category whose releases
\* carry a wanted id or one of a wanted block.  When the definition maps nothing
\* that is wanted, what is asked is what a search without categories asks.
Wants(query, map, category) ==
    \E n \in ToSet(C!ToNewznab(map, category)) : \E w \in query.categories : n = w \/ C!ParentOf(n) = w
CouldList(path, wanted) == path.categories = <<>> \/ ToSet(path.categories) \cap wanted /= {}
AsksWhereTheReleasesAre(def, query, user) ==
    \A map \in {C!FromDefinition(def.mappings)}, mapped \in {MappedCategories(def, query)} :
        \A wanted \in {{t \in {def.mappings[i].id : i \in DOMAIN def.mappings} : Wants(query, map, t)}} :
            /\ \A path \in ToSet(EffectivePaths(def.search)) :
                /\ CouldList(path, wanted) \/ mapped = <<>> => IsReachable(path, mapped)
                /\ IsReachable(path, mapped) /\ wanted /= {} => CouldList(path, wanted)
            /\ wanted = {} => BuildSearchRequests(def, query, user) = BuildSearchRequests(def, [query EXCEPT !.categories = {}], user)
=============================================================================
