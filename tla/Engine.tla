-------------------------------- MODULE Engine --------------------------------
(***************************************************************************)
(* extract and validate of a Cardigann definition: the row and field loop  *)
(* of crates/oxidarr-cardigann/src/engine.rs and src/lib.rs over the       *)
(* schema of src/model.rs.  Templates, filters, selectors and categories   *)
(* are those of their own modules; a byte count is capped at MaxSize.      *)
(*                                                                         *)
(* A string is a sequence of atoms; a template is its pieces; an optional  *)
(* value is a sequence of at most one.                                     *)
(***************************************************************************)
EXTENDS Integers, Sequences, FiniteSets, SequencesExt, Text

CONSTANTS
    MaxSize,      \* u64::MAX
    Kilo,         \* 1024
    MaxPlaces     \* decimals parse_size reads, 6: 10^MaxPlaces * Kilo^4 <= MaxSize

T == INSTANCE Template
F == INSTANCE Filters
S == INSTANCE Selectors
C == INSTANCE Categories

\* CardigannError, by variant.
Errors == {"Selector", "UnbalancedContains", "Template", "UnknownFilter", "Filter", "Definition"}
Fails(error) == [ok |-> FALSE, error |-> error]
Yields(value) == [ok |-> TRUE, kind |-> "value", s |-> value]
Drops == [ok |-> TRUE, kind |-> "drop"]

----------------------------------------------------------------------------
(* The schema, with the defaults serde fills in. *)

Field ==
    [case |-> <<>>, text |-> <<>>, selector |-> <<>>, attribute |-> <<>>, remove |-> <<>>,
     filters |-> <<>>, default |-> <<>>]
FilterSpec(name, args) == [name |-> name, args |-> args]
CaseEntry(key, value) == [key |-> key, value |-> value]
Rows(selector, after) == [selector |-> selector, after |-> after, filters |-> <<>>]
SearchPath(path, response) == [path |-> path, response |-> response]
\* fields is a sequence of pairs: the order of the YAML document is kept.
Definition(paths, rows, fields, mappings) ==
    [paths |-> paths, rows |-> rows, fields |-> fields, mappings |-> mappings]
Named(name, field) == [name |-> name, field |-> field]

DeclaresJsonResponse(def) == \E i \in DOMAIN def.paths : def.paths[i].response = "json"

----------------------------------------------------------------------------
(* One field of one row.  doc is the parsed response. *)

HtmlOnly(compiled) == IF ~compiled.ok \/ compiled.json THEN Fails("Selector") ELSE compiled
CompileHtmlSelector(raw) == HtmlOnly(S!Compile(raw))

RenderedAs(out) == IF out.ok THEN Yields(out.s) ELSE Fails("Template")
Rendered(pieces, scope) == RenderedAs(T!Render(pieces, scope))

\* What the key of an entry says of a row: its own error, or whether it matches
\* the row or something in it.
KeyMatches(doc, compiled, row) ==
    IF ~compiled.ok THEN "error"
    ELSE IF S!Matches(doc, compiled, row) \/ S!Select(doc, compiled, row) /= <<>> THEN "yes" ELSE "no"
KeySays(key, doc, row) == IF key = <<"*">> THEN "yes" ELSE KeyMatches(doc, CompileHtmlSelector(key), row)

RECURSIVE CaseValue(_, _, _, _)
CaseAfter(said, case, doc, row, scope) ==
    CASE said = "yes" -> Rendered(case[1].value, scope) [] said = "error" -> Fails("Selector")
      [] OTHER -> CaseValue(Tail(case), doc, row, scope)
\* The entries in the order they are declared: the first that matches the row
\* or something in it gives the value; one that does not compile ends it.
CaseValue(case, doc, row, scope) ==
    IF case = <<>> THEN Yields(<<>>) ELSE CaseAfter(KeySays(case[1].key, doc, row), case, doc, row, scope)

\* el's text without what stands in an element of removed.
TextWithout(doc, el, removed) ==
    LET cut(d) == \E r \in removed : r = d \/ r \in S!Ancestors(doc, d)
        kept == SetToSortSeq({el} \cup {d \in S!Below(doc, el) : ~cut(d)}, <)
    IN Glue([k \in DOMAIN kept |-> doc.text[kept[k]]])

\* An attribute of the element that was found, or its text.
ElementValue(field, doc, el) ==
    LET attribute == field.attribute[1]
        remove == CompileHtmlSelector(field.remove[1])
    IN IF field.attribute /= <<>>
       THEN Yields(IF attribute \in DOMAIN doc.attrs[el] THEN doc.attrs[el][attribute] ELSE <<>>)
       ELSE IF field.remove = <<>> THEN Yields(S!TextOf(doc, el))
       ELSE IF ~remove.ok THEN remove
       ELSE Yields(TextWithout(doc, el, ToSet(S!Select(doc, remove, el))))

FirstValue(field, doc, found) == IF found = <<>> THEN Yields(<<>>) ELSE ElementValue(field, doc, found[1])
ValueBy(compiled, field, doc, row) ==
    IF compiled.ok THEN FirstValue(field, doc, S!Select(doc, compiled, row)) ELSE compiled
SelectValue(field, doc, row) == ValueBy(CompileHtmlSelector(field.selector[1]), field, doc, row)

RECURSIVE RunFilters(_, _, _)
FilterAfter(out, filters, keywords) ==
    IF out.kind = "drop" THEN Drops ELSE RunFilters(Tail(filters), out.s, keywords)
RunFilters(filters, value, keywords) ==
    IF filters = <<>> THEN Yields(value)
    ELSE IF ~F!Parses(filters[1]) THEN Fails("UnknownFilter")
    ELSE FilterAfter(F!Apply(filters[1], value, keywords), filters, keywords)

\* The filters; the default for what is still empty.
OrDefault(field, out) ==
    IF out.ok /\ out.kind = "value" /\ out.s = <<>> /\ field.default /= <<>> THEN Yields(field.default[1]) ELSE out
Finished(field, found, keywords) ==
    IF found.ok THEN OrDefault(field, RunFilters(field.filters, found.s, keywords)) ELSE found

\* case, then text, then selector.
EvaluateField(field, doc, row, scope, keywords) ==
    Finished(field,
             CASE field.case /= <<>> -> CaseValue(field.case[1], doc, row, scope)
               [] field.case = <<>> /\ field.text /= <<>> -> Rendered(field.text[1], scope)
               [] field.case = <<>> /\ field.text = <<>> /\ field.selector /= <<>> -> SelectValue(field, doc, row)
               [] OTHER -> Yields(<<>>),
             keywords)

----------------------------------------------------------------------------
(* A release *)

Digit(c) == (CHOOSE i \in DOMAIN Digits : Digits[i] = c) - 1
Units == [k \in {"KB", "KIB", "MB", "MIB", "GB", "GIB", "TB", "TIB"} |->
            CASE k \in {"KB", "KIB"} -> Kilo [] k \in {"MB", "MIB"} -> Kilo^2
              [] k \in {"GB", "GIB"} -> Kilo^3 [] OTHER -> Kilo^4]
Capped(n) == IF n > MaxSize THEN MaxSize ELSE n

\* The digits and dots in front are the number, what follows starts with the
\* unit or is bytes.  A unit is one atom.
Multiplier(unit) == IF unit \in DOMAIN Units THEN Units[unit] ELSE 1
Fraction(frac, multiplier) == IF frac = <<>> THEN 0 ELSE (Number(frac) * multiplier) \div 10^Len(frac)
SizeOf(whole, decimals, multiplier) ==
    IF ~IsNumber(whole) \/ Number(whole) > MaxSize \/ Has(decimals, <<".">>) THEN <<>>
    ELSE <<Capped(Capped(Number(whole) * multiplier)
                    + Fraction(SubSeq(decimals, 1, Min({Len(decimals), MaxPlaces})), multiplier))>>
SizeAt(digits, dot, multiplier) ==
    IF dot = 0 THEN SizeOf(digits, <<>>, multiplier)
    ELSE SizeOf(SubSeq(digits, 1, dot - 1), From(digits, dot + 1), multiplier)
SizeBefore(digits, multiplier) == SizeAt(digits, FindFrom(digits, <<".">>, 1), multiplier)
ParseCleaned(cleaned) ==
    LET other == {i \in DOMAIN cleaned : cleaned[i] \notin DigitChars \cup {"."}}
        unit == SelectSeq(From(cleaned, Earliest(other \cup {Len(cleaned) + 1})), LAMBDA c : c /= " ")
    IN SizeBefore(SubSeq(cleaned, 1, Earliest(other \cup {Len(cleaned) + 1}) - 1), IF unit = <<>> THEN 1 ELSE Multiplier(unit[1]))
ParseSize(input) == ParseCleaned(Trim(SelectSeq(input, LAMBDA c : c /= ",")))

NonEmpty(s) == IF s = <<>> THEN <<>> ELSE <<s>>

\* A value with a scheme of its own stays; any other is joined to the page it
\* was read from, and stays when nothing comes of it.
Schemes == {"http:", "magnet:"}
Unjoinable == "http:["
ResolveUrl(base, value) ==
    IF value[1] \in Schemes \cup {Unjoinable} THEN value
    ELSE IF value[1] = "/" THEN <<base[1]>> \o value
    ELSE base \o <<"/">> \o value

\* str::parse::<u32>: no sign but "+".
Unsigned32(s) == IF IsNumber(s) /\ s[1] /= "-" THEN <<Number(s)>> ELSE <<>>
WithoutCommas(s) == SelectSeq(s, LAMBDA c : c /= ",")
\* RFC 3339, as the date filters write it: one atom.
Instant(s) == IF Len(s) = 1 /\ s[1] \in {"date0", "date1"} THEN s ELSE <<>>
\* str::parse::<f64>, of a whole number.
Factor(s) == IF IsNumber(s) THEN Number(s) ELSE 1
Ratio(s) == IF IsNumber(s) THEN <<Number(s)>> ELSE <<>>

BuildRelease(values, map, base) ==
    LET get(name) == IF name \in DOMAIN values THEN values[name] ELSE <<>>
        resolved(name) == IF get(name) = <<>> THEN <<>> ELSE <<ResolveUrl(base, get(name))>>
    IN [title |-> get("title"),
        size |-> ParseSize(get("size")),
        counts |-> [n \in {"seeders", "leechers", "grabs", "files"} |-> Unsigned32(WithoutCommas(get(n)))],
        numbers |-> [n \in {"tmdbid", "tvdbid", "minimumseedtime"} |-> Unsigned32(get(n))],
        ratio |-> Ratio(get("minimumratio")),
        urls |-> [n \in {"details", "download", "poster"} |-> resolved(n)],
        texts |-> [n \in {"magnet", "infohash", "imdbid", "description", "genre"} |-> NonEmpty(get(n))],
        date |-> Instant(get("date")),
        factors |-> [n \in {"downloadvolumefactor", "uploadvolumefactor"} |-> Factor(get(n))],
        categories |-> SetToSortSeq(ToSet(C!ToNewznab(map, get("category"))), <)]

----------------------------------------------------------------------------
(* The rows *)

NoTexts == [n \in {} |-> <<>>]
With(table, name, value) == [n \in DOMAIN table \cup {name} |-> IF n = name THEN value ELSE table[n]]

\* Scope::new and the settings: no row sees what another one left.
RowScope(config) == [keywords |-> <<>>, config |-> config, result |-> NoTexts, query |-> NoTexts, categories |-> <<>>]

RECURSIVE RowValues(_, _, _, _, _)
FieldAfter(raw, fields, doc, row, scope, keywords) ==
    IF ~raw.ok \/ raw.kind = "drop" THEN raw
    ELSE RowValues(Tail(fields), doc, row, [scope EXCEPT !.result = With(@, fields[1].name, raw.s)], keywords)
\* The fields in declaration order; each result is in scope for those after.
RowValues(fields, doc, row, scope, keywords) ==
    IF fields = <<>> THEN Yields(scope.result)
    ELSE FieldAfter(EvaluateField(fields[1].field, doc, row, scope, keywords), fields, doc, row, scope, keywords)

\* What the values of a row come to: an error, one release, or none.
ReleasesOf(values, map, base) ==
    IF ~values.ok THEN values
    ELSE [ok |-> TRUE, releases |-> IF values.kind = "drop" THEN <<>> ELSE <<BuildRelease(values.s, map, base)>>]

RECURSIVE RunRows(_, _, _, _, _, _)

\* MUTANT: ending at a row that drops (a break for the continue).
RowAfterToDrop(given, rows, def, doc, config, keywords, out) ==
    IF ~given.ok THEN given
    ELSE IF given.releases = <<>> THEN [ok |-> TRUE, releases |-> out]
    ELSE RunRows(Tail(rows), def, doc, config, keywords, out \o given.releases)

\* Row by row: one that drops leaves nothing, one that fails ends it all.
RowAfter(given, rows, def, doc, config, keywords, out) ==
    IF given.ok THEN RunRows(Tail(rows), def, doc, config, keywords, out \o given.releases) ELSE given
RunRows(rows, def, doc, config, keywords, out) ==
    IF rows = <<>> THEN [ok |-> TRUE, releases |-> out]
    ELSE RowAfter(ReleasesOf(RowValues(def.fields, doc, rows[1], RowScope(config), keywords), C!FromDefinition(def.mappings), doc.url),
                  rows, def, doc, config, keywords, out)

PageRows(def, doc, selector) == From(S!Select(doc, selector, 1), def.rows.after + 1)
ExtractBy(selector, def, doc, config, keywords) ==
    IF selector.ok THEN RunRows(PageRows(def, doc, selector), def, doc, config, keywords, <<>>) ELSE selector
Extract(def, doc, config, keywords) ==
    IF DeclaresJsonResponse(def) THEN Fails("Definition")
    ELSE ExtractBy(CompileHtmlSelector(def.rows.selector), def, doc, config, keywords)

----------------------------------------------------------------------------
(* validate *)

\* A templated selector is left for later; the braces are one atom.
CheckSelector(raw) == Has(raw, <<"{{">>) \/ S!Compile(raw).ok

\* MUTANT: looking at no selector but the field's own.
ValidateFieldOwn(field, html) ==
    /\ \A sel \in ToSet(field.selector) : CheckSelector(sel)
    /\ \A text \in ToSet(field.text) : T!Render(text, RowScope(NoTexts)).ok
    /\ \A k \in DOMAIN field.filters : F!Parses(field.filters[k])

ValidateField(field, html) ==
    /\ \A sel \in ToSet(field.selector \o field.remove) : CheckSelector(sel)
    /\ html => \A case \in ToSet(field.case) : \A k \in DOMAIN case :
                    case[k].key /= <<"*">> => CheckSelector(case[k].key)
    /\ \A text \in ToSet(field.text) : T!Render(text, RowScope(NoTexts)).ok
    /\ \A k \in DOMAIN field.filters : F!Parses(field.filters[k])

Validate(def) ==
    /\ CheckSelector(def.rows.selector)
    /\ \A k \in DOMAIN def.rows.filters : F!Parses(def.rows.filters[k])
    /\ \A i \in DOMAIN def.paths : T!Render(def.paths[i].path, RowScope(NoTexts)).ok
    /\ \A i \in DOMAIN def.fields : ValidateField(def.fields[i].field, ~DeclaresJsonResponse(def))

----------------------------------------------------------------------------
(* What extraction is for *)

Repeats(name) == [Field EXCEPT !.text = <<<<T!Act("path", <<T!Ident(T!Path("Result", name))>>)>>>>]

RowStandsAlone(fields, given, told) ==
    /\ Len(given.releases) = IF told[Len(fields)].kind = "drop" THEN 0 ELSE 1
    /\ told[Len(fields)].kind = "value" =>
        \A k, j \in DOMAIN fields : fields[k].field = Repeats(fields[j].name) =>
            told[k].s[fields[k].name] = IF \E i \in 1..(k - 1) : fields[i].name = fields[j].name
                                        THEN told[k - 1].s[fields[j].name] ELSE <<>>
PageIsItsRows(fields, whole, alone, told) ==
    /\ whole.ok = \A i \in DOMAIN alone : alone[i].ok
    /\ whole.ok => /\ whole.releases = FlattenSeq([i \in DOMAIN alone |-> alone[i].releases])
                   /\ \A i \in DOMAIN alone : RowStandsAlone(fields, alone[i], told[i])

\* A row's releases do not depend on the other rows: what a page gives is what
\* its rows, but the first ones that are skipped, give one by one and in their
\* order; a row gives one release or, when a filter of it says so, none; and a
\* field that repeats another says what that one says in the same row if it
\* was declared before, and nothing if it was not.
RowsStandAlone(def, doc, config, keywords) ==
    \A selector \in {CompileHtmlSelector(def.rows.selector)}, whole \in {Extract(def, doc, config, keywords)} :
        IF DeclaresJsonResponse(def) \/ ~selector.ok THEN ~whole.ok
        ELSE \A rows \in {PageRows(def, doc, selector)} :
               PageIsItsRows(def.fields, whole, [i \in DOMAIN rows |-> RunRows(<<rows[i]>>, def, doc, config, keywords, <<>>)],
                   [i \in DOMAIN rows |-> [k \in 0..Len(def.fields) |->
                       RowValues(SubSeq(def.fields, 1, k), doc, rows[i], RowScope(config), keywords)]])

\* What validate leaves to the extraction: a selector that is a template or a
\* JSON path, a case value, and a pattern that a template puts together.
LeftOpen(def) ==
    LET fields == {def.fields[i].field : i \in DOMAIN def.fields}
        selectors == {def.rows.selector}
            \cup UNION {ToSet(f.selector \o f.remove) : f \in fields}
            \cup UNION {{c[k].key : k \in DOMAIN c} : c \in UNION {ToSet(f.case) : f \in fields}}
    IN \/ \E sel \in selectors : Has(sel, <<"{{">>) \/ S!IsJsonPath(Trim(sel))
       \/ \E f \in fields : \E c \in ToSet(f.case) : \E k \in DOMAIN c : ~T!Parse(c[k].value).ok
       \/ \E f \in fields : \E text \in ToSet(f.text) : \E k \in DOMAIN text : text[k].head = "re_replace"

\* A definition that validate lets through extracts every page: nothing in it
\* can fail at search time but what validate does not look at.
ValidatedExtracts(def, doc, config, keywords) ==
    Validate(def) /\ ~DeclaresJsonResponse(def) /\ ~LeftOpen(def) => Extract(def, doc, config, keywords).ok

\* A size is the decimal number times its unit, rounded down to the byte, and
\* the largest count there is for anything above it.
SizeIsExact(whole, tenths, unit) ==
    LET text == whole \o (IF tenths = <<>> THEN <<>> ELSE <<".">> \o tenths) \o <<" ", unit>>
        multiplier == Multiplier(unit)
    IN IsNumber(whole) /\ Number(whole) <= MaxSize =>
         LET bytes == ((10 * Number(whole) + (IF tenths = <<>> THEN 0 ELSE Number(tenths))) * multiplier) \div 10
         IN ParseSize(text) = <<IF bytes > MaxSize THEN MaxSize ELSE bytes>>
=============================================================================
