------------------------------- MODULE Filters -------------------------------
(***************************************************************************)
(* The filters of a Cardigann definition that work on text:                *)
(* crates/oxidarr-cardigann/src/filters.rs.  The two pairs that read the   *)
(* clock are in DateFilters.                                               *)
(***************************************************************************)
EXTENDS Integers, Sequences, FiniteSets, SequencesExt, TLC, Text, Ordered

\* FilterOutcome
Keeps(s) == [kind |-> "value", s |-> s]
DropRow == [kind |-> "drop"]

Names ==
    {"re_replace", "replace", "append", "prepend", "dateparse", "timeparse", "regexp",
     "querystring", "andmatch", "split", "trim", "timeago", "fuzzytime", "validate",
     "htmldecode", "validfilename", "urldecode", "urlencode", "diacritics", "toupper", "tolower"}

\* A filter is its name and its arguments; a missing argument is "".
Arg(filter, i) == IF i <= Len(filter.args) THEN filter.args[i] ELSE <<>>

\* parse_filter: an unknown name, or a pattern neither engine compiles.
Parses(filter) ==
    /\ filter.name \in Names
    /\ filter.name \in {"re_replace", "regexp"} => Compiles(Arg(filter, 1))

----------------------------------------------------------------------------
(* andmatch *)

WordChars == {"t", "T", "h", "e", "x", "X", "a", "A", "n", "d"} \cup DigitChars
StopWords == {<<"a", "n", "d">>, <<"t", "h", "e">>, <<"a", "n">>}

\* str::split(|c| ..) at some places: the parts between them that are not empty,
\* each from where it starts to where it ends.
Starts(s, cuts) == {i \in DOMAIN s \ cuts : i = 1 \/ i - 1 \in cuts}
EndOf(s, cuts, i) == Earliest({k \in i..(Len(s) + 1) : k = Len(s) + 1 \/ k \in cuts}) - 1
Part(s, cuts, i) == SubSeq(s, i, EndOf(s, cuts, i))

\* The words a row must hold: of the keywords joined by spaces, or of their
\* first limit characters; no single letter and no common word.
Required(keywords, limit) ==
    LET joined == JoinWith(keywords, <<" ">>)
        scope == IF limit.ok THEN SubSeq(joined, 1, IF limit.n < Len(joined) THEN limit.n ELSE Len(joined))
                 ELSE joined
        cuts == {i \in DOMAIN scope : scope[i] \notin WordChars}
    IN {w \in {Part(scope, cuts, i) : i \in Starts(scope, cuts)} : Len(w) > 1 /\ Lower(w) \notin StopWords}

AndMatch(input, keywords, limit) ==
    IF keywords = <<>> \/ \A w \in Required(keywords, limit) : Has(Lower(input), Lower(w))
    THEN Keeps(input) ELSE DropRow

\* args.first().parse::<usize>()
Limit(filter) ==
    IF Arg(filter, 1) /= <<>> /\ IsNumber(Arg(filter, 1)) /\ Number(Arg(filter, 1)) >= 0 /\ Arg(filter, 1)[1] /= "-"
    THEN [ok |-> TRUE, n |-> Number(Arg(filter, 1))] ELSE [ok |-> FALSE]

----------------------------------------------------------------------------
(* querystring, split, validate *)

QueryParam(input, key) ==
    LET mark == FindFrom(input, <<"?">>, 1)
        pairs == SplitOn(IF mark = 0 THEN input ELSE From(input, mark + 1), <<"&">>)
        hits == {k \in DOMAIN pairs : StartsWith(pairs[k], key \o <<"=">>) /\ ~Has(key, <<"=">>)}
    IN IF hits = {} THEN <<>>
       ELSE From(pairs[CHOOSE k \in hits : \A l \in hits : k <= l], Len(key) + 2)

\* -1 is the last part; out of range either way there is no part.
ResolveSplitIndex(index, len) ==
    LET resolved == IF index < 0 THEN index + len ELSE index
    IN IF resolved \in 0..(len - 1) THEN resolved + 1 ELSE 0

\* str::split on "" has an empty part before and after the characters.
Parts(input, sep) ==
    IF sep = <<>> THEN <<<<>>>> \o [i \in DOMAIN input |-> <<input[i]>>] \o <<<<>>>>
    ELSE SplitOn(input, sep)

SplitPart(input, sep, index) ==
    LET parts == Parts(input, sep)
        at == ResolveSplitIndex(index, Len(parts))
    IN IF at = 0 THEN <<>> ELSE parts[at]

Delimiters == {",", " ", "/", ")", "(", ".", ";", "[", "]", "\"", "|", ":"}
ValidateTokens(s) ==
    LET cuts == {i \in DOMAIN s : LowerChar(s[i]) \in Delimiters}
        order == Ascending(Starts(s, cuts))
    IN [k \in DOMAIN order |-> Part(Lower(s), cuts, order[k])]

\* The whitelist's tokens the input has too, in the whitelist's order, once.
ValidateIntersect(input, whitelist) ==
    LET allowed == ValidateTokens(whitelist)
        data == ToSet(ValidateTokens(input))
        kept == {k \in DOMAIN allowed : allowed[k] \in data /\ \A l \in 1..(k - 1) : allowed[l] /= allowed[k]}
    IN JoinWith(Picked(allowed, kept), <<",", " ">>)

----------------------------------------------------------------------------
(* urlencode, urldecode, htmldecode, validfilename, diacritics *)

\* Bytes of the characters that matter here; any other byte is an atom of its
\* own, and any character without an entry is one WebUtility leaves alone.
Code == [c \in {" ", "%", "&", "+", "?", "A", "a", "~"} |->
           CASE c = " " -> 32 [] c = "%" -> 37 [] c = "&" -> 38 [] c = "+" -> 43
             [] c = "?" -> 63 [] c = "A" -> 65 [] c = "a" -> 97 [] c = "~" -> 126]
Byte(v) == IF \E c \in DOMAIN Code : Code[c] = v THEN CHOOSE c \in DOMAIN Code : Code[c] = v ELSE ToString(v)

HexDigits == Digits \o <<"A", "B", "C", "D", "E", "F">>
HexValue == [c \in ToSet(HexDigits) \cup {"a", "b", "c", "d", "e", "f"} |->
               CASE c = "a" -> 10 [] c = "b" -> 11 [] c = "c" -> 12 [] c = "d" -> 13 [] c = "e" -> 14
                 [] c = "f" -> 15 [] OTHER -> (CHOOSE i \in DOMAIN HexDigits : HexDigits[i] = c) - 1]
Hex(v) == <<HexDigits[(v \div 16) + 1], HexDigits[(v % 16) + 1]>>

UrlEncode(s) ==
    Glue([i \in DOMAIN s |-> IF s[i] = " " THEN <<"+">>
                             ELSE IF s[i] \in DOMAIN Code \ {"A", "a"} THEN <<"%">> \o Hex(Code[s[i]])
                             ELSE <<s[i]>>])

\* u8::from_str_radix takes two hexadecimal digits, and a "+" and one digit.
IsHexPair(p) == p[2] \in DOMAIN HexValue /\ p[1] \in DOMAIN HexValue \cup {"+"}
HexPair(p) == (IF p[1] = "+" THEN 0 ELSE 16 * HexValue[p[1]]) + HexValue[p[2]]

\* A % with no such pair after it stays.
UrlDecode(s) ==
    LET rest[i \in 1..Len(s) + 1] ==
            IF i > Len(s) THEN <<>>
            ELSE IF s[i] = "%" /\ i + 2 <= Len(s) /\ IsHexPair(SubSeq(s, i + 1, i + 2))
            THEN <<Byte(HexPair(SubSeq(s, i + 1, i + 2)))>> \o rest[i + 3]
            ELSE <<IF s[i] = "+" THEN " " ELSE s[i]>> \o rest[i + 1]
    IN rest[1]

\* Entity names are single atoms: "amp" in <<"&", "amp", ";">>.  The numeric
\* forms name the character by its code.
Entities == [name \in {"amp", "lt", "gt", "nbsp", "#39", "#x3C", "#60"} |->
               CASE name = "amp" -> "&" [] name = "gt" -> ">" [] name = "nbsp" -> " " [] name = "#39" -> "'"
                 [] OTHER -> "<"]

\* One pass: what an entity decodes to is not looked at again, and after an
\* ampersand that names none the scan goes on right behind it.
HtmlDecode(s) ==
    LET rest[i \in 1..Len(s) + 1] ==
            LET amp == FindFrom(s, <<"&">>, i)
                semi == FindFrom(s, <<";">>, amp + 1)
                name == SubSeq(s, amp + 1, semi - 1)
            IN IF amp = 0 THEN From(s, i)
               ELSE IF semi /= 0 /\ Len(name) = 1 /\ name[1] \in DOMAIN Entities
               THEN SubSeq(s, i, amp - 1) \o <<Entities[name[1]]>> \o rest[semi + 1]
               ELSE SubSeq(s, i, amp) \o rest[amp + 1]
    IN rest[1]

Reserved == {"/", "\\", ":", "*", "?", "\"", "<", ">", "|"}
ValidFilename(s) == SelectSeq(s, LAMBDA c : c \notin Reserved)

\* A sample of the table: the accent goes, the letter and its case stay.
Folded == [a_acute |-> "a", A_acute |-> "A", i_dotless |-> "i", I_dotted |-> "I"]
FoldDiacritics(s) == [i \in DOMAIN s |-> IF s[i] \in DOMAIN Folded THEN Folded[s[i]] ELSE s[i]]

----------------------------------------------------------------------------

\* apply, without the four that read the clock.
Apply(filter, input, keywords) ==
    LET arg == Arg(filter, 1)
    IN CASE filter.name = "andmatch" -> AndMatch(input, keywords, Limit(filter))
         [] filter.name \in {"re_replace", "replace"} -> Keeps(Substitute(input, arg, Arg(filter, 2)))
         [] filter.name = "append" -> Keeps(input \o arg)
         [] filter.name = "prepend" -> Keeps(arg \o input)
         [] filter.name = "regexp" -> Keeps(IF Has(input, arg) THEN arg ELSE <<>>)
         [] filter.name = "querystring" -> Keeps(QueryParam(input, arg))
         [] filter.name = "split" ->
              Keeps(SplitPart(input, arg, IF IsNumber(Arg(filter, 2)) THEN Number(Arg(filter, 2)) ELSE 0))
         [] filter.name = "trim" ->
              Keeps(IF filter.args = <<>> THEN Trim(input) ELSE TrimOf(input, ToSet(arg)))
         [] filter.name = "validate" -> Keeps(ValidateIntersect(input, arg))
         [] filter.name = "htmldecode" -> Keeps(HtmlDecode(input))
         [] filter.name = "validfilename" -> Keeps(ValidFilename(input))
         [] filter.name = "urldecode" -> Keeps(UrlDecode(input))
         [] filter.name = "urlencode" -> Keeps(UrlEncode(input))
         [] filter.name = "diacritics" -> Keeps(FoldDiacritics(input))
         [] filter.name = "toupper" -> Keeps(Raise(input))
         [] filter.name = "tolower" -> Keeps(Lower(input))

----------------------------------------------------------------------------
(* What the filters are for, without the way they work. *)

\* What escaping once adds, decoding once takes away, and not more: a text
\* escaped twice is decoded by two calls.
HtmlEscape(s) ==
    Glue([i \in DOMAIN s |-> CASE s[i] = "&" -> <<"&", "amp", ";">> [] s[i] = "<" -> <<"&", "lt", ";">>
                               [] OTHER -> <<s[i]>>])
EscapesComeUndone(s) ==
    /\ UrlDecode(UrlEncode(s)) = s
    /\ HtmlDecode(HtmlEscape(s)) = s
    /\ HtmlDecode(HtmlDecode(HtmlEscape(HtmlEscape(s)))) = s

\* Without a search every row stays; a limit can only let more rows through,
\* but for a common word it cuts to a longer fragment than one letter; a row
\* that holds the keywords as they were typed stays, whatever the limit.
KeywordsOnlyNarrow(input, keywords) ==
    LET Stays(limit) == AndMatch(input, keywords, limit) = Keeps(input)
        all == [ok |-> FALSE]
        joined == JoinWith(keywords, <<" ">>)
    IN /\ keywords = <<>> => Stays(all)
       /\ Has(Lower(input), Lower(joined)) => Stays(all) /\ \A n \in 0..Len(joined) : Stays([ok |-> TRUE, n |-> n])
       /\ Stays(all) => \A n \in 0..Len(joined) :
            Stays([ok |-> TRUE, n |-> n]) \/ \E w \in Required(keywords, [ok |-> TRUE, n |-> n]) : Lower(w) = <<"t", "h">>

\* Counting from the end and from the front reach the same parts, the parts
\* make up the text, and one past either end is nothing.
SplitReachesEveryPart(input, sep) ==
    LET parts == Parts(input, sep)
        n == Len(parts)
    IN /\ JoinWith(parts, sep) = input
       /\ \A k \in 0..(n - 1) : SplitPart(input, sep, k) = parts[k + 1]
                                /\ SplitPart(input, sep, k - n) = parts[k + 1]
       /\ SplitPart(input, sep, n) = <<>> /\ SplitPart(input, sep, -n - 1) = <<>>

\* A sanitised list names each token once, only whitelisted ones the input
\* had, and all of those; sanitising again changes nothing.
ValidateIntersects(input, whitelist) ==
    LET out == ValidateIntersect(input, whitelist)
        tokens == ValidateTokens(out)
    IN /\ ToSet(tokens) = ToSet(ValidateTokens(input)) \cap ToSet(ValidateTokens(whitelist))
       /\ Len(tokens) = Cardinality(ToSet(tokens))
       /\ ValidateIntersect(out, whitelist) = out

\* A parameter is found by its whole name, the first of several.
ParamIsTheFirst(pairs, key) ==
    LET url == <<"x", "?">> \o JoinWith([i \in DOMAIN pairs |-> pairs[i][1] \o <<"=">> \o pairs[i][2]], <<"&">>)
        named == {i \in DOMAIN pairs : pairs[i][1] = key}
    IN QueryParam(url, key) =
         IF named = {} THEN <<>> ELSE pairs[CHOOSE i \in named : \A k \in named : i <= k][2]
=============================================================================
