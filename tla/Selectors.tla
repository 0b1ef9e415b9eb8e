------------------------------ MODULE Selectors ------------------------------
(***************************************************************************)
(* jQuery-flavoured selectors over standard CSS:                           *)
(* crates/oxidarr-cardigann/src/selector.rs.  A selector is a sequence of  *)
(* atoms: an identifier, a space, a punctuation mark, or one of the three  *)
(* marker tokens with its parenthesis.  What scraper does with standard    *)
(* CSS is the evaluator of the last section but one.                       *)
(*                                                                         *)
(* A document is a tree of elements 1..n in document order, each with a    *)
(* parent (0 for the root's), a tag, its own text, which precedes its      *)
(* children's, and attributes.                                             *)
(***************************************************************************)
EXTENDS Integers, Sequences, FiniteSets, SequencesExt, Text

Quotes == {"'", "\""}
Markers == {":contains(", ":has(", ":not("}
Bad == [ok |-> FALSE]

----------------------------------------------------------------------------
(* Scanning.  The level of an atom is how many brackets are open before    *)
(* it; an atom that is quoted, a quote, or escaped has none.               *)

Opaque == -99

\* A backslash escapes the next atom inside quotes, and outside them too for
\* the functions on attributes (everywhere).
Levels(s, opens, closes, everywhere) ==
    FoldLeft(LAMBDA st, c :
        CASE st.skip -> [st EXCEPT !.skip = FALSE, !.at = Append(@, Opaque)]
          [] ~st.skip /\ c = "\\" /\ (everywhere \/ st.quote /= "") ->
                [st EXCEPT !.skip = TRUE, !.at = Append(@, Opaque)]
          [] ~st.skip /\ st.quote /= "" /\ (c /= "\\") ->
                [st EXCEPT !.quote = IF c = @ THEN "" ELSE @, !.at = Append(@, Opaque)]
          [] ~st.skip /\ st.quote = "" /\ c \in Quotes -> [st EXCEPT !.quote = c, !.at = Append(@, Opaque)]
          [] OTHER -> [st EXCEPT !.at = Append(@, st.depth),
                                 !.depth = IF c \in opens THEN @ + 1 ELSE IF c \in closes THEN @ - 1 ELSE @],
        [depth |-> 0, quote |-> "", skip |-> FALSE, at |-> <<>>], s).at

Parens == Markers \cup {"("}

\* The parenthesis that closes the one before s; 0 when none does.
FindMatchingParen(s) ==
    LET at == Levels(s, Parens, {")"}, FALSE) IN Earliest({i \in DOMAIN s : s[i] = ")" /\ at[i] = 0})

\* Positions in order, of a text at these levels.
Outermost(s, at, chars) == SetToSortSeq({i \in DOMAIN s : s[i] \in chars /\ at[i] = 0}, <)
FirstShown(s, at, needle) == Earliest({i \in DOMAIN s : s[i] = needle /\ at[i] /= Opaque})

\* The parts between commas at level 0.
Between(s, bounds) == [k \in 1..(Len(bounds) - 1) |-> SubSeq(s, bounds[k] + 1, bounds[k + 1] - 1)]
SplitCommas(s, at) == Between(s, <<0>> \o Outermost(s, at, {","}) \o <<Len(s) + 1>>)

SplitTopLevelCommas(s) == SplitCommas(s, Levels(s, Parens, {")"}, FALSE))

FindUnquoted(s, needle) == FirstShown(s, Levels(s, {}, {}, TRUE), needle)

----------------------------------------------------------------------------
(* Attributes *)

RECURSIVE Segments(_)
\* s cut into runs of other text and the bodies of its [...].
SegmentsOf(before, rest, close) ==
    <<[body |-> FALSE, s |-> before], [body |-> TRUE, s |-> SubSeq(rest, 1, close - 1)]>> \o Segments(From(rest, close + 1))
SegmentsAt(s, open) ==
    LET rest == From(s, open + 1)
        close == FindUnquoted(rest, "]")
    IN IF open = 0 \/ close = 0 THEN <<[body |-> FALSE, s |-> s]>> ELSE SegmentsOf(SubSeq(s, 1, open - 1), rest, close)
Segments(s) == SegmentsAt(s, FindUnquoted(s, "["))

\* [a!=v] becomes :not([a=v]).
NotEqual(body, bang) ==
    IF bang = 0 THEN <<"[">> \o body \o <<"]">>
    ELSE <<":not(", "[">> \o SubSeq(body, 1, bang - 1) \o <<"=">> \o From(body, bang + 1) \o <<"]", ")">>
RewriteNotEqualIn(parts) ==
    Glue([k \in DOMAIN parts |-> IF parts[k].body THEN NotEqual(parts[k].s, FindUnquoted(parts[k].s, "!=")) ELSE parts[k].s])
RewriteNotEqual(s) == RewriteNotEqualIn(Segments(s))

\* A value that starts with an escaped quote has its quotes unescaped, a bare
\* one that starts with a digit gets quotes.
EscapesQuote(body, i) == i < Len(body) /\ body[i] = "\\" /\ body[i + 1] \in Quotes
QuotesUnescaped(body) ==
    LET kept == SetToSortSeq({i \in DOMAIN body : ~EscapesQuote(body, i)}, <) IN [k \in DOMAIN kept |-> body[kept[k]]]
NormalizeAfter(body, op) ==
    CASE op /= 0 /\ op < Len(body) /\ EscapesQuote(body, op + 1) -> QuotesUnescaped(body)
      [] op /= 0 /\ op < Len(body) /\ body[op + 1] \in DigitChars ->
            SubSeq(body, 1, op) \o <<"\"">> \o From(body, op + 1) \o <<"\"">>
      [] OTHER -> body
NormalizeAttributeValue(body) == NormalizeAfter(body, FindFrom(body, <<"=">>, 1))
NormalizeAttributesIn(parts) ==
    Glue([k \in DOMAIN parts |-> IF parts[k].body THEN <<"[">> \o NormalizeAttributeValue(parts[k].s) \o <<"]">> ELSE parts[k].s])
NormalizeAttributeSelectors(s) == NormalizeAttributesIn(Segments(s))

----------------------------------------------------------------------------
(* Text predicates *)

Unquote(s) ==
    IF Len(s) >= 2 /\ s[1] \in Quotes /\ s[1] = s[Len(s)] THEN SubSeq(s, 2, Len(s) - 1) ELSE s

RECURSIVE CssUnescape(_)
\* A backslash gives the next character; the hexadecimal form is one atom here.
CssUnescape(s) ==
    IF s = <<>> THEN <<>>
    ELSE IF s[1] = "\\" THEN IF Len(s) = 1 THEN <<>> ELSE <<s[2]>> \o CssUnescape(From(s, 3))
    ELSE <<s[1]>> \o CssUnescape(Tail(s))

ContainsText(text) == [p |-> "contains", text |-> text, negate |-> FALSE]
DescendantOf(css, nested) == [p |-> "descendant", css |-> css, nested |-> nested, negate |-> FALSE]
Negated(predicate) == [predicate EXCEPT !.negate = ~@]

OrStar(css) == IF Trim(css) = <<>> THEN <<"*">> ELSE Trim(css)

\* Standard CSS scraper compiles; defined with its evaluator below.  It takes no
\* :has within a :has.  A definition's author may write :contains too, and :has
\* anywhere.
Css == "css"
CssInHas == "css in :has"
JQuery == "jquery"
RECURSIVE CssParses(_, _)

RECURSIVE Rewrite(_)
\* rewrite: lifts :contains out of s, however deep in :has and :not it is.  A
\* :has that lifted something, or that still holds a :has, becomes a predicate
\* about a descendant, whose selector stands in no :has and may hold one; a :not
\* negates each predicate its argument lifted.
Wrapped(marker, css) == IF css = <<>> THEN <<>> ELSE <<marker>> \o css \o <<")">>
\* MUTANT: only what lifted a text takes a :has apart.
NeedsLiftForText(inner, css) == inner.preds /= <<>>
NeedsLift(inner, css) == inner.preds /= <<>> \/ Has(css, <<":has(">>)
\* What a marker and its argument come to; inner is the argument rewritten.
Lifted(marker, arg, inner, css) ==
    CASE marker = ":contains(" ->
            [ok |-> TRUE, css |-> <<>>, preds |-> <<ContainsText(CssUnescape(Unquote(Trim(arg))))>>]
      [] marker = ":has(" ->
            IF ~inner.ok THEN Bad
            ELSE IF NeedsLift(inner, css)
            THEN [ok |-> CssParses(OrStar(css), Css), css |-> <<>>,
                  preds |-> <<DescendantOf(OrStar(css), inner.preds)>>]
            ELSE [ok |-> TRUE, css |-> Wrapped(":has(", css), preds |-> <<>>]
      [] marker = ":not(" ->
            IF ~inner.ok THEN Bad
            ELSE [ok |-> TRUE, css |-> Wrapped(":not(", css),
                  preds |-> [i \in DOMAIN inner.preds |-> Negated(inner.preds[i])]]
LiftedOf(marker, arg, inner) == Lifted(marker, arg, inner, Trim(inner.css))
Rejoined(before, part, rest) ==
    IF ~part.ok \/ ~rest.ok THEN Bad
    ELSE [ok |-> TRUE, css |-> before \o part.css \o rest.css, preds |-> part.preds \o rest.preds]
RewriteArgument(before, marker, arg, after) == Rejoined(before, LiftedOf(marker, arg, Rewrite(arg)), Rewrite(after))
RewriteAfter(before, marker, after, close) ==
    IF close = 0 THEN Bad ELSE RewriteArgument(before, marker, SubSeq(after, 1, close - 1), From(after, close + 1))
RewriteAt(s, idx) ==
    IF idx = 0 THEN [ok |-> TRUE, css |-> s, preds |-> <<>>]
    ELSE RewriteAfter(SubSeq(s, 1, idx - 1), s[idx], From(s, idx + 1), FindMatchingParen(From(s, idx + 1)))
Rewrite(s) == RewriteAt(s, Earliest({i \in DOMAIN s : s[i] \in Markers}))

----------------------------------------------------------------------------
(* JSON paths *)

Punctuation == {" ", ">", ",", "(", ")", "[", "]", "=", "!=", "'", "\"", "\\", "*", "$", "."} \cup Markers
IsIdentifier(s) == s /= <<>> /\ \A i \in DOMAIN s : s[i] \notin Punctuation

RECURSIVE IsPathTail(_)
IsPathTail(s) ==
    LET close == FindFrom(s, <<"]">>, 1)
        ident == Earliest({i \in DOMAIN s : s[i] \in Punctuation})
    IN CASE s = <<>> -> TRUE
         [] s /= <<>> /\ s[1] = "." -> IsPathTail(Tail(s))
         [] s /= <<>> /\ s[1] = "[" ->
              close > 2 /\ (\A i \in 2..(close - 1) : s[i] \in DigitChars) /\ IsPathTail(From(s, close + 1))
         [] OTHER -> ident /= 1 /\ IsPathTail(IF ident = 0 THEN <<>> ELSE From(s, ident))

IsJsonPath(s) ==
    \/ s = <<"$">>
    \/ StartsWith(s, <<".", ".">>) /\ IsIdentifier(From(s, 3))
    \/ StartsWith(s, <<"$">>) /\ Len(s) > 1 /\ IsPathTail(Tail(s))
    \/ ~StartsWith(s, <<"$">>) /\ ~StartsWith(s, <<".", ".">>) /\ Has(s, <<"[">>) /\ IsPathTail(s)

----------------------------------------------------------------------------
(* compile *)

CompileRewritten(rewritten) ==
    IF rewritten.ok /\ CssParses(OrStar(rewritten.css), Css)
    THEN [ok |-> TRUE, css |-> OrStar(rewritten.css), preds |-> rewritten.preds] ELSE Bad
CompileBranch(part) == CompileRewritten(Rewrite(part))

NormalizeAttributes(raw) == NormalizeAttributeSelectors(RewriteNotEqual(raw))
WithoutDollar(s) == IF s /= <<>> /\ s[1] = "$" THEN Tail(s) ELSE s
CompileParts(parts) == [k \in DOMAIN parts |-> CompileBranch(parts[k])]
CompiledOf(branches) ==
    IF \A k \in DOMAIN branches : branches[k].ok THEN [ok |-> TRUE, json |-> FALSE, branches |-> branches] ELSE Bad

Compile(raw) ==
    IF IsJsonPath(Trim(raw)) THEN [ok |-> TRUE, json |-> TRUE]
    ELSE CompiledOf(CompileParts(SplitTopLevelCommas(WithoutDollar(NormalizeAttributes(raw)))))

----------------------------------------------------------------------------
(* Documents and CSS, as scraper has them.  The evaluator knows :contains  *)
(* and != as well, so that it says what a whole selector means in jQuery;  *)
(* CssParses says what scraper accepts.                                    *)

Elements(doc) == DOMAIN doc.parent

RECURSIVE Ancestors(_, _)
Ancestors(doc, el) == IF doc.parent[el] = 0 THEN {} ELSE {doc.parent[el]} \cup Ancestors(doc, doc.parent[el])
Below(doc, root) == {el \in Elements(doc) : root \in Ancestors(doc, el)}

\* element_text: the element's text and its descendants'.
TextOf(doc, el) ==
    LET parts == SetToSortSeq({el} \cup Below(doc, el), <) IN Glue([k \in DOMAIN parts |-> doc.text[parts[k]]])

Brackets == Parens \cup {"["}
CssLevels(s) == Levels(s, Brackets, {")", "]"}, FALSE)
BalancedAt(s, shown) ==
    LET opened(i) == Cardinality({k \in shown : k <= i /\ s[k] \in Brackets})
        closed(i) == Cardinality({k \in shown : k <= i /\ s[k] \in {")", "]"}})
    IN opened(Len(s)) = closed(Len(s)) /\ \A i \in DOMAIN s : closed(i) <= opened(i)
ShownOf(s, at) == {i \in DOMAIN s : at[i] /= Opaque}
Balanced(s) == BalancedAt(s, ShownOf(s, CssLevels(s)))

\* A compound is its simple selectors: an identifier or *, an attribute test,
\* or a marker with its argument.
SimplesFrom(compound, starts) == [k \in 1..(Len(starts) - 1) |-> SubSeq(compound, starts[k], starts[k + 1] - 1)]
Simples(compound) ==
    SimplesFrom(compound, Append(Outermost(compound, CssLevels(compound), ToSet(compound)), Len(compound) + 1))
ArgOf(simple) == SubSeq(simple, 2, Len(simple) - 1)

Combinators == {" ", ">"}
\* What stands before the last combinator, that combinator, and what follows.
StepAt(branch, last) ==
    [left |-> SubSeq(branch, 1, last - 1), comb |-> IF last = 0 THEN "" ELSE branch[last],
     compound |-> From(branch, last + 1)]
StepAfter(branch, combs) == StepAt(branch, IF combs = <<>> THEN 0 ELSE Last(combs))
LastStep(branch) == StepAfter(branch, Outermost(branch, CssLevels(branch), Combinators))
TrimEach(parts) == [k \in DOMAIN parts |-> Trim(parts[k])]
Branches(s) == TrimEach(SplitCommas(s, CssLevels(s)))

AttributeParts(body) ==
    [name |-> body[1], op |-> body[2],
     value |-> SelectSeq(From(body, 3), LAMBDA c : c \notin Quotes \cup {"\\"})]
\* A value is quoted, or an identifier.
AttributeParses(body) ==
    /\ Len(body) >= 3 /\ body[1] \notin Punctuation \cup DigitChars /\ body[2] = "="
    /\ LET value == From(body, 3)
       IN Unquote(value) /= value \/ (IsIdentifier(value) /\ value[1] \notin DigitChars)

RECURSIVE BranchParses(_, _)
SimpleParses(simple, dialect) ==
    CASE Len(simple) = 1 -> simple[1] = "*" \/ simple[1] \notin Punctuation \cup DigitChars
      [] simple[1] = "[" -> AttributeParses(ArgOf(simple))
      [] simple[1] = ":not(" -> CssParses(Trim(ArgOf(simple)), dialect)
      [] simple[1] = ":has(" ->
            dialect /= CssInHas /\ CssParses(Trim(ArgOf(simple)), IF dialect = Css THEN CssInHas ELSE dialect)
      [] simple[1] = ":contains(" -> dialect = JQuery
      [] OTHER -> FALSE
CompoundParses(simples, dialect) ==
    /\ simples /= <<>>
    /\ \A k \in DOMAIN simples :
         SimpleParses(simples[k], dialect) /\ (k > 1 => simples[k][1] \in Markers \cup {"["})
StepParses(step, dialect) ==
    /\ CompoundParses(Simples(step.compound), dialect)
    /\ step.comb /= "" => BranchParses(step.left, dialect)
BranchParses(branch, dialect) == StepParses(LastStep(branch), dialect)
CssParses(s, dialect) ==
    Balanced(s) /\ \A branch \in ToSet(Branches(s)) : BranchParses(branch, dialect)

RECURSIVE Satisfies(_, _, _, _)
\* el is what a selector says, in a document or, for the argument of :has,
\* among the elements below scope.
SatisfiesSimple(doc, simple, el) ==
    CASE simple[1] = "*" -> TRUE
      [] simple[1] = "[" ->
            LET attr == AttributeParts(ArgOf(simple))
                has == attr.name \in DOMAIN doc.attrs[el] /\ doc.attrs[el][attr.name] = attr.value
            IN has = (attr.op = "=")
      [] simple[1] = ":contains(" -> Has(TextOf(doc, el), CssUnescape(Unquote(Trim(ArgOf(simple)))))
      [] simple[1] = ":has(" ->
            \E d \in Below(doc, el) : Satisfies(doc, Trim(ArgOf(simple)), d, Below(doc, el))
      [] simple[1] = ":not(" -> ~Satisfies(doc, Trim(ArgOf(simple)), el, Elements(doc))
      [] OTHER -> doc.tag[el] = simple[1]
SatisfiesStep(doc, step, el, scope) ==
    LET upper == IF step.comb = ">" THEN {doc.parent[el]} ELSE Ancestors(doc, el)
    IN /\ \A simple \in ToSet(Simples(step.compound)) : SatisfiesSimple(doc, simple, el)
       /\ step.comb /= "" => \E up \in upper \cap scope : Satisfies(doc, step.left, up, scope)
Satisfies(doc, s, el, scope) == \E branch \in ToSet(Branches(s)) : SatisfiesStep(doc, LastStep(branch), el, scope)

----------------------------------------------------------------------------
(* select and matches of a compiled selector *)

RECURSIVE Holds(_, _, _)
Holds(doc, predicate, el) ==
    predicate.negate /=
        CASE predicate.p = "contains" -> Has(TextOf(doc, el), predicate.text)
          [] predicate.p = "descendant" ->
                \E d \in Below(doc, el) :
                    /\ Satisfies(doc, predicate.css, d, Elements(doc))
                    /\ \A k \in DOMAIN predicate.nested : Holds(doc, predicate.nested[k], d)

MatchesBranch(doc, branch, el) ==
    /\ Satisfies(doc, branch.css, el, Elements(doc))
    /\ \A k \in DOMAIN branch.preds : Holds(doc, branch.preds[k], el)

Matches(doc, compiled, el) ==
    ~compiled.json /\ \E k \in DOMAIN compiled.branches : MatchesBranch(doc, compiled.branches[k], el)

\* Each element once, in document order, whatever branch found it.
Select(doc, compiled, root) == SetToSortSeq({el \in Below(doc, root) : Matches(doc, compiled, el)}, <)

----------------------------------------------------------------------------

\* Lifting keeps the meaning where a predicate about the element that matched
\* can say it: nothing is lifted out of a compound but the last, which after a
\* combinator keeps something of its own, a :has that is lifted asks for one
\* compound, or for any of several if nothing was lifted out of them, and a :not
\* that is lifted negates one predicate and nothing else.
\* An empty argument is dropped.
RECURSIVE Liftable(_)
LeavesNothing(rewritten) == rewritten.ok /\ Trim(rewritten.css) = <<>>
LeavesPredicates(rewritten) == rewritten.ok /\ rewritten.preds /= <<>>
Lifts(s) == LeavesPredicates(Rewrite(s))
LiftableArgument(simple, arg, branches, lifted) ==
    /\ arg /= <<>> /\ Liftable(arg)
    /\ (Lifts(simple) \/ ~Rewrite(simple).ok) /\ lifted.ok =>
         /\ lifted.preds /= <<>> => Len(branches) = 1
         /\ simple[1] = ":has(" => \A branch \in ToSet(branches) : LastStep(branch).comb = ""
         /\ simple[1] = ":not(" => Trim(lifted.css) = <<>> /\ Len(lifted.preds) = 1
LiftableSimple(simple, arg) ==
    CASE simple[1] = ":contains(" -> arg /= <<>>
      [] simple[1] \in {":has(", ":not("} -> LiftableArgument(simple, arg, Branches(arg), Rewrite(arg))
      [] OTHER -> TRUE
LiftableStep(step) ==
    /\ ~Lifts(step.left)
    /\ \A simple \in ToSet(Simples(step.compound)) : LiftableSimple(simple, Trim(ArgOf(simple)))
    /\ step.comb /= "" => Liftable(step.left) /\ ~LeavesNothing(Rewrite(step.compound))
Liftable(s) == \A branch \in ToSet(Branches(s)) : LiftableStep(LastStep(branch))

\* The same with nothing but a letter in its quotes.
Masked(s) ==
    LET at == Levels(s, {}, {}, FALSE)
    IN [i \in DOMAIN s |-> IF at[i] = Opaque /\ s[i] \notin Quotes THEN "x" ELSE s[i]]

\* A selector compiles or not whatever stands in its quotes, one that is well
\* formed does compile, also with a :has within a :has, and what compile and
\* select make of it is what it says.
LiftingKeepsMeaning(doc, raw, root) ==
    \A compiled \in {Compile(raw)} :
        /\ compiled.ok = Compile(Masked(raw)).ok
        /\ CssParses(Trim(NormalizeAttributes(raw)), JQuery) /\ Liftable(NormalizeAttributes(raw)) => compiled.ok
        /\ compiled.ok /\ ~compiled.json /\ Balanced(raw) /\ Liftable(NormalizeAttributes(raw)) =>
            /\ ToSet(Select(doc, compiled, root)) = {el \in Below(doc, root) : Satisfies(doc, Trim(raw), el, Elements(doc))}
            /\ IsSorted(Select(doc, compiled, root), <)
=============================================================================
