------------------------------ MODULE Template ------------------------------
(***************************************************************************)
(* The Go-template subset of Cardigann definitions:                        *)
(* crates/oxidarr-cardigann/src/template.rs.  A template is a sequence of  *)
(* pieces, each a literal text or one {{ action }}; an action is its head  *)
(* word and the tokens of its arguments.  Parsing is the recursive descent *)
(* of the source; rendering walks the tree it builds.                      *)
(***************************************************************************)
EXTENDS Naturals, Sequences, SequencesExt, Text

----------------------------------------------------------------------------
(* Scope.  A path is its namespace and its name: .Config.sort is           *)
(* [ns |-> "Config", name |-> "sort"]; .Keywords, .Categories, .False,     *)
(* .True and the loop item "." have the name "".                           *)

Path(ns, name) == [ns |-> ns, name |-> name]
Item == Path("item", "")
CategoriesPath == Path("Categories", "")

\* Tables of Scope are functions from names to strings.
Entry0(table, name) == IF name \in DOMAIN table THEN table[name] ELSE <<>>

Lookup(scope, p) ==
    CASE p.ns = "Keywords" -> scope.keywords
      [] p.ns = "True" -> <<"True">>
      [] p.ns = "Config" -> Entry0(scope.config, p.name)
      [] p.ns = "Result" -> Entry0(scope.result, p.name)
      [] p.ns = "Query" -> Entry0(scope.query, p.name)
      [] OTHER -> <<>>        \* .False, .Categories as text, unknown paths

\* ctx.item is the current range item, <<>> outside a range.
Value(ctx, p) == IF p.ns = "item" THEN ctx.item ELSE Lookup(ctx.scope, p)

Truthy(ctx, p) ==
    IF p.ns = "Categories" THEN ctx.scope.categories /= <<>> ELSE Value(ctx, p) /= <<>>

----------------------------------------------------------------------------
(* Tokens of an action's arguments. *)

Tok(t) == [t |-> t]
Str(s) == [t |-> "str", s |-> s]
Ident(p) == [t |-> "path", p |-> p]
Word(w) == [t |-> "word", w |-> w]

Calls == {"and", "or", "eq", "ne"}

RECURSIVE Literal(_, _, _)
\* The loop of tokenize inside a quoted literal, from position i of the
\* characters: only \" and \\ are escapes, any other backslash stays.
Literal(chars, i, read) ==
    IF i > Len(chars) THEN [ok |-> FALSE]
    ELSE CASE chars[i] = "\"" -> [ok |-> TRUE, s |-> read, next |-> i + 1]
           [] chars[i] = "\\" ->
                IF i = Len(chars) THEN [ok |-> FALSE]
                ELSE Literal(chars, i + 2,
                             read \o (IF chars[i + 1] \in {"\"", "\\"} THEN <<chars[i + 1]>>
                                      ELSE <<"\\", chars[i + 1]>>))
           [] OTHER -> Literal(chars, i + 1, Append(read, chars[i]))

RECURSIVE Tokenize(_, _)
\* tokenize: an identifier runs to the next space or parenthesis.
Tokenize(chars, i) ==
    LET Then(token, next) ==
            LET rest == Tokenize(chars, next)
            IN IF rest.ok THEN [rest EXCEPT !.toks = <<token>> \o @] ELSE rest
    IN IF i > Len(chars) THEN [ok |-> TRUE, toks |-> <<>>]
       ELSE CASE chars[i] = " " -> Tokenize(chars, i + 1)
              [] chars[i] \in {"(", ")"} -> Then(Tok(chars[i]), i + 1)
              [] chars[i] = "\"" ->
                    LET lit == Literal(chars, i + 1, <<>>)
                    IN IF lit.ok THEN Then(Str(lit.s), lit.next) ELSE lit
              [] OTHER ->
                    LET stop == {k \in i..Len(chars) : chars[k] \in {" ", "(", ")"}}
                        end == IF stop = {} THEN Len(chars) + 1
                               ELSE CHOOSE k \in stop : \A l \in stop : k <= l
                    IN Then(Word(SubSeq(chars, i, end - 1)), end)

----------------------------------------------------------------------------
(* Expressions.  A parse is [ok |-> FALSE] or the tree and where it ended. *)

Fails == [ok |-> FALSE]
PathExpr(p) == [x |-> "path", p |-> p]
StrExpr(s) == [x |-> "str", s |-> s]
Call(f, args) == [x |-> "call", f |-> f, args |-> args]

At(toks, pos) == IF pos <= Len(toks) THEN toks[pos] ELSE Tok("none")

RECURSIVE ParseExpr(_, _), ParseAtoms(_, _, _)

Closed(toks, inner) == IF inner.ok /\ At(toks, inner.pos).t = ")" THEN [inner EXCEPT !.pos = @ + 1] ELSE Fails
ParseAtom(toks, pos) ==
    LET tok == At(toks, pos)
    IN CASE tok.t = "(" -> Closed(toks, ParseExpr(toks, pos + 1))
         [] tok.t = "str" -> [ok |-> TRUE, e |-> StrExpr(tok.s), pos |-> pos + 1]
         [] tok.t = "path" -> [ok |-> TRUE, e |-> PathExpr(tok.p), pos |-> pos + 1]
         [] OTHER -> Fails

\* Atoms up to a closing parenthesis or the end.
AtomsAfter(toks, read, atom) == IF atom.ok THEN ParseAtoms(toks, atom.pos, Append(read, atom.e)) ELSE Fails
ParseAtoms(toks, pos, read) ==
    IF At(toks, pos).t \in {"none", ")"} THEN [ok |-> TRUE, args |-> read, pos |-> pos]
    ELSE AtomsAfter(toks, read, ParseAtom(toks, pos))

CallOf(word, rest) ==
    IF rest.ok /\ rest.args /= <<>> THEN [ok |-> TRUE, e |-> Call(word, rest.args), pos |-> rest.pos] ELSE Fails
ParseExpr(toks, pos) ==
    IF At(toks, pos).t = "word" /\ toks[pos].w \in Calls
    THEN CallOf(toks[pos].w, ParseAtoms(toks, pos + 1, <<>>))
    ELSE ParseAtom(toks, pos)

\* parse_cond, and parse_args, which takes atoms only: every token is consumed
\* (a ")" left over is an error).
Consumed(toks, parse) == IF parse.ok /\ parse.pos = Len(toks) + 1 THEN parse ELSE Fails
ParseCond(toks) == Consumed(toks, ParseExpr(toks, 1))
ParseArgs(toks) == Consumed(toks, ParseAtoms(toks, 1, <<>>))

RECURSIVE EvalBool(_, _)
EvalStr(e, ctx) ==
    CASE e.x = "path" -> Value(ctx, e.p)
      [] e.x = "str" -> e.s
      [] e.x = "call" -> IF EvalBool(e, ctx) THEN <<"true">> ELSE <<"false">>

EvalBool(e, ctx) ==
    CASE e.x = "path" -> Truthy(ctx, e.p)
      [] e.x = "str" -> e.s /= <<>>
      [] e.x = "call" ->
            CASE e.f = "and" -> \A i \in DOMAIN e.args : EvalBool(e.args[i], ctx)
              [] e.f = "or" -> \E i \in DOMAIN e.args : EvalBool(e.args[i], ctx)
              [] e.f = "eq" -> Len(e.args) = 2 /\ EvalStr(e.args[1], ctx) = EvalStr(e.args[2], ctx)
              [] e.f = "ne" -> Len(e.args) = 2 /\ EvalStr(e.args[1], ctx) /= EvalStr(e.args[2], ctx)

----------------------------------------------------------------------------
(* Blocks.  ParseUntil reads pieces from i to a piece whose head is in     *)
(* stop, and leaves it; at the top level there is no stop word.            *)

Plain(s) == [head |-> "text", s |-> s]
Act(head, toks) == [head |-> head, toks |-> toks]
Unclosed == [head |-> "unclosed"]         \* "{{" with no "}}" after it

Node(kind, with) == [node |-> kind, with |-> with]

\* The actions that stand alone; Fails for a head nothing supports, a stray
\* else or end among them.
ActionOf(head, args, at) ==
    IF /\ args.ok
       /\ \/ head = "or" /\ Len(args.args) > 0
          \/ head = "join" /\ Len(args.args) = 2 /\ args.args[1].x = "path"
          \/ head = "re_replace" /\ Len(args.args) = 3
    THEN [ok |-> TRUE, at |-> at, n |-> Node(head, args.args)] ELSE Fails
ParseAction(piece, at) ==
    IF piece.head = "path" THEN [ok |-> TRUE, at |-> at, n |-> Node("path", piece.toks[1].p)]
    ELSE IF piece.head \in {"or", "join", "re_replace"} THEN ActionOf(piece.head, ParseArgs(piece.toks), at) ELSE Fails

RECURSIVE ParseUntil(_, _, _, _)

IfNode(cond, then, other) ==
    IF cond.ok /\ then.ok /\ other.ok
    THEN [ok |-> TRUE, at |-> other.at,
          n |-> Node("if", [cond |-> cond.e, then |-> then.nodes, otherwise |-> other.nodes])]
    ELSE Fails

\* MUTANT: one stop set for both branches: a second else ends the else.
OtherwiseLoose(pieces, then) ==
    IF then.ok /\ pieces[then.at].head = "else" THEN ParseUntil(pieces, then.at + 1, {"else", "end"}, <<>>)
    ELSE [ok |-> then.ok, nodes |-> <<>>, at |-> then.at]

\* The branch after the else, if the first one ended at one.
Otherwise(pieces, then) ==
    IF then.ok /\ pieces[then.at].head = "else" THEN ParseUntil(pieces, then.at + 1, {"end"}, <<>>)
    ELSE [ok |-> then.ok, nodes |-> <<>>, at |-> then.at]
ParseBranches(pieces, cond, then) == IfNode(cond, then, Otherwise(pieces, then))
ParseIf(pieces, i) == ParseBranches(pieces, ParseCond(pieces[i].toks), ParseUntil(pieces, i + 1, {"else", "end"}, <<>>))

RangeNode(toks, body) ==
    IF Len(toks) = 1 /\ toks[1].t = "path" /\ body.ok
    THEN [ok |-> TRUE, at |-> body.at, n |-> Node("range", [list |-> toks[1].p, body |-> body.nodes])]
    ELSE Fails
ParseRange(pieces, i) == RangeNode(pieces[i].toks, ParseUntil(pieces, i + 1, {"end"}, <<>>))

\* What starts at piece i: a node, and the piece it ends at.
ParseOne(pieces, i, piece) ==
    CASE piece.head = "text" -> [ok |-> TRUE, at |-> i, n |-> Node("text", piece.s)]
      [] piece.head = "unclosed" -> Fails
      [] piece.head = "if" -> ParseIf(pieces, i)
      [] piece.head = "range" -> ParseRange(pieces, i)
      [] OTHER -> ParseAction(piece, i)
ParseOn(pieces, stop, nodes, one) ==
    IF one.ok THEN ParseUntil(pieces, one.at + 1, stop, Append(nodes, one.n)) ELSE Fails
ParseUntil(pieces, i, stop, nodes) ==
    IF i > Len(pieces) THEN IF stop = {} THEN [ok |-> TRUE, nodes |-> nodes, at |-> i] ELSE Fails
    ELSE IF pieces[i].head \in stop THEN [ok |-> TRUE, nodes |-> nodes, at |-> i]
    ELSE ParseOn(pieces, stop, nodes, ParseOne(pieces, i, pieces[i]))

Parse(pieces) == ParseUntil(pieces, 1, {}, <<>>)

----------------------------------------------------------------------------
(* Rendering. *)

Out(s) == [ok |-> TRUE, s |-> s]

\* The first non-empty operand.
FirstOf(values) ==
    LET some == SelectSeq(values, LAMBDA v : v /= <<>>) IN IF some = <<>> THEN <<>> ELSE some[1]

ReReplace(text, pattern, by) == IF Compiles(pattern) THEN Out(Substitute(text, pattern, by)) ELSE Fails

\* Outputs one after the other; a failing one fails all.
InTurn(outs) ==
    IF \A i \in DOMAIN outs : outs[i].ok THEN Out(Glue([i \in DOMAIN outs |-> outs[i].s])) ELSE Fails

RECURSIVE RenderNodes(_, _)
RenderNode(n, ctx) ==
    CASE n.node = "text" -> Out(n.with)
      [] n.node = "path" -> Out(Value(ctx, n.with))
      [] n.node = "or" -> Out(FirstOf([i \in DOMAIN n.with |-> EvalStr(n.with[i], ctx)]))
      [] n.node = "join" ->
            Out(IF n.with[1].p = CategoriesPath
                THEN JoinWith(ctx.scope.categories, EvalStr(n.with[2], ctx)) ELSE <<>>)
      [] n.node = "re_replace" -> ReReplace(EvalStr(n.with[1], ctx), EvalStr(n.with[2], ctx), EvalStr(n.with[3], ctx))
      [] n.node = "range" ->
            IF n.with.list = CategoriesPath
            THEN InTurn([i \in DOMAIN ctx.scope.categories |->
                     RenderNodes(n.with.body, [ctx EXCEPT !.item = ctx.scope.categories[i]])])
            ELSE Out(<<>>)
      [] n.node = "if" ->
            RenderNodes(IF EvalBool(n.with.cond, ctx) THEN n.with.then ELSE n.with.otherwise, ctx)

RenderNodes(nodes, ctx) == InTurn([i \in DOMAIN nodes |-> RenderNode(nodes[i], ctx)])

RenderParsed(parsed, scope) ==
    IF parsed.ok THEN RenderNodes(parsed.nodes, [scope |-> scope, item |-> <<>>]) ELSE Fails
Render(pieces, scope) == RenderParsed(Parse(pieces), scope)

----------------------------------------------------------------------------
(* What a template means, without a parser: blocks are found by counting,  *)
(* an argument list is split where the parentheses balance.                *)

Count(seq, i, j, Test(_)) == Cardinality({k \in i..j : Test(seq[k])})

Opens(piece) == piece.head \in {"if", "range"}
Ends(piece) == piece.head = "end"
Depth(pieces, i, j) == Count(pieces, i, j, Opens) - Count(pieces, i, j, Ends)

\* The openers still open just before j, and the innermost of them.
OpenAt(pieces, j) ==
    {i \in 1..(j - 1) : Opens(pieces[i]) /\ \A k \in i..(j - 1) : Depth(pieces, i, k) > 0}
Innermost(pieces, j) == CHOOSE i \in OpenAt(pieces, j) : \A k \in OpenAt(pieces, j) : k <= i

ElseOf(pieces, i) ==
    {j \in (i + 1)..Len(pieces) : pieces[j].head = "else" /\ OpenAt(pieces, j) /= {} /\ Innermost(pieces, j) = i}
EndOf(pieces, i) ==
    CHOOSE j \in (i + 1)..Len(pieces) : Ends(pieces[j]) /\ Innermost(pieces, j) = i

\* Where the arguments of a token list begin: nothing is open before them.
ParenDepth(toks, j) ==
    Count(toks, 1, j, LAMBDA k : k.t = "(") - Count(toks, 1, j, LAMBDA k : k.t = ")")
ArgStarts(toks) == {i \in DOMAIN toks : ParenDepth(toks, i - 1) = 0}
ArgAt(toks, i) ==
    LET later == {j \in ArgStarts(toks) : j > i}
    IN SubSeq(toks, i, IF later = {} THEN Len(toks) ELSE (CHOOSE j \in later : \A k \in later : j <= k) - 1)
ArgsOf(toks) == LET starts == SetToSortSeq(ArgStarts(toks), <) IN [k \in DOMAIN starts |-> ArgAt(toks, starts[k])]

Balanced(toks) ==
    ParenDepth(toks, Len(toks)) = 0 /\ \A j \in DOMAIN toks : ParenDepth(toks, j) >= 0

RECURSIVE IsExpression(_)
IsArgument(toks) ==
    \/ Len(toks) = 1 /\ toks[1].t \in {"path", "str"}
    \/ Len(toks) > 2 /\ toks[1].t = "(" /\ toks[Len(toks)].t = ")"
       /\ IsExpression(SubSeq(toks, 2, Len(toks) - 1))
IsExpression(toks) ==
    /\ toks /= <<>> /\ Balanced(toks)
    /\ \/ IsArgument(toks)
       \/ /\ toks[1].t = "word" /\ toks[1].w \in Calls /\ Len(toks) > 1
          /\ \A arg \in ToSet(ArgsOf(Tail(toks))) : IsArgument(arg)

RECURSIVE Holds(_, _), Says(_, _)
Says(toks, ctx) ==
    CASE toks[1].t = "(" -> Says(SubSeq(toks, 2, Len(toks) - 1), ctx)
      [] toks[1].t = "path" -> Value(ctx, toks[1].p)
      [] toks[1].t = "str" -> toks[1].s
      [] toks[1].t = "word" -> IF Holds(toks, ctx) THEN <<"true">> ELSE <<"false">>
Holds(toks, ctx) ==
    LET args == ArgsOf(Tail(toks))
        values == {Says(args[k], ctx) : k \in DOMAIN args}
    IN CASE toks[1].t = "(" -> Holds(SubSeq(toks, 2, Len(toks) - 1), ctx)
         [] toks[1].t = "path" -> Truthy(ctx, toks[1].p)
         [] toks[1].t = "str" -> toks[1].s /= <<>>
         [] toks[1].t = "word" ->
              CASE toks[1].w = "and" -> \A k \in DOMAIN args : Holds(args[k], ctx)
                [] toks[1].w = "or" -> \E k \in DOMAIN args : Holds(args[k], ctx)
                [] toks[1].w = "eq" -> Len(args) = 2 /\ Cardinality(values) = 1
                [] toks[1].w = "ne" -> Len(args) = 2 /\ Cardinality(values) = 2

\* Every action is one of the forms supported, every block is closed once, by
\* an end of its own, and only an if has an else, at most one.
WellFormed(pieces) ==
    /\ Depth(pieces, 1, Len(pieces)) = 0
    /\ \A j \in DOMAIN pieces :
        LET toks == pieces[j].toks
            args == ArgsOf(toks)
            Arguments == Balanced(toks) /\ \A k \in DOMAIN args : IsArgument(args[k])
        IN /\ Depth(pieces, 1, j) >= 0
           /\ CASE pieces[j].head \in {"text", "path", "end"} -> TRUE
                [] pieces[j].head = "if" ->
                    IsExpression(toks) /\ Cardinality(ElseOf(pieces, j)) <= 1
                [] pieces[j].head = "range" -> Len(toks) = 1 /\ toks[1].t = "path"
                [] pieces[j].head = "else" ->
                    OpenAt(pieces, j) /= {} /\ pieces[Innermost(pieces, j)].head = "if"
                [] pieces[j].head = "or" -> Arguments /\ Len(args) > 0
                [] pieces[j].head = "join" ->
                    Arguments /\ Len(args) = 2 /\ args[1][1].t = "path"
                [] pieces[j].head = "re_replace" -> Arguments /\ Len(args) = 3
                [] OTHER -> FALSE

RECURSIVE Meaning(_, _, _, _)
\* What the pieces i..j, a whole number of blocks, put out.
ActionMeans(piece, args, arg, ctx) ==
    CASE piece.head = "text" -> Out(piece.s)
      [] piece.head = "path" -> Out(Value(ctx, piece.toks[1].p))
      [] piece.head = "or" ->
            Out(IF \A k \in DOMAIN arg : arg[k] = <<>> THEN <<>>
                ELSE arg[CHOOSE k \in DOMAIN arg : arg[k] /= <<>> /\ \A l \in 1..(k - 1) : arg[l] = <<>>])
      [] piece.head = "join" ->
            Out(IF args[1][1].p = CategoriesPath THEN JoinWith(ctx.scope.categories, arg[2]) ELSE <<>>)
      [] piece.head = "re_replace" -> IF Compiles(arg[2]) THEN Out(Substitute(arg[1], arg[2], arg[3])) ELSE Fails
SaidBy(args, ctx) == [k \in DOMAIN args |-> Says(args[k], ctx)]
ArgsMean(piece, args, ctx) == ActionMeans(piece, args, SaidBy(args, ctx), ctx)
BlockMeans(pieces, i, mid, end, ctx) ==
    LET toks == pieces[i].toks
        Each(c) == Meaning(pieces, i + 1, end - 1, [ctx EXCEPT !.item = c])
    IN IF pieces[i].head = "range"
       THEN IF toks[1].p = CategoriesPath
            THEN InTurn([k \in DOMAIN ctx.scope.categories |-> Each(ctx.scope.categories[k])])
            ELSE Out(<<>>)
       ELSE IF Holds(toks, ctx) THEN Meaning(pieces, i + 1, mid - 1, ctx)
       ELSE Meaning(pieces, mid + 1, end - 1, ctx)
MiddleOf(pieces, i, end) == IF ElseOf(pieces, i) = {} THEN end ELSE CHOOSE k \in ElseOf(pieces, i) : TRUE
BlockThen(pieces, i, j, end, ctx) ==
    InTurn(<<BlockMeans(pieces, i, MiddleOf(pieces, i, end), end, ctx), Meaning(pieces, end + 1, j, ctx)>>)
Meaning(pieces, i, j, ctx) ==
    IF i > j THEN Out(<<>>)
    ELSE IF Opens(pieces[i]) THEN BlockThen(pieces, i, j, EndOf(pieces, i), ctx)
    ELSE InTurn(<<ArgsMean(pieces[i], ArgsOf(pieces[i].toks), ctx), Meaning(pieces, i + 1, j, ctx)>>)

MeansItsBlocks(pieces, scope) ==
    Render(pieces, scope) =
        IF WellFormed(pieces)
        THEN Meaning(pieces, 1, Len(pieces), [scope |-> scope, item |-> <<>>]) ELSE Fails

MeansItsCondition(toks, scope) ==
    LET ctx == [scope |-> scope, item |-> <<>>]
    IN IF IsExpression(toks)
       THEN LET cond == ParseCond(toks)
            IN cond.ok /\ EvalBool(cond.e, ctx) = Holds(toks, ctx) /\ EvalStr(cond.e, ctx) = Says(toks, ctx)
       ELSE ~ParseCond(toks).ok

\* Any text can be written as a literal, and is read back as it was: between
\* quotes, with its own quotes and its backslashes escaped; a backslash before
\* any other character, as regular expressions have them, needs no escape.
Quoted(s) ==
    <<"\"">> \o Glue([i \in DOMAIN s |-> IF s[i] \in {"\"", "\\"} THEN <<"\\", s[i]>> ELSE <<s[i]>>])
        \o <<"\"">>
LiteralsReadBack(s) ==
    Tokenize(Quoted(s) \o <<" ", ".", "a">>, 1) = [ok |-> TRUE, toks |-> <<Str(s), Word(<<".", "a">>)>>]
=============================================================================
