------------------------------ MODULE LoginForm ------------------------------
(***************************************************************************)
(* What the login flows of crates/oxidarr-indexer/src/login.rs put into a  *)
(* request and read out of an answer.  CardigannSession runs the flows.    *)
(* A page is a document of Selectors with the URL it was served from.      *)
(***************************************************************************)
EXTENDS Integers, Sequences, FiniteSets, SequencesExt, Text, FormFields

CONSTANT KeyOrder    \* the keys of a BTreeMap, in their order

R == INSTANCE Requests
S == INSTANCE Selectors
F == INSTANCE Filters

\* LoginError: a definition that cannot be followed, or a login refused.
Unusable == [ok |-> FALSE, error |-> "Definition"]
Rejected(message) == [ok |-> FALSE, error |-> "Rejected", message |-> message]
Fine == [ok |-> TRUE]
Gives(value) == [ok |-> TRUE, s |-> value]

\* The schema, with the defaults serde fills in; a field as far as a login
\* reads one.
Login ==
    [path |-> <<>>, inputs |-> R!NoInputs, form |-> <<>>, submitpath |-> <<>>,
     selectorinputs |-> R!NoInputs, cookies |-> <<>>, selectors |-> FALSE, headers |-> R!NoInputs]
Field == [text |-> <<>>, selector |-> <<>>, attribute |-> <<>>, filters |-> <<>>, default |-> <<>>]
ErrorRule(selector, message) == [selector |-> selector, message |-> message]

HtmlOnly(compiled) == IF ~compiled.ok \/ compiled.json THEN Unusable ELSE compiled
CompileHtmlSelector(raw) == HtmlOnly(S!Compile(raw))

\* The first element below root, as a sequence of at most one.
FirstMatch(doc, compiled, root) == LET found == S!Select(doc, compiled, root) IN SubSeq(found, 1, Min({1, Len(found)}))

Attribute(doc, el, name) ==
    IF name \in DOMAIN doc.attrs[el] THEN doc.attrs[el][name] ELSE <<>>

----------------------------------------------------------------------------
(* check_error_rules *)

\* message is a Field or nothing: its text, or what its selector finds in the
\* element the rule matched, or that element's own text.
MessageIn(doc, found) == Rejected(IF found = <<>> THEN <<>> ELSE Trim(S!TextOf(doc, found[1])))
MessageBy(compiled, doc, matched) ==
    IF compiled.ok THEN MessageIn(doc, FirstMatch(doc, compiled, matched)) ELSE compiled
ErrorMessage(message, doc, matched) ==
    CASE message /= <<>> /\ message[1].text /= <<>> -> Rejected(message[1].text[1])
      [] message /= <<>> /\ message[1].text = <<>> /\ message[1].selector /= <<>> ->
            MessageBy(CompileHtmlSelector(message[1].selector[1]), doc, matched)
      [] OTHER -> MessageIn(doc, <<matched>>)

\* An error, or the first element the rule matches.
RuleMatches(compiled, doc) == IF compiled.ok THEN Gives(FirstMatch(doc, compiled, 1)) ELSE compiled

RECURSIVE CheckErrorRules(_, _)
RuleAfter(found, rules, doc) ==
    IF ~found.ok THEN found
    ELSE IF found.s = <<>> THEN CheckErrorRules(Tail(rules), doc) ELSE ErrorMessage(rules[1].message, doc, found.s[1])
CheckErrorRules(rules, doc) ==
    IF rules = <<>> THEN Fine ELSE RuleAfter(RuleMatches(CompileHtmlSelector(rules[1].selector), doc), rules, doc)

----------------------------------------------------------------------------
(* form_login *)

\* No search: no keywords and no category.
LoginScope(def, user) == R!ScopeFor(def, R!SearchQuery(<<>>, {}), user, <<>>)

AllRendered(headers) ==
    IF \A i \in DOMAIN headers : headers[i].out.ok
    THEN Gives([i \in DOMAIN headers |-> <<headers[i].name, headers[i].out.s>>]) ELSE Unusable
RenderedHeaders(headers, scope) == AllRendered(R!HeadersOf(headers, scope))

LoginCookieHeader(login) ==
    IF login.cookies = <<>> THEN <<>> ELSE <<<<"Cookie", JoinWith(login.cookies, <<";", " ">>)>>>>

NameAttribute(doc, el) ==
    IF el = <<>> THEN Unusable
    ELSE IF "name" \notin DOMAIN doc.attrs[el[1]] THEN Unusable ELSE Gives(doc.attrs[el[1]]["name"])
NameOf(doc, compiled) == IF compiled.ok THEN NameAttribute(doc, FirstMatch(doc, compiled, 1)) ELSE Unusable
ResolveInputName(login, key, doc) ==
    IF login.selectors THEN NameOf(doc, CompileHtmlSelector(<<key>>)) ELSE Gives(<<key>>)

PairsOf(entries) == [i \in DOMAIN entries |-> <<entries[i].name.s, entries[i].value.s>>]

\* submit_login: no value is left out, and login.cookies are not sent.
SubmitPairs(url, method, pairs, headers) ==
    [ok |-> TRUE, method |-> method, at |-> url.at, headers |-> headers,
     query |-> IF method = "GET" THEN R!WithPairs(url.query, pairs) ELSE url.query,
     form |-> IF method = "POST" THEN <<pairs>> ELSE <<>>]
SubmitTo(url, method, entries, headers) ==
    IF ~url.ok \/ ~headers.ok \/ \E i \in DOMAIN entries : ~entries[i].value.ok THEN Unusable
    ELSE SubmitPairs(url, method, PairsOf(entries), headers.s)
InputsAsNamed(inputs, keys, scope) ==
    [i \in DOMAIN keys |-> [name |-> Gives(<<keys[i]>>), value |-> R!T!Render(inputs[keys[i]], scope)]]
LoginUrl(login, base, scope) ==
    IF login.path = <<>> \/ ~base.ok THEN Unusable ELSE R!JoinRendered(base.url, R!T!Render(login.path[1], scope))
SubmitAs(login, method, base, scope) ==
    SubmitTo(LoginUrl(login, base, scope), method, InputsAsNamed(login.inputs, R!InOrder(DOMAIN login.inputs), scope),
             RenderedHeaders(login.headers, scope))
SubmitRequest(def, login, method, user) == SubmitAs(login, method, R!ResolveBaseUrl(def), LoginScope(def, user))

RECURSIVE LoginFilters(_, _)
LoginFilterAfter(out, filters) == IF out.kind = "drop" THEN Unusable ELSE LoginFilters(Tail(filters), out.s)
\* With no keywords no filter drops anything; if one did, that is an error.
LoginFilters(filters, value) ==
    IF filters = <<>> THEN Gives(value)
    ELSE IF ~F!Parses(filters[1]) THEN Unusable ELSE LoginFilterAfter(F!Apply(filters[1], value, <<>>), filters)

\* A text as it stands, or what the selector finds in the whole page.
ElementGives(field, doc, el) ==
    CASE el = <<>> -> Gives(<<>>)
      [] el /= <<>> /\ field.attribute /= <<>> -> Gives(Attribute(doc, el[1], field.attribute[1]))
      [] OTHER -> Gives(S!TextOf(doc, el[1]))
FoundBy(field, doc, compiled) ==
    IF compiled.ok THEN ElementGives(field, doc, FirstMatch(doc, compiled, 1)) ELSE compiled
OrDefault(field, out) ==
    IF out.ok /\ out.s = <<>> /\ field.default /= <<>> THEN Gives(field.default[1]) ELSE out
Finished(field, found) == IF found.ok THEN OrDefault(field, LoginFilters(field.filters, found.s)) ELSE Unusable
EvaluateLoginField(field, doc) ==
    Finished(field,
             CASE field.text /= <<>> -> Gives(field.text[1])
               [] field.text = <<>> /\ field.selector /= <<>> ->
                    FoundBy(field, doc, CompileHtmlSelector(field.selector[1]))
               [] OTHER -> Gives(<<>>))

\* input[name] below the form, as pairs in document order.
FormInputs(doc, form) ==
    LET inputs == SetToSortSeq({el \in S!Below(doc, form) : doc.tag[el] = "input" /\ "name" \in DOMAIN doc.attrs[el]}, <)
    IN [i \in DOMAIN inputs |-> <<doc.attrs[inputs[i]]["name"], Attribute(doc, inputs[i], "value")>>]

\* login.selectorinputs and login.inputs as sequences of [name, value].
Scraped(login, doc) ==
    LET names == R!InOrder(DOMAIN login.selectorinputs)
    IN [i \in DOMAIN names |-> [name |-> Gives(<<names[i]>>), value |-> EvaluateLoginField(login.selectorinputs[names[i]], doc)]]
Credentials(login, doc, scope) ==
    LET keys == R!InOrder(DOMAIN login.inputs)
    IN [i \in DOMAIN keys |-> [name |-> ResolveInputName(login, keys[i], doc), value |-> R!T!Render(login.inputs[keys[i]], scope)]]

\* Url::join: a relative path replaces what follows the last slash of the page.
JoinPage(url, path) ==
    LET slashes == {i \in DOMAIN url : url[i] = "/"}
        last == CHOOSE i \in slashes : \A k \in slashes : k <= i
    IN IF path = <<>> THEN [ok |-> TRUE, at |-> url, query |-> <<>>] ELSE R!Join(SubSeq(url, 1, last), path)

Landing(login, url) ==
    IF url.ok THEN [ok |-> TRUE, method |-> "GET", at |-> url.at, headers |-> LoginCookieHeader(login)] ELSE Unusable
LandingRequest(def, login, user) == Landing(login, LoginUrl(login, R!ResolveBaseUrl(def), LoginScope(def, user)))

\* The form, as a sequence of at most one.
FormOn(doc, compiled) == IF compiled.ok THEN FirstMatch(doc, compiled, 1) ELSE <<>>
FormOf(login, doc) == FormOn(doc, CompileHtmlSelector(IF login.form = <<>> THEN <<"form">> ELSE login.form[1]))

\* What is posted once the landing page doc is there: its fields, then what is
\* scraped, then the credentials, each over the one before.
Posted(login, at, pairs, headers) ==
    [ok |-> TRUE, method |-> "POST", at |-> at, headers |-> headers \o LoginCookieHeader(login), form |-> pairs]
PostedTo(submit, login, doc, form, entries, headers) ==
    IF ~submit.ok \/ ~headers.ok \/ (\E i \in DOMAIN entries : ~entries[i].name.ok \/ ~entries[i].value.ok) THEN Unusable
    ELSE Posted(login, submit.at, UpsertAll(UpsertAll(<<>>, FormInputs(doc, form)), PairsOf(entries)), headers.s)
SubmitUrl(login, doc, form) ==
    JoinPage(doc.url, IF login.submitpath = <<>> THEN Attribute(doc, form, "action") ELSE login.submitpath[1])
Submitted(login, doc, form, entries, headers) ==
    IF form = <<>> THEN Unusable ELSE PostedTo(SubmitUrl(login, doc, form[1]), login, doc, form[1], entries, headers)
FormRequest(def, login, doc, user) ==
    Submitted(login, doc, FormOf(login, doc), Scraped(login, doc) \o Credentials(login, doc, LoginScope(def, user)),
              RenderedHeaders(login.headers, LoginScope(def, user)))

----------------------------------------------------------------------------

\* What is posted is the page's form, filled in.
FormComesBackFilled(def, login, doc, user) ==
    \A request \in {FormRequest(def, login, doc, user)} :
        request.ok => FilledIn(request.form, FormInputs(doc, FormOf(login, doc)[1]), PairsOf(Scraped(login, doc)),
                               PairsOf(Credentials(login, doc, LoginScope(def, user))))

\* A login submitted by GET says what one submitted by POST says: every input,
\* also one that renders to nothing.
SubmitsEitherWay(def, login, user) ==
    \A get \in {SubmitRequest(def, login, "GET", user)}, post \in {SubmitRequest(def, login, "POST", user)} :
        /\ get.ok = post.ok
        /\ get.ok => /\ R!SaidBy(get) = R!SaidBy(post)
                    /\ Len(post.form[1]) = Cardinality(DOMAIN login.inputs)

FirstOf(speak, alone) == IF speak = {} THEN Fine ELSE alone[Earliest(speak)]

\* The first rule that has something to say decides, whatever the rules around it.
FirstRuleDecides(rules, doc) ==
    \A alone \in {[i \in DOMAIN rules |-> CheckErrorRules(<<rules[i]>>, doc)]} :
        CheckErrorRules(rules, doc) = FirstOf({i \in DOMAIN alone : ~alone[i].ok}, alone)
=============================================================================
